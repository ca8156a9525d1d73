------------------------------ MODULE MCKw1281 ------------------------------
(* Instances of Kw1281 for TLC. *)
EXTENDS Kw1281

\* Two entries, one due in every pass and one in every second, that share RPM;
\* the injection time is in the table and is not stored, as in Block1.
SmallTable ==
    << [block |-> 3, modulus |-> 1,
        slot |-> [NoSlots EXCEPT !["RPM"] = 1, !["THROTTLE_ANGLE"] = 2]],
       [block |-> 2, modulus |-> 2,
        slot |-> [NoSlots EXCEPT !["RPM"] = 1, !["INJECTION_TIME"] = 2]] >>
=============================================================================
