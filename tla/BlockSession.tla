---------------------------- MODULE BlockSession ----------------------------
(***************************************************************************)
(* What kw1281.c promises of a diagnostic session, without its bytes: the   *)
(* two sides take turns block by block, the blocks of a session are         *)
(* numbered 1, 2, 3, ... without a gap or a repetition, and once the ECU is *)
(* identified the groups are polled in the order of the table, each in the  *)
(* passes it is due in.  A session may be dropped at any moment; the next   *)
(* one starts from the beginning.                                           *)
(***************************************************************************)
EXTENDS Naturals

CONSTANTS
    CounterMod,     \* block numbers are kept modulo this
    LoopMod,        \* passes are counted modulo this
    Entries,        \* the entries of the table, as numbers
    Modulus         \* [Entries -> Nat \ {0}]: an entry is polled every so many passes

VARIABLES
    phase,          \* "down", "ident" or "poll"
    turn,           \* whose block is next: "ecu" or "tester"
    number,         \* the number of that block
    entry,          \* the entry being polled, 0 while identifying
    pass            \* the pass through the table

vars == <<phase, turn, number, entry, pass>>

Down ==
    /\ phase' = "down" /\ turn' = "ecu" /\ number' = 1
    /\ entry' = 0 /\ pass' = 0

Init ==
    /\ phase = "down" /\ turn = "ecu" /\ number = 1
    /\ entry = 0 /\ pass = 0

DueIn(n) == {i \in Entries : n % Modulus[i] = 0}

FirstOf(i, S) == i \in S /\ \A j \in S : i <= j

\* The ECU is awake; its block number 1 is next.
Connect ==
    /\ phase = "down" /\ phase' = "ident"
    /\ UNCHANGED <<turn, number, entry, pass>>

TesterBlock ==
    /\ phase # "down" /\ turn = "tester"
    /\ turn' = "ecu" /\ number' = (number + 1) % CounterMod
    /\ UNCHANGED <<phase, entry, pass>>

\* A block of the ECU is complete.
EcuBlock ==
    /\ phase # "down" /\ turn = "ecu"
    /\ turn' = "tester" /\ number' = (number + 1) % CounterMod

IdentBlock == EcuBlock /\ phase = "ident" /\ UNCHANGED <<phase, entry, pass>>

Identified ==
    /\ EcuBlock /\ phase = "ident"
    /\ phase' = "poll" /\ pass' = 0 /\ FirstOf(entry', DueIn(0))

Answered ==
    /\ EcuBlock /\ phase = "poll"
    /\ LET later == {i \in DueIn(pass) : i > entry}
           next  == (pass + 1) % LoopMod
       IN  IF later # {} THEN pass' = pass /\ FirstOf(entry', later)
                         ELSE pass' = next /\ FirstOf(entry', DueIn(next))
    /\ UNCHANGED phase

Drop == phase # "down" /\ Down

Next == Connect \/ TesterBlock \/ IdentBlock \/ Identified \/ Answered \/ Drop

Spec == Init /\ [][Next]_vars
=============================================================================
