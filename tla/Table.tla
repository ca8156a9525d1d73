------------------------------- MODULE Table -------------------------------
(***************************************************************************)
(* The shape of the table `data`.  The output plugins create it only IF NOT  *)
(* EXISTS, so that the one that an earlier program or the user has left is   *)
(* kept, with its rows.                                                    *)
(***************************************************************************)
EXTENDS Naturals

\* "created": as init_db creates it.  "extended": with one column more, for the
\* throttle angle, which the INSERT has a value for and init_db no column.
\* "former": with the columns that json_get_data and json_get_averages name,
\* most of which init_db does not create.
Width == [created |-> 16, extended |-> 17, former |-> 26]

Shapes == DOMAIN Width

\* id, time, nine values of the ECU, five of the GPS and the throttle angle
Supplied == 17

\* SQLite wants a value for each column, PostgreSQL a column for each value: on
\* the table that the program creates, every INSERT fails.
Accepts(plugin, table) ==
    IF plugin = "sqlite" THEN Width[table] = Supplied ELSE Width[table] >= Supplied

\* The columns of json_get_data's query are there.
HasValues(table) == table = "former"
=============================================================================
