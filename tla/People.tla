-------------------------------- MODULE People ---------------------------------
(* What the modules about the coordinator's people share: the accounts, and the *)
(* requests at work.  Every statement the SQL stores send goes through one      *)
(* connection (store/db.go, SetMaxOpenConns(1)), so a statement, or a whole     *)
(* transaction, is one step; a handler is as many steps as it has statements.   *)
(* Reads that follow each other with nothing written between are one step.      *)
EXTENDS Integers, Sequences, FiniteSets, TLC

CONSTANTS
    Members,     \* the account ids of Accounts,
    Persons,     \* of Social,
    Players,     \* of Chat
    Visitors,    \* and of Presence
    Nobody,      \* a NULL account id
    AtOnce       \* bound: the requests at work at once

ASSUME PeopleAssumption == Nobody \notin Members

\* A table or a map with one more row, in place of any it had under that key.
Put(table, key, row) ==
    [k \in DOMAIN table \union {key} |-> IF k = key THEN row ELSE table[k]]

\* The rows of both; where both have one, the first's.
Over(first, second) ==
    [k \in DOMAIN first \union DOMAIN second |-> IF k \in DOMAIN first THEN first[k] ELSE second[k]]

Idle == [do |-> "nothing"]

NoneBusy(doing) == \A q \in DOMAIN doing : doing[q] = Idle
=================================================================================
