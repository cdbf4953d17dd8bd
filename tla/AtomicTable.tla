---------------------------- MODULE AtomicTable ----------------------------
(***************************************************************************)
(* What an overwrite of a warehouse table promises its callers             *)
(* (overwrite_table_stream_checked, materialize.rs): a call takes effect   *)
(* on the whole table in one step or not at all, on top of what every      *)
(* earlier call and commit made of it, and what it returns says which.     *)
(* The exception is a hole of the protocol, after which nothing is         *)
(* promised any more.                                                      *)
(***************************************************************************)

CONSTANTS
    Merging,    \* the calls that keep the rows there are
    Replacing,  \* the calls that do not
    Brings,     \* the rows of each call
    Appends,    \* commits of other engines
    Seed,       \* the row of the table before the first call
    Absent      \* there is no table

VARIABLES
    rows,    \* the rows of the table
    status,  \* what became of each call
    hole     \* a hole of the protocol was hit

vars == <<rows, status, hole>>
AllCalls == Merging \cup Replacing

Init ==
    /\ rows \in {Absent, {}, {Seed}}
    /\ status \in [AllCalls -> {"pending", "unused"}]
    /\ hole = FALSE

Present == IF rows = Absent THEN {} ELSE rows
After(c) == IF c \in Merging THEN Present \cup Brings[c] ELSE Brings[c]

\* The call takes effect; its answer comes with it or later.
Commit(c) ==
    /\ status[c] = "pending"
    /\ rows' = After(c)
    /\ \E s \in {"committed", "ok"} : status' = [status EXCEPT ![c] = s]

Succeed(c) ==
    /\ status[c] = "committed"
    /\ status' = [status EXCEPT ![c] = "ok"]
    /\ UNCHANGED rows

\* The call returns an error or a conflict: it had no effect and has none.
Fail(c) ==
    /\ status[c] = "pending"
    /\ status' = [status EXCEPT ![c] = "failed"]
    /\ UNCHANGED rows

\* The process of the call ends before it returned.
Vanish(c) ==
    /\ status[c] \in {"pending", "committed"}
    /\ status' = [status EXCEPT ![c] = "unknown"]
    /\ UNCHANGED rows

Append(a) ==
    /\ rows # Absent /\ rows' = rows \cup {a}
    /\ UNCHANGED status

Next ==
    \/ hole'
    \/ /\ ~hole /\ UNCHANGED hole
       /\ \/ \E c \in AllCalls : Commit(c) \/ Succeed(c) \/ Fail(c) \/ Vanish(c)
          \/ \E a \in Appends : Append(a)

Spec == Init /\ [][Next]_vars
=============================================================================
