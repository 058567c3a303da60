--------------------------- MODULE DatabaseService ---------------------------
(***************************************************************************)
(* What the locks, the initialisation and the validation promise together  *)
(* of one database (docs/operations.md and the comments of                 *)
(* src/src/sqlite.rs and src/src/runtime_lock.rs): one server at a time is *)
(* past its locks; a database is initialised once, by the server that      *)
(* created it, which alone may discard it again and only before it serves; *)
(* it is served when it is complete, and then changes by one whole         *)
(* transaction at a time.  What was committed outlives the servers,        *)
(* however they end, until maintenance replaces it while none is there.    *)
(***************************************************************************)
EXTENDS Naturals

CONSTANTS Servers, Pages

VARIABLES
    stage,    \* where each server is
    named,    \* the file the path names; 0 is none
    data      \* what a reader of the database finds, page by page

vars == <<stage, named, data>>

\* After its v-th transaction; 0 is a database that was not initialised, or none.
State(v) == [q \in Pages |-> v]

MoveTo(s, st) == stage' = [stage EXCEPT ![s] = st]

Init == stage = [s \in Servers |-> "out"] /\ named = 0 /\ data = State(0)

Enter(s) ==
    /\ \A t \in Servers : stage[t] = "out"
    /\ MoveTo(s, "starting")
    /\ UNCHANGED <<named, data>>

Create(s) ==
    /\ stage[s] = "starting"
    /\ named = 0
    /\ named' # 0
    /\ MoveTo(s, "creating")
    /\ UNCHANGED data

Initialise(s) ==
    /\ stage[s] = "creating"
    /\ named # 0
    /\ data = State(0)
    /\ data' = State(1)
    /\ UNCHANGED <<stage, named>>

Initialised(s) ==
    /\ stage[s] = "creating"
    /\ data = State(1)
    /\ MoveTo(s, "starting")
    /\ UNCHANGED <<named, data>>

Discard(s) ==
    /\ stage[s] = "creating"
    /\ named' = 0
    /\ data' = State(0)
    /\ MoveTo(s, "leaving")

Serve(s) ==
    /\ stage[s] = "starting"
    /\ named # 0
    /\ data # State(0)
    /\ MoveTo(s, "serving")
    /\ UNCHANGED <<named, data>>

Commit(s) ==
    /\ stage[s] = "serving"
    /\ \E q \in Pages : data = State(data[q]) /\ data' = State(data[q] + 1)
    /\ UNCHANGED <<stage, named>>

\* A server gives up, stops or dies.
Leave(s) ==
    /\ stage[s] # "out"
    /\ MoveTo(s, "leaving") \/ MoveTo(s, "out")
    /\ UNCHANGED <<named, data>>

Replace ==
    /\ \A s \in Servers : stage[s] = "out"
    /\ named' \notin {0, named}
    /\ \E v \in {0, 1} : data' = State(v)
    /\ UNCHANGED stage

\* Most of what servers, doctors and maintenance do is none of this.
Rest == UNCHANGED vars

Next ==
    \/ Rest
    \/ \E s \in Servers : \/ Enter(s) \/ Create(s) \/ Initialise(s) \/ Initialised(s)
                          \/ Discard(s) \/ Serve(s) \/ Commit(s) \/ Leave(s)
    \/ Replace

Spec == Init /\ [][Next]_vars
=============================================================================
