------------------------------ MODULE Requests ------------------------------
(***************************************************************************)
(* Handlers in flight.  A request is a label, the statement it executes    *)
(* next, and what it has read so far.  Statements on the pool are steps of *)
(* their own; a database transaction shows nothing to the others before it *)
(* commits, so its writes are the step of its commit.                      *)
(*                                                                         *)
(* A request can be cut off between two steps, by a broken connection or   *)
(* the end of the server process: what it committed stays, the rest never  *)
(* happens.                                                                *)
(*                                                                         *)
(* raced is a history variable: the rows on which two requests overlapped. *)
(* No handler reads it; properties that hold only for requests that come   *)
(* one at a time say so with it.                                           *)
(***************************************************************************)
EXTENDS Integers, FiniteSets

CONSTANT Req        \* requests that may be in flight together

VARIABLES
    pc,             \* the next statement of each request, "idle" for none
    loc,            \* what each request holds; loc[r].on is its row
    raced           \* rows on which two requests have overlapped

reqVars == <<pc, loc, raced>>

Nothing == [on |-> "none"]

InitRequests ==
    /\ pc = [r \in Req |-> "idle"]
    /\ loc = [r \in Req |-> Nothing]
    /\ raced = {}

Busy(r) == pc[r] # "idle"
WorkingOn(row) == {r \in Req : Busy(r) /\ loc[r].on = row}

(* A request arrives with the data d, d.on being the row it is about. *)
Begin(r, label, d) ==
    /\ ~Busy(r)
    /\ pc' = [pc EXCEPT ![r] = label]
    /\ loc' = [loc EXCEPT ![r] = d]
    /\ raced' = raced \cup {row \in {d.on} : WorkingOn(row) # {}}

(* A request served by a single statement: it is in flight for no time, so *)
(* it overlaps only requests that began before it and end after it.        *)
Serve(r, row) ==
    /\ ~Busy(r)
    /\ raced' = raced \cup {x \in {row} : WorkingOn(x) # {}}
    /\ UNCHANGED <<pc, loc>>

Goto(r, label, d) ==
    /\ pc' = [pc EXCEPT ![r] = label]
    /\ loc' = [loc EXCEPT ![r] = d]
    /\ UNCHANGED raced

(* The response, whatever it says. *)
End(r) ==
    /\ pc' = [pc EXCEPT ![r] = "idle"]
    /\ loc' = [loc EXCEPT ![r] = Nothing]
    /\ UNCHANGED raced

(* The request is cut off between two of its steps. *)
CutOff(r) == Busy(r) /\ End(r)
=============================================================================
