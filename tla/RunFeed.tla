------------------------------- MODULE RunFeed -------------------------------
(***************************************************************************)
(* What a run's event stream promises its clients, with no buffers: the    *)
(* comment on broadcaster.Subscribe ("no gap, no duplicate") and on        *)
(* deliverLocked (a drop is always announced).  A run publishes numbered   *)
(* events; each client is handed a suffix of what was published before it  *)
(* joined, told so when that suffix is not the whole, then every later     *)
(* event, until the run ends or the client is cut off and told so.         *)
(***************************************************************************)
EXTENDS Naturals, Sequences

CONSTANTS Clients, MaxFrames

VARIABLES
    published,  \* number of events the run has published
    over,       \* the run has ended
    feed,       \* the event numbers handed to each client, in order
    status,     \* "absent", "live", "complete", "cut" or "gone"
    told        \* clients told that their feed starts late

vars == <<published, over, feed, status, told>>

Init ==
    /\ published = 0
    /\ over = FALSE
    /\ feed = [c \in Clients |-> <<>>]
    /\ status = [c \in Clients |-> "absent"]
    /\ told = {}

\* The events after the first `skipped`, in order.
Suffix(skipped) == [i \in 1..(published - skipped) |-> skipped + i]

Join(c) ==
    /\ status[c] = "absent"
    /\ \E skipped \in 0..published :
         /\ feed' = [feed EXCEPT ![c] = Suffix(skipped)]
         /\ told' = IF skipped > 0 THEN told \cup {c} ELSE told
    /\ status' = [status EXCEPT ![c] = IF over THEN "complete" ELSE "live"]
    /\ UNCHANGED <<published, over>>

\* Every live client is handed the new event, or is cut off instead of it.
Publish ==
    /\ ~over
    /\ published < MaxFrames
    /\ published' = published + 1
    /\ \E cut \in SUBSET {c \in Clients : status[c] = "live"} :
         /\ status' = [c \in Clients |-> IF c \in cut THEN "cut" ELSE status[c]]
         /\ feed' = [c \in Clients |->
                       IF status[c] = "live" /\ c \notin cut
                         THEN Append(feed[c], published')
                         ELSE feed[c]]
    /\ UNCHANGED <<over, told>>

End ==
    /\ ~over
    /\ over' = TRUE
    /\ status' = [c \in Clients |-> IF status[c] = "live" THEN "complete" ELSE status[c]]
    /\ UNCHANGED <<published, feed, told>>

\* A client may hang up while it still has frames of an ended run to read.
Leave(c) ==
    /\ status[c] \in {"live", "complete"}
    /\ status' = [status EXCEPT ![c] = "gone"]
    /\ UNCHANGED <<published, over, feed, told>>

Next == Publish \/ End \/ \E c \in Clients : Join(c) \/ Leave(c)

Spec == Init /\ [][Next]_vars

=============================================================================
