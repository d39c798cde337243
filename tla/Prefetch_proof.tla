---------------------------- MODULE Prefetch_proof ----------------------------
(***************************************************************************)
(* A key has one leader, and what is stored under a key was parsed from    *)
(* the text the key describes, for any number of threads, audits, files    *)
(* and versions of a file.                                                 *)
(*                                                                         *)
(* The invariant follows a key from the stat it was made of: the text a    *)
(* thread or a ticket carries for it was read no earlier (InOrder), so an  *)
(* answer that is still about the key's version when it is settled was     *)
(* parsed from exactly that text.  That is inductive only with the flights *)
(* (Flown), which say that nobody else lands the key meanwhile, and with   *)
(* the walks' reservations (Reservations).                                 *)
(*                                                                         *)
(* The pool's slots are counted on top of it (Slots): the tickets of the   *)
(* open indexes, those in hand, those being discarded and the requests in  *)
(* progress are the slots taken, and each step moves a unit between them.  *)
(***************************************************************************)
EXTENDS Prefetch, SumTheorems

\* A thread here holds a key, and here the text of a request for it as well.
KeyedPCs ==
    LeadPCs \cup {"reserving", "shipping", "filing", "releasing", "giving up",
                  "keyed", "boarding", "joining", "answered"}
TextPCs == {"filing", "collecting", "parsing", "settling", "landing"}
ReservingPCs == {"shipping", "filing", "releasing", "giving up"}

Entries == {Nothing} \cup [by : Threads, text : 0..MaxVersion]

\* The types the steps rest on.
Types ==
    /\ pc \in [Threads -> PCs] /\ then \in [Threads -> {"asking", "head"}]
    /\ at \in [Threads -> Nat] /\ next \in [Threads -> Nat]
    /\ key \in [Threads -> Keys \cup {NoKey}] /\ text \in [Threads -> 0..MaxVersion]
    /\ outcome \in [Threads -> Outcomes]
    /\ version \in [Files -> Versions] /\ stored \in [Keys -> 0..MaxVersion]
    /\ index \in [Audits -> [Keys -> Entries]]

\* How far a thread has come.
Placed ==
    /\ \A t \in Threads : at[t] <= Len(Walk[t])
    /\ \A t \in Threads : pc[t] \notin {"head", "draining", "done"} => at[t] # 0
    /\ \A t \in Threads : pc[t] \in KeyedPCs => key[t] \in Keys

Shape == Types /\ Placed

Of(k, v) == v \in k[2]..version[k[1]]

\* The file has not gone back behind a key, nor the text of its request.
InOrder ==
    /\ \A t \in Threads : pc[t] \in KeyedPCs => key[t][2] <= version[key[t][1]]
    /\ \A t \in Threads : pc[t] \in TextPCs => Of(key[t], text[t])
    /\ \A a \in Audits : \A k \in Keys : Filed(index[a][k]) => Of(k, index[a][k].text)
    /\ \A t \in Threads : pc[t] = "settling" => outcome[t] # "kept"
    /\ \A t \in Threads : pc[t] = "landing" /\ outcome[t] = "kept" => text[t] = key[t][2]

Flown ==
    /\ flight \subseteq Keys
    /\ \A k \in flight : \E t \in Threads : pc[t] \in LeadPCs /\ key[t] = k
    /\ \A t \in Threads : pc[t] \in LeadPCs => key[t] \in flight /\ stored[key[t]] = 0
    /\ \A t, u \in Threads : pc[t] \in LeadPCs /\ pc[u] \in LeadPCs /\ key[t] = key[u] => t = u
    /\ \A t \in Threads : At(t, "joining") => key[t] \in flight

\* A reservation is of a thread of the index's audit that is about to settle it.
Reservations ==
    \A a \in Audits : \A k \in Keys : Reserved(index[a][k]) =>
        /\ index[a][k].by \in Threads /\ Audit(index[a][k].by) = a
        /\ pc[index[a][k].by] \in ReservingPCs /\ key[index[a][k].by] = k

IInv == Shape /\ InOrder /\ Flown /\ Reservations /\ StoredIsCurrent

-----------------------------------------------------------------------------
LEMMA InitHolds == Init => IInv
<1> SUFFICES ASSUME Init PROVE IInv
  OBVIOUS
<1> USE AuditOfAssumption, WalkAssumption, BoundsAssumption
<1>1. Shape
  BY DEF Init, Shape, Types, Placed, PCs, Outcomes, Versions, Keys, KeyedPCs, LeadPCs, Entries
<1>2. InOrder
  BY DEF Init, InOrder, KeyedPCs, LeadPCs, TextPCs, Filed, Keys
<1>3. Flown
  BY DEF Init, Flown, LeadPCs, At
<1>4. Reservations
  BY DEF Init, Reservations, Reserved
<1>5. StoredIsCurrent
  BY DEF Init, StoredIsCurrent
<1>6. QED
  BY <1>1, <1>2, <1>3, <1>4, <1>5 DEF IInv

-----------------------------------------------------------------------------
(***************************************************************************)
(* What a step of one thread may leave alone.                              *)
(***************************************************************************)
\* t goes to p and is, or is not, a leader of its key as before.
LeadsOn(t, p) ==
    /\ pc' = [pc EXCEPT ![t] = p] /\ flight' = flight /\ stored' = stored
    /\ pc[t] \in LeadPCs <=> p \in LeadPCs
    /\ p # "joining"
    /\ p \in LeadPCs => key'[t] = key[t]
    /\ \A u \in Threads : u # t => key'[u] = key[u]

LEMMA FlownKept ==
    ASSUME Shape, Flown, NEW t \in Threads, NEW p, LeadsOn(t, p)
    PROVE  Flown'
<1>1. \A u \in Threads : pc'[u] = IF u = t THEN p ELSE pc[u]
  BY DEF Shape, Types, Placed, LeadsOn
<1>2. \A u \in Threads : pc'[u] \in LeadPCs <=> pc[u] \in LeadPCs
  BY <1>1 DEF LeadsOn
<1>3. \A u \in Threads : pc'[u] \in LeadPCs => key'[u] = key[u]
  BY <1>1 DEF LeadsOn
<1>4. \A u \in Threads : At(u, "joining")' => At(u, "joining") /\ key'[u] = key[u]
  BY <1>1 DEF LeadsOn, At
<1>5. flight' = flight /\ stored' = stored
  BY DEF LeadsOn
<1>6. QED
  BY <1>2, <1>3, <1>4, <1>5 DEF Flown

\* t goes to p and settles no reservation.
ReservesOn(t, p) ==
    /\ pc' = [pc EXCEPT ![t] = p]
    /\ pc[t] \in ReservingPCs => p \in ReservingPCs /\ key'[t] = key[t]
    /\ \A u \in Threads : u # t => key'[u] = key[u]

\* No reservation is new.
NoneReserved == \A a \in Audits : \A k \in Keys : Reserved(index[a][k])' => index'[a][k] = index[a][k]

LEMMA ReservationsKept ==
    ASSUME Shape, Reservations, NEW t \in Threads, NEW p, ReservesOn(t, p), NoneReserved
    PROVE  Reservations'
<1>1. \A u \in Threads : pc'[u] = IF u = t THEN p ELSE pc[u]
  BY DEF Shape, Types, Placed, ReservesOn
<1>2. \A u \in Threads : pc[u] \in ReservingPCs => pc'[u] \in ReservingPCs /\ key'[u] = key[u]
  BY <1>1 DEF ReservesOn
<1> SUFFICES ASSUME NEW a \in Audits, NEW k \in Keys, Reserved(index[a][k])'
             PROVE  (/\ index[a][k].by \in Threads /\ Audit(index[a][k].by) = a
                     /\ pc[index[a][k].by] \in ReservingPCs /\ key[index[a][k].by] = k)'
  BY DEF Reservations
<1>3. index'[a][k] = index[a][k] /\ Reserved(index[a][k])
  BY DEF NoneReserved, Reserved
<1>4. QED
  BY <1>2, <1>3 DEF Reservations, Audit

-----------------------------------------------------------------------------
(***************************************************************************)
(* The walk.                                                               *)
(***************************************************************************)
\* A step that touches neither the index nor an answer keeps both when its
\* thread leads on and reserves on.
Plain(t, p) == LeadsOn(t, p) /\ ReservesOn(t, p) /\ index' = index

LEMMA PlainKeeps ==
    ASSUME IInv, NEW t \in Threads, NEW p, Plain(t, p)
    PROVE  Flown' /\ Reservations' /\ StoredIsCurrent'
<1>1. Flown'
  BY FlownKept DEF IInv, Plain
<1>2. NoneReserved
  BY DEF NoneReserved, Plain
<1>3. Reservations'
  BY <1>2, ReservationsKept DEF IInv, Plain
<1>4. StoredIsCurrent'
  BY DEF IInv, StoredIsCurrent, Plain, LeadsOn
<1>5. QED
  BY <1>1, <1>3, <1>4

\* The upcoming position of a window is a file.
LEMMA UpcomingFile ==
    ASSUME Shape, NEW t \in Threads, Window(t)
    PROVE  Upcoming(t) \in Files /\ Stat(Upcoming(t)) \in Keys
           /\ Stat(Upcoming(t))[2] <= version[Stat(Upcoming(t))[1]]
<1>1. Walk[t] \in Seq(Files) /\ next[t] \in Nat /\ next[t] < Len(Walk[t])
  BY WalkAssumption DEF Shape, Types, Placed, Window
<1>2. next[t] + 1 \in 1..Len(Walk[t])
  BY <1>1
<1>3. Upcoming(t) \in Files
  BY <1>1, <1>2 DEF Upcoming
<1>4. version[Upcoming(t)] \in Versions
  BY <1>3 DEF Shape, Types, Placed
<1>5. QED
  BY <1>3, <1>4, BoundsAssumption DEF Stat, Keys, Versions

LEMMA WalkLength == \A t \in Threads : Len(Walk[t]) \in Nat
BY WalkAssumption

LEMMA AdvanceKeeps ==
    ASSUME IInv, NEW t \in Threads, Advance(t)
    PROVE  IInv'
<1>1. PICK p \in {"asking", "considering"} : pc' = [pc EXCEPT ![t] = p]
  BY DEF Advance, Goto
<1>2. Shape'
  <2>a. /\ at \in [Threads -> Nat] /\ at' = [at EXCEPT ![t] = @ + 1]
        /\ then \in [Threads -> {"asking", "head"}] /\ then' = [then EXCEPT ![t] = "asking"]
        /\ pc \in [Threads -> PCs] /\ {"asking", "considering"} \subseteq PCs
        /\ next \in [Threads -> Nat]
    BY DEF IInv, Shape, Types, Placed, Advance, PCs
  <2>1. /\ pc' \in [Threads -> PCs] /\ then' \in [Threads -> {"asking", "head"}]
        /\ at' \in [Threads -> Nat] /\ \A u \in Threads : at'[u] = IF u = t THEN at[u] + 1 ELSE at[u]
    BY <1>1, <2>a
  <2>2. next' \in [Threads -> Nat]
    <3>1. next' = next \/ next' = [next EXCEPT ![t] = IF @ > at[t] THEN @ ELSE at[t] + 1]
      BY DEF Advance
    <3>2. QED
      BY <2>a, <3>1
  <2>3. \A u \in Threads : at'[u] <= Len(Walk[u])
    BY <2>1, WalkLength DEF IInv, Shape, Types, Placed, Advance
  <2>4. \A u \in Threads : pc'[u] \notin {"head", "draining", "done"} => at'[u] # 0
    BY <1>1, <2>1 DEF IInv, Shape, Types, Placed, Advance
  <2>5. \A u \in Threads : pc'[u] \in KeyedPCs => key'[u] \in Keys
    BY <1>1 DEF IInv, Shape, Types, Placed, Advance, KeyedPCs, LeadPCs
  <2>6. QED
    BY <2>1, <2>2, <2>3, <2>4, <2>5 DEF IInv, Shape, Types, Placed, Advance, cacheVars, indexVars
<1>3. InOrder'
  BY <1>1 DEF IInv, Shape, Types, Placed, InOrder, Of, Advance, At, KeyedPCs, LeadPCs, TextPCs, cacheVars, indexVars
<1>4. Plain(t, p)
  BY <1>1 DEF Plain, LeadsOn, ReservesOn, Advance, At, LeadPCs, ReservingPCs, cacheVars, indexVars
<1>5. QED
  BY <1>2, <1>3, <1>4, PlainKeeps DEF IInv

LEMMA RestKeeps ==
    ASSUME IInv, NEW t \in Threads, Rest(t)
    PROVE  IInv'
<1>1. PICK p \in {"asking", "head"} : pc' = [pc EXCEPT ![t] = p]
  BY DEF IInv, Shape, Types, Placed, Rest, Goto
<1>2. Shape'
  BY <1>1 DEF IInv, Shape, Types, Placed, Rest, At, PCs, KeyedPCs, LeadPCs, cacheVars, indexVars
<1>3. InOrder'
  BY <1>1 DEF IInv, Shape, Types, Placed, InOrder, Of, Rest, At, KeyedPCs, LeadPCs, TextPCs, cacheVars, indexVars
<1>4. Plain(t, p)
  BY <1>1 DEF Plain, LeadsOn, ReservesOn, Rest, At, LeadPCs, ReservingPCs, cacheVars, indexVars
<1>5. QED
  BY <1>2, <1>3, <1>4, PlainKeeps DEF IInv

LEMMA ConsiderKeeps ==
    ASSUME IInv, NEW t \in Threads, Consider(t)
    PROVE  IInv'
<1>1. CASE Considered(t)
  <2>1. Shape'
    <3>1. /\ pc' \in [Threads -> PCs] /\ next' \in [Threads -> Nat]
          /\ key' \in [Threads -> Keys \cup {NoKey}] /\ text' \in [Threads -> 0..MaxVersion]
      <4>1. /\ pc \in [Threads -> PCs] /\ next \in [Threads -> Nat] /\ "considering" \in PCs
            /\ key \in [Threads -> Keys \cup {NoKey}] /\ text \in [Threads -> 0..MaxVersion]
        BY DEF IInv, Shape, Types, PCs
      <4>2. 0 \in 0..MaxVersion
        BY BoundsAssumption
      <4>3. /\ next' = [next EXCEPT ![t] = @ + 1] /\ pc' = [pc EXCEPT ![t] = "considering"]
            /\ key' = [key EXCEPT ![t] = NoKey] /\ text' = [text EXCEPT ![t] = 0]
        BY <1>1 DEF Considered, Goto
      <4>4. QED
        BY <4>1, <4>2, <4>3
    <3>2. \A u \in Threads : pc'[u] \in KeyedPCs => key'[u] \in Keys
      BY <1>1 DEF IInv, Shape, Types, Placed, Considered, Goto, KeyedPCs, LeadPCs
    <3>3. \A u \in Threads : pc'[u] \notin {"head", "draining", "done"} => at'[u] # 0
      BY <1>1 DEF IInv, Shape, Types, Placed, Consider, Considered, Goto, At
    <3>4. QED
      BY <3>1, <3>2, <3>3 DEF IInv, Shape, Types, Placed, Consider, cacheVars, indexVars
  <2>2. InOrder'
    BY <1>1 DEF IInv, Shape, Types, Placed, InOrder, Of, Consider, Considered, Goto, At, KeyedPCs, LeadPCs, TextPCs, cacheVars, indexVars
  <2>3. Plain(t, "considering")
    BY <1>1 DEF IInv, Shape, Types, Placed, Plain, LeadsOn, ReservesOn, Consider, Considered, Goto, At, LeadPCs, ReservingPCs,
                cacheVars, indexVars
  <2>4. QED
    BY <2>1, <2>2, <2>3, PlainKeeps DEF IInv
<1>2. CASE key' = [key EXCEPT ![t] = Stat(Upcoming(t))] /\ Goto(t, "reserving") /\ UNCHANGED <<next, text>>
  <2>1. Stat(Upcoming(t)) \in Keys /\ Stat(Upcoming(t))[2] <= version[Stat(Upcoming(t))[1]]
    BY UpcomingFile DEF IInv, Consider
  <2>2. Shape'
    BY <1>2, <2>1 DEF IInv, Shape, Types, Placed, Consider, Goto, At, PCs, KeyedPCs, LeadPCs, cacheVars, indexVars
  <2>3. InOrder'
    BY <1>2, <2>1 DEF IInv, Shape, Types, Placed, InOrder, Of, Consider, Goto, At, KeyedPCs, LeadPCs, TextPCs, cacheVars, indexVars
  <2>4. Plain(t, "reserving")
    BY <1>2 DEF IInv, Shape, Types, Placed, Plain, LeadsOn, ReservesOn, Consider, Goto, At, LeadPCs, ReservingPCs, cacheVars, indexVars
  <2>5. QED
    BY <2>2, <2>3, <2>4, PlainKeeps DEF IInv
<1>3. QED
  BY <1>1, <1>2 DEF Consider

LEMMA ClaimTimesOutKeeps ==
    ASSUME IInv, NEW t \in Threads, ClaimTimesOut(t)
    PROVE  IInv'
<1>1. Types'
  BY DEF IInv, Shape, Types, ClaimTimesOut, Goto, PCs, LeadPCs, Outcomes, cacheVars, indexVars
<1>2. Placed'
  BY DEF IInv, Shape, Types, Placed, ClaimTimesOut, Goto, At, KeyedPCs, LeadPCs, cacheVars, indexVars
<1>3. InOrder'
  BY DEF IInv, Shape, Types, Placed, InOrder, Of, ClaimTimesOut, Goto, At, KeyedPCs, LeadPCs, TextPCs,
         cacheVars, indexVars
<1>4. Plain(t, "requesting")
  BY DEF IInv, Shape, Types, Plain, LeadsOn, ReservesOn, ClaimTimesOut, Goto, At, LeadPCs, ReservingPCs, cacheVars, indexVars
<1>5. QED
  BY <1>1, <1>2, <1>3, <1>4, PlainKeeps DEF IInv, Shape

LEMMA WalkedOutKeeps ==
    ASSUME IInv, NEW t \in Threads, WalkedOut(t)
    PROVE  IInv'
<1>1. Types'
  BY DEF IInv, Shape, Types, WalkedOut, Goto, PCs, LeadPCs, Outcomes, cacheVars, indexVars
<1>2. Placed'
  BY DEF IInv, Shape, Types, Placed, WalkedOut, Goto, At, KeyedPCs, LeadPCs, cacheVars, indexVars
<1>3. InOrder'
  BY DEF IInv, Shape, Types, Placed, InOrder, Of, WalkedOut, Goto, At, KeyedPCs, LeadPCs, TextPCs,
         cacheVars, indexVars
<1>4. Plain(t, "draining")
  BY DEF IInv, Shape, Types, Plain, LeadsOn, ReservesOn, WalkedOut, Goto, At, LeadPCs, ReservingPCs, cacheVars, indexVars
<1>5. QED
  BY <1>1, <1>2, <1>3, <1>4, PlainKeeps DEF IInv, Shape

LEMMA CollectKeeps ==
    ASSUME IInv, NEW t \in Threads, Collect(t)
    PROVE  IInv'
<1>1. Types'
  BY DEF IInv, Shape, Types, Collect, Replies, Goto, PCs, LeadPCs, Outcomes, cacheVars, indexVars
<1>2. Placed'
  BY DEF IInv, Shape, Types, Placed, Collect, Replies, Goto, At, KeyedPCs, LeadPCs, cacheVars, indexVars
<1>3. InOrder'
  BY DEF IInv, Shape, Types, Placed, InOrder, Of, Collect, Replies, Goto, At, KeyedPCs, LeadPCs, TextPCs,
         cacheVars, indexVars
<1>4. Plain(t, "settling")
  BY DEF IInv, Shape, Types, Plain, LeadsOn, ReservesOn, Collect, Replies, Goto, At, LeadPCs, ReservingPCs, cacheVars, indexVars
<1>5. QED
  BY <1>1, <1>2, <1>3, <1>4, PlainKeeps DEF IInv, Shape

LEMMA ParseKeeps ==
    ASSUME IInv, NEW t \in Threads, Parse(t)
    PROVE  IInv'
<1>1. Types'
  BY DEF IInv, Shape, Types, Parse, Replies, Goto, PCs, LeadPCs, Outcomes, cacheVars, indexVars
<1>2. Placed'
  BY DEF IInv, Shape, Types, Placed, Parse, Replies, Goto, At, KeyedPCs, LeadPCs, cacheVars, indexVars
<1>3. InOrder'
  BY DEF IInv, Shape, Types, Placed, InOrder, Of, Parse, Replies, Goto, At, KeyedPCs, LeadPCs, TextPCs,
         cacheVars, indexVars
<1>4. Plain(t, "settling")
  BY DEF IInv, Shape, Types, Plain, LeadsOn, ReservesOn, Parse, Replies, Goto, At, LeadPCs, ReservingPCs, cacheVars, indexVars
<1>5. QED
  BY <1>1, <1>2, <1>3, <1>4, PlainKeeps DEF IInv, Shape

LEMMA DiscardLeftKeeps ==
    ASSUME IInv, NEW t \in Threads, DiscardLeft(t)
    PROVE  IInv'
<1>1. Types'
  BY DEF IInv, Shape, Types, DiscardLeft, Goto, PCs, LeadPCs, Outcomes, cacheVars, indexVars
<1>2. Placed'
  BY DEF IInv, Shape, Types, Placed, DiscardLeft, Goto, At, KeyedPCs, LeadPCs, cacheVars, indexVars
<1>3. InOrder'
  BY DEF IInv, Shape, Types, Placed, InOrder, Of, DiscardLeft, Goto, At, KeyedPCs, LeadPCs, TextPCs,
         cacheVars, indexVars
<1>4. Plain(t, "draining")
  BY DEF IInv, Shape, Types, Plain, LeadsOn, ReservesOn, DiscardLeft, Goto, At, LeadPCs, ReservingPCs, cacheVars, indexVars
<1>5. QED
  BY <1>1, <1>2, <1>3, <1>4, PlainKeeps DEF IInv, Shape

LEMMA FinishKeeps ==
    ASSUME IInv, NEW t \in Threads, Finish(t)
    PROVE  IInv'
<1>1. Types'
  <2>1. Types /\ {"draining", "done"} \subseteq PCs /\ "none" \in Outcomes /\ 0 \in 0..MaxVersion
    BY BoundsAssumption DEF IInv, Shape, PCs, Outcomes
  <2>2. /\ pc' = [pc EXCEPT ![t] = "done"] /\ key' = [key EXCEPT ![t] = NoKey]
        /\ text' = [text EXCEPT ![t] = 0] /\ outcome' = [outcome EXCEPT ![t] = "none"]
        /\ UNCHANGED <<at, next, then, version, stored, index>>
    BY DEF Finish, Goto, cacheVars, indexVars
  <2>3. QED
    BY <2>1, <2>2 DEF Types
<1>2. Placed'
  BY DEF IInv, Shape, Types, Placed, Finish, Goto, At, KeyedPCs, LeadPCs, cacheVars, indexVars
<1>3. InOrder'
  BY DEF IInv, Shape, Types, Placed, InOrder, Of, Finish, Goto, At, KeyedPCs, LeadPCs, TextPCs,
         cacheVars, indexVars
<1>4. Plain(t, "done")
  BY DEF IInv, Shape, Types, Plain, LeadsOn, ReservesOn, Finish, Goto, At, LeadPCs, ReservingPCs, cacheVars, indexVars
<1>5. QED
  BY <1>1, <1>2, <1>3, <1>4, PlainKeeps DEF IInv, Shape

LEMMA SettleKeeps ==
    ASSUME IInv, NEW t \in Threads, Settle(t)
    PROVE  IInv'
<1>1. Types'
  BY DEF IInv, Shape, Types, Settle, Remembered, Stat, Goto, PCs, LeadPCs, Outcomes, cacheVars, indexVars
<1>2. Placed'
  BY DEF IInv, Shape, Types, Placed, Settle, Remembered, Stat, Goto, At, KeyedPCs, LeadPCs, cacheVars, indexVars
<1>3. InOrder'
  <2>1. pc[t] = "settling" /\ key[t] \in Keys /\ Of(key[t], text[t])
    BY DEF IInv, Shape, Placed, InOrder, Settle, At, KeyedPCs, LeadPCs, TextPCs
  <2>2. Stat(key[t][1]) = key[t] => version[key[t][1]] = key[t][2]
    BY <2>1 DEF Stat
  <2>3. outcome'[t] = "kept" => text[t] = key[t][2]
    <3>1. key[t][2] \in Nat /\ version[key[t][1]] \in Nat /\ text[t] \in Nat
      BY <2>1, BoundsAssumption DEF IInv, Shape, Types, Keys, Versions
    <3>2. outcome'[t] = "kept" => Stat(key[t][1]) = key[t]
      BY <2>1 DEF IInv, Shape, Types, InOrder, Settle
    <3>3. QED
      BY <2>1, <2>2, <3>1, <3>2 DEF Of
  <2>4. \A u \in Threads : u # t => pc'[u] = pc[u] /\ outcome'[u] = outcome[u]
    BY DEF IInv, Shape, Types, Settle, Goto
  <2>5. pc'[t] = "landing" /\ UNCHANGED <<key, text, version, index>>
    BY DEF IInv, Shape, Types, Settle, Goto, indexVars
  <2>6. QED
    BY <2>1, <2>3, <2>4, <2>5 DEF IInv, InOrder, Of, KeyedPCs, LeadPCs, TextPCs, Filed
<1>4. Plain(t, "landing")
  BY DEF IInv, Shape, Types, Plain, LeadsOn, ReservesOn, Settle, Remembered, Stat, Goto, At, LeadPCs, ReservingPCs, cacheVars, indexVars
<1>5. QED
  BY <1>1, <1>2, <1>3, <1>4, PlainKeeps DEF IInv, Shape

-----------------------------------------------------------------------------
(***************************************************************************)
(* A text is read, a key is made.                                          *)
(***************************************************************************)
LEMMA KeyTypes ==
    ASSUME IInv, NEW t \in Threads, pc[t] \in KeyedPCs
    PROVE  /\ key[t] \in Keys /\ key[t][2] \in Nat \ {0} /\ version[key[t][1]] \in 0..MaxVersion
           /\ key[t][2] <= version[key[t][1]] /\ Audit(t) \in Audits
<1>1. key[t] \in Keys /\ key[t][1] \in Files /\ key[t][2] \in Versions
  BY DEF IInv, Shape, Placed, Keys
<1>2. version[key[t][1]] \in Versions
  BY <1>1 DEF IInv, Shape, Types
<1>3. QED
  BY <1>1, <1>2, BoundsAssumption, AuditOfAssumption DEF IInv, InOrder, Versions, Audit

LEMMA ShipKeeps ==
    ASSUME IInv, NEW t \in Threads, Ship(t)
    PROVE  IInv'
<1>1. pc[t] = "shipping"
  BY DEF Ship, At
<1>2. /\ key[t] \in Keys /\ key[t][2] \in Nat \ {0} /\ version[key[t][1]] \in 0..MaxVersion
      /\ key[t][2] <= version[key[t][1]]
  BY <1>1, KeyTypes DEF KeyedPCs
<1>3. PICK p \in {"filing", "releasing", "giving up"} :
        /\ pc' = [pc EXCEPT ![t] = p]
        /\ text' = IF p = "filing" THEN [text EXCEPT ![t] = version[key[t][1]]] ELSE text
  BY DEF Ship, Goto
<1>4. UNCHANGED <<at, next, then, key, outcome, version, flight, stored, index>>
  BY DEF Ship, cacheVars, indexVars
<1>5. Types'
  <2>1. Types /\ {"filing", "releasing", "giving up"} \subseteq PCs
    BY DEF IInv, Shape, PCs
  <2>2. QED
    BY <1>2, <1>3, <1>4, <2>1 DEF Types
<1>6. Placed'
  BY <1>1, <1>2, <1>3, <1>4 DEF IInv, Shape, Types, Placed, KeyedPCs
<1>7. InOrder'
  <2>1. \A u \in Threads : u # t => pc'[u] = pc[u] /\ text'[u] = text[u]
    BY <1>3 DEF IInv, Shape, Types
  <2>2. pc'[t] = p /\ (p = "filing" => text'[t] = version[key[t][1]])
    BY <1>3 DEF IInv, Shape, Types
  <2>3. p = "filing" => Of(key[t], text'[t])
    BY <1>2, <2>2 DEF Of
  <2>4. QED
    BY <1>2, <1>4, <2>1, <2>2, <2>3 DEF IInv, InOrder, Of, KeyedPCs, TextPCs, Filed
<1>8. Plain(t, p)
  BY <1>1, <1>3, <1>4 DEF Plain, LeadsOn, ReservesOn, LeadPCs, ReservingPCs
<1>9. QED
  BY <1>5, <1>6, <1>7, <1>8, PlainKeeps DEF IInv, Shape

LEMMA RequestKeeps ==
    ASSUME IInv, NEW t \in Threads, Request(t)
    PROVE  IInv'
<1>1. pc[t] = "requesting"
  BY DEF Request, At
<1>2. /\ key[t] \in Keys /\ key[t][2] \in Nat \ {0} /\ version[key[t][1]] \in 0..MaxVersion
      /\ key[t][2] <= version[key[t][1]]
  BY <1>1, KeyTypes DEF KeyedPCs, LeadPCs
<1>3. /\ pc' = [pc EXCEPT ![t] = "parsing"] /\ text' = [text EXCEPT ![t] = version[key[t][1]]]
      /\ UNCHANGED <<at, next, then, key, outcome, version, flight, stored, index>>
  BY DEF Request, Goto, cacheVars, indexVars
<1>4. Types'
  <2>1. Types /\ "parsing" \in PCs
    BY DEF IInv, Shape, PCs, LeadPCs
  <2>2. QED
    BY <1>2, <1>3, <2>1 DEF Types
<1>5. Placed'
  BY <1>1, <1>2, <1>3 DEF IInv, Shape, Types, Placed, KeyedPCs, LeadPCs
<1>6. InOrder'
  <2>1. /\ \A u \in Threads : u # t => pc'[u] = pc[u] /\ text'[u] = text[u]
        /\ pc'[t] = "parsing" /\ text'[t] = version[key[t][1]]
    BY <1>3 DEF IInv, Shape, Types
  <2>2. Of(key[t], text'[t])
    BY <1>2, <2>1 DEF Of
  <2>3. QED
    BY <1>2, <1>3, <2>1, <2>2 DEF IInv, InOrder, Of, KeyedPCs, LeadPCs, TextPCs, Filed
<1>7. Plain(t, "parsing")
  BY <1>1, <1>3 DEF Plain, LeadsOn, ReservesOn, LeadPCs, ReservingPCs
<1>8. QED
  BY <1>4, <1>5, <1>6, <1>7, PlainKeeps DEF IInv, Shape

LEMMA AskKeeps ==
    ASSUME IInv, NEW t \in Threads, Ask(t)
    PROVE  IInv'
<1> DEFINE k == Stat(Walk[t][at[t]])
<1>1. pc[t] = "asking" /\ at[t] \in 1..Len(Walk[t])
  <2>1. pc[t] = "asking" /\ at[t] \in Nat
    BY DEF IInv, Shape, Types, Ask, At
  <2>2. at[t] # 0 /\ at[t] <= Len(Walk[t])
    BY <2>1 DEF IInv, Shape, Placed
  <2>3. Len(Walk[t]) \in Nat
    BY WalkLength
  <2>4. QED
    BY <2>1, <2>2, <2>3
<1>2. Walk[t][at[t]] \in Files
  BY <1>1, WalkAssumption
<1>3. k \in Keys /\ k[2] <= version[k[1]]
  <2>1. version[Walk[t][at[t]]] \in Versions
    BY <1>2 DEF IInv, Shape, Types
  <2>2. QED
    BY <1>2, <2>1, BoundsAssumption DEF Stat, Keys, Versions
<1>4. /\ pc' = [pc EXCEPT ![t] = "keyed"] /\ key' = [key EXCEPT ![t] = k]
      /\ UNCHANGED <<at, next, then, text, outcome, version, flight, stored, index>>
  BY DEF Ask, Goto, cacheVars, indexVars
<1> HIDE DEF k
<1>5. Types'
  <2>1. Types /\ "keyed" \in PCs
    BY DEF IInv, Shape, PCs
  <2>2. QED
    BY <1>3, <1>4, <2>1 DEF Types
<1>6. /\ \A u \in Threads : u # t => pc'[u] = pc[u] /\ key'[u] = key[u]
      /\ pc'[t] = "keyed" /\ key'[t] = k
  BY <1>4 DEF IInv, Shape, Types
<1>7. Placed'
  BY <1>1, <1>3, <1>4, <1>6 DEF IInv, Shape, Placed
<1>8. InOrder'
  BY <1>3, <1>4, <1>6 DEF IInv, InOrder, Of, TextPCs, Filed
<1>9. Plain(t, "keyed")
  BY <1>1, <1>4, <1>6 DEF Plain, LeadsOn, ReservesOn, LeadPCs, ReservingPCs
<1>10. QED
  BY <1>5, <1>7, <1>8, <1>9, PlainKeeps DEF IInv, Shape

LEMMA LookUpKeeps ==
    ASSUME IInv, NEW t \in Threads, LookUp(t)
    PROVE  IInv'
<1>1. PICK p \in {"answered", "boarding"} : pc' = [pc EXCEPT ![t] = p]
  BY DEF LookUp, Goto
<1>2. /\ pc[t] = "keyed" /\ outcome' \in {outcome, [outcome EXCEPT ![t] = "declined"]}
      /\ UNCHANGED <<at, next, then, key, text, version, flight, stored, index>>
  BY DEF LookUp, At, cacheVars, indexVars
<1>3. Types'
  <2>1. Types /\ {"answered", "boarding"} \subseteq PCs /\ "declined" \in Outcomes
    BY DEF IInv, Shape, PCs, Outcomes
  <2>2. QED
    BY <1>1, <1>2, <2>1 DEF Types
<1>4. \A u \in Threads : u # t => pc'[u] = pc[u] /\ outcome'[u] = outcome[u]
  BY <1>1, <1>2 DEF IInv, Shape, Types
<1>5. pc'[t] = p
  BY <1>1 DEF IInv, Shape, Types
<1>6. Placed'
  BY <1>2, <1>4, <1>5 DEF IInv, Shape, Placed, KeyedPCs
<1>7. InOrder'
  BY <1>2, <1>4, <1>5 DEF IInv, InOrder, Of, KeyedPCs, TextPCs, Filed
<1>8. Plain(t, p)
  BY <1>1, <1>2 DEF Plain, LeadsOn, ReservesOn, LeadPCs, ReservingPCs
<1>9. QED
  BY <1>3, <1>6, <1>7, <1>8, PlainKeeps DEF IInv, Shape

LEMMA AnsweredKeeps ==
    ASSUME IInv, NEW t \in Threads, Answered(t)
    PROVE  IInv'
<1>1. PICK p \in {"head", "considering"} : pc' = [pc EXCEPT ![t] = p]
  BY DEF Answered, Goto
<1>2. /\ pc[t] = "answered" /\ then' = [then EXCEPT ![t] = "head"]
      /\ key' = [key EXCEPT ![t] = NoKey] /\ text' = [text EXCEPT ![t] = 0]
      /\ outcome' = [outcome EXCEPT ![t] = "none"]
      /\ UNCHANGED <<at, next, version, flight, stored, index>>
  BY DEF Answered, At, indexVars
<1>3. Types'
  <2>1. Types /\ {"head", "considering"} \subseteq PCs /\ "none" \in Outcomes /\ 0 \in 0..MaxVersion
    BY BoundsAssumption DEF IInv, Shape, PCs, Outcomes
  <2>2. QED
    BY <1>1, <1>2, <2>1 DEF Types
<1>4. /\ \A u \in Threads : u # t => /\ pc'[u] = pc[u] /\ key'[u] = key[u]
                                     /\ text'[u] = text[u] /\ outcome'[u] = outcome[u]
      /\ pc'[t] = p
  BY <1>1, <1>2 DEF IInv, Shape, Types
<1>5. Placed'
  BY <1>2, <1>4 DEF IInv, Shape, Placed, KeyedPCs, LeadPCs
<1>6. InOrder'
  BY <1>2, <1>4 DEF IInv, InOrder, Of, KeyedPCs, LeadPCs, TextPCs, Filed
<1>7. Plain(t, p)
  BY <1>1, <1>2, <1>4 DEF Plain, LeadsOn, ReservesOn, LeadPCs, ReservingPCs
<1>8. QED
  BY <1>3, <1>5, <1>6, <1>7, PlainKeeps DEF IInv, Shape

-----------------------------------------------------------------------------
(***************************************************************************)
(* The index.                                                              *)
(***************************************************************************)
LEMMA CellPut ==
    ASSUME Types, NEW t \in Threads, Audit(t) \in Audits, key[t] \in Keys, NEW e \in Entries, Put(t, e)
    PROVE  /\ index' \in [Audits -> [Keys -> Entries]]
           /\ \A a \in Audits : \A k \in Keys :
                index'[a][k] = IF a = Audit(t) /\ k = key[t] THEN e ELSE index[a][k]
BY DEF Types, Put

\* t's reservation, if there was one, is there no more.
LEMMA ReservationSettled ==
    ASSUME Reservations, NEW t \in Threads,
           \A u \in Threads : u # t => pc'[u] = pc[u] /\ key'[u] = key[u],
           \A a \in Audits : \A k \in Keys : Reserved(index[a][k])' =>
              index'[a][k] = index[a][k] /\ ~(a = Audit(t) /\ k = key[t])
    PROVE  Reservations'
<1> SUFFICES ASSUME NEW a \in Audits, NEW k \in Keys, Reserved(index[a][k])'
             PROVE  (/\ index[a][k].by \in Threads /\ Audit(index[a][k].by) = a
                     /\ pc[index[a][k].by] \in ReservingPCs /\ key[index[a][k].by] = k)'
  BY DEF Reservations
<1>1. index'[a][k] = index[a][k] /\ Reserved(index[a][k]) /\ ~(a = Audit(t) /\ k = key[t])
  BY DEF Reserved
<1>2. /\ index[a][k].by \in Threads /\ Audit(index[a][k].by) = a
      /\ pc[index[a][k].by] \in ReservingPCs /\ key[index[a][k].by] = k
  BY <1>1 DEF Reservations
<1>3. index[a][k].by # t
  BY <1>1, <1>2
<1>4. QED
  BY <1>1, <1>2, <1>3 DEF Audit

\* A thread that has considered a position holds no key.
LEMMA ConsideredKeeps ==
    ASSUME IInv, NEW t \in Threads, Considered(t), pc[t] \notin LeadPCs \cup {"head", "draining", "done"},
           UNCHANGED <<at, then, outcome, version, flight, stored>>
    PROVE  /\ index' \in [Audits -> [Keys -> Entries]] => Types'
           /\ Placed' /\ Flown' /\ StoredIsCurrent'
           /\ \A u \in Threads : u # t => pc'[u] = pc[u] /\ key'[u] = key[u] /\ text'[u] = text[u]
           /\ pc'[t] = "considering"
<1>1. /\ next' = [next EXCEPT ![t] = @ + 1] /\ pc' = [pc EXCEPT ![t] = "considering"]
      /\ key' = [key EXCEPT ![t] = NoKey] /\ text' = [text EXCEPT ![t] = 0]
  BY DEF Considered, Goto
<1>2. Types /\ "considering" \in PCs /\ 0 \in 0..MaxVersion
  BY BoundsAssumption DEF IInv, Shape, PCs
<1>3. index' \in [Audits -> [Keys -> Entries]] => Types'
  BY <1>1, <1>2 DEF Types
<1>4. /\ \A u \in Threads : u # t => pc'[u] = pc[u] /\ key'[u] = key[u] /\ text'[u] = text[u]
      /\ pc'[t] = "considering"
  BY <1>1, <1>2 DEF Types
<1>5. Placed'
  BY <1>4 DEF IInv, Shape, Placed, KeyedPCs, LeadPCs
<1>6. LeadsOn(t, "considering")
  BY <1>1, <1>4 DEF LeadsOn, LeadPCs
<1>7. Flown'
  BY <1>6, FlownKept DEF IInv
<1>8. StoredIsCurrent'
  BY DEF IInv, StoredIsCurrent
<1>9. QED
  BY <1>3, <1>4, <1>5, <1>7, <1>8

LEMMA ReserveKeyKeeps ==
    ASSUME IInv, NEW t \in Threads, ReserveKey(t)
    PROVE  IInv'
<1>1. pc[t] = "reserving" /\ key[t] \in Keys /\ Audit(t) \in Audits
  BY KeyTypes DEF ReserveKey, At, KeyedPCs
<1>2. UNCHANGED <<at, then, outcome, version, flight, stored>>
  BY DEF ReserveKey, cacheVars
<1>3. CASE Put(t, [by |-> t, text |-> 0]) /\ Goto(t, "shipping") /\ UNCHANGED <<next, key, text>>
  <2> DEFINE e == [by |-> t, text |-> 0]
  <2>1. Types /\ "shipping" \in PCs /\ e \in Entries
    BY BoundsAssumption DEF IInv, Shape, PCs, Entries
  <2>2. e.by = t /\ ~Filed(e)
    BY DEF Filed
  <2>3. /\ index' \in [Audits -> [Keys -> Entries]]
        /\ \A a \in Audits : \A k \in Keys :
             index'[a][k] = IF a = Audit(t) /\ k = key[t] THEN e ELSE index[a][k]
    BY <1>1, <1>3, <2>1, CellPut
  <2> HIDE DEF e
  <2>4. pc' = [pc EXCEPT ![t] = "shipping"]
    BY <1>3 DEF Goto
  <2>5. \A u \in Threads : pc'[u] = IF u = t THEN "shipping" ELSE pc[u]
    BY <2>1, <2>4 DEF Types
  <2>6. Types'
    BY <1>2, <1>3, <2>1, <2>3, <2>4 DEF Types
  <2>7. Placed'
    BY <1>1, <1>2, <1>3, <2>5 DEF IInv, Shape, Placed, KeyedPCs
  <2>8. InOrder'
    <3>1. \A a \in Audits : \A k \in Keys : Filed(index[a][k])' => Of(k, index[a][k].text)'
      BY <1>2, <2>2, <2>3 DEF IInv, InOrder, Filed, Of
    <3>2. QED
      BY <1>1, <1>2, <1>3, <2>5, <3>1 DEF IInv, InOrder, Of, KeyedPCs, TextPCs
  <2>9. LeadsOn(t, "shipping")
    BY <1>1, <1>2, <1>3, <2>4 DEF LeadsOn, LeadPCs
  <2>10. Flown'
    BY <2>9, FlownKept DEF IInv
  <2>11. Reservations'
    <3> SUFFICES ASSUME NEW a \in Audits, NEW k \in Keys, Reserved(index[a][k])'
                 PROVE  (/\ index[a][k].by \in Threads /\ Audit(index[a][k].by) = a
                         /\ pc[index[a][k].by] \in ReservingPCs /\ key[index[a][k].by] = k)'
      BY DEF Reservations
    <3>1. CASE a = Audit(t) /\ k = key[t]
      BY <1>3, <2>2, <2>3, <2>5, <3>1 DEF Audit, ReservingPCs
    <3>2. CASE ~(a = Audit(t) /\ k = key[t])
      <4>1. index'[a][k] = index[a][k] /\ Reserved(index[a][k])
        BY <2>3, <3>2 DEF Reserved
      <4>2. index[a][k].by \in Threads /\ pc[index[a][k].by] \in ReservingPCs
        BY <4>1 DEF IInv, Reservations
      <4>3. index[a][k].by # t
        BY <1>1, <4>2 DEF ReservingPCs
      <4>4. QED
        BY <1>3, <2>5, <4>1, <4>2, <4>3 DEF IInv, Reservations, Audit
    <3>3. QED
      BY <3>1, <3>2
  <2>12. StoredIsCurrent'
    BY <1>2 DEF IInv, StoredIsCurrent
  <2>13. QED
    BY <2>6, <2>7, <2>8, <2>10, <2>11, <2>12 DEF IInv, Shape
<1>4. CASE Considered(t) /\ UNCHANGED index
  <2>1. /\ Types' /\ Placed' /\ Flown' /\ StoredIsCurrent'
        /\ \A u \in Threads : u # t => pc'[u] = pc[u] /\ key'[u] = key[u] /\ text'[u] = text[u]
        /\ pc'[t] = "considering"
    BY <1>1, <1>2, <1>4, ConsideredKeeps DEF IInv, Shape, Types, LeadPCs
  <2>2. InOrder'
    BY <1>2, <1>4, <2>1 DEF IInv, InOrder, Of, KeyedPCs, LeadPCs, TextPCs, Filed
  <2>3. Reservations'
    <3>1. pc' = [pc EXCEPT ![t] = "considering"]
      BY <1>4 DEF Considered, Goto
    <3>2. ReservesOn(t, "considering") /\ NoneReserved
      BY <1>1, <1>4, <2>1, <3>1 DEF ReservesOn, ReservingPCs, NoneReserved
    <3>3. QED
      BY <3>2, ReservationsKept DEF IInv
  <2>4. QED
    BY <2>1, <2>2, <2>3 DEF IInv, Shape
<1>5. QED
  BY <1>3, <1>4 DEF ReserveKey

LEMMA GiveBackKeeps ==
    ASSUME IInv, NEW t \in Threads, GiveBack(t)
    PROVE  IInv'
<1>1. pc[t] \in {"releasing", "giving up"} /\ key[t] \in Keys /\ Audit(t) \in Audits
  BY KeyTypes DEF GiveBack, At, KeyedPCs
<1>2. UNCHANGED <<at, then, outcome, version, flight, stored>>
  BY DEF GiveBack, cacheVars
\* The index, whichever of the two it is.
<1>3. /\ index' \in [Audits -> [Keys -> Entries]]
      /\ \A a \in Audits : \A k \in Keys :
           \/ index'[a][k] = Nothing
           \/ index'[a][k] = index[a][k] /\ (Reserved(index[a][k]) => ~(a = Audit(t) /\ k = key[t]))
  <2>1. CASE Reserved(Held(t)) /\ Put(t, Nothing)
    <3>1. Types /\ Nothing \in Entries
      BY DEF IInv, Shape, Entries
    <3>2. /\ index' \in [Audits -> [Keys -> Entries]]
          /\ \A a \in Audits : \A k \in Keys :
               index'[a][k] = IF a = Audit(t) /\ k = key[t] THEN Nothing ELSE index[a][k]
      BY <1>1, <2>1, <3>1, CellPut
    <3>3. QED
      BY <3>2
  <2>2. CASE ~Reserved(Held(t)) /\ index' = index
    BY <2>2 DEF Held, IInv, Shape, Types
  <2>3. QED
    BY <2>1, <2>2 DEF GiveBack
<1>4. /\ \A a \in Audits : \A k \in Keys : Reserved(index[a][k])' =>
           index'[a][k] = index[a][k] /\ ~(a = Audit(t) /\ k = key[t])
      /\ \A a \in Audits : \A k \in Keys : Filed(index[a][k])' => index'[a][k] = index[a][k]
  BY <1>3 DEF Reserved, Filed
<1>5. CASE Considered(t)
  <2>1. /\ Types' /\ Placed' /\ Flown' /\ StoredIsCurrent'
        /\ \A u \in Threads : u # t => pc'[u] = pc[u] /\ key'[u] = key[u] /\ text'[u] = text[u]
        /\ pc'[t] = "considering"
    BY <1>1, <1>2, <1>3, <1>5, ConsideredKeeps DEF LeadPCs
  <2>2. InOrder'
    BY <1>2, <1>4, <2>1, ZenonT(60) DEF IInv, InOrder, Of, KeyedPCs, LeadPCs, TextPCs, Filed
  <2>3. Reservations'
    BY <1>4, <2>1, ReservationSettled DEF IInv
  <2>4. QED
    BY <2>1, <2>2, <2>3 DEF IInv, Shape
<1>6. CASE Goto(t, then[t]) /\ key' = [key EXCEPT ![t] = NoKey] /\ UNCHANGED <<next, text>>
  <2>1. PICK p \in {"asking", "head"} : pc' = [pc EXCEPT ![t] = p]
    BY <1>6 DEF Goto, IInv, Shape, Types
  <2>2. Types /\ {"asking", "head"} \subseteq PCs
    BY DEF IInv, Shape, PCs
  <2>3. Types'
    BY <1>2, <1>3, <1>6, <2>1, <2>2 DEF Types
  <2>4. /\ \A u \in Threads : u # t => pc'[u] = pc[u] /\ key'[u] = key[u]
        /\ pc'[t] = p
    BY <1>6, <2>1, <2>2 DEF Types
  <2>5. Placed'
    BY <1>1, <1>2, <2>4 DEF IInv, Shape, Placed, KeyedPCs, LeadPCs
  <2>6. InOrder'
    <3>1. \A a \in Audits : \A k \in Keys : Filed(index[a][k])' => Of(k, index'[a][k].text)
      BY <1>4 DEF Filed, IInv, InOrder
    <3>2. QED
      BY <1>2, <1>6, <2>4, <3>1 DEF IInv, InOrder, Of, KeyedPCs, LeadPCs, TextPCs
  <2>7. LeadsOn(t, p)
    BY <1>1, <1>2, <2>1, <2>4 DEF LeadsOn, LeadPCs
  <2>8. Flown'
    BY <2>7, FlownKept DEF IInv
  <2>9. Reservations'
    BY <1>4, <2>4, ReservationSettled DEF IInv
  <2>10. StoredIsCurrent'
    BY <1>2 DEF IInv, StoredIsCurrent
  <2>11. QED
    BY <2>3, <2>5, <2>6, <2>8, <2>9, <2>10 DEF IInv, Shape
<1>7. QED
  BY <1>5, <1>6 DEF GiveBack

LEMMA FileTicketKeeps ==
    ASSUME IInv, NEW t \in Threads, FileTicket(t)
    PROVE  IInv'
<1> DEFINE e == [by |-> t, text |-> text[t]]
<1>1. /\ pc[t] = "filing" /\ key[t] \in Keys /\ Audit(t) \in Audits
      /\ key[t][2] \in Nat \ {0} /\ version[key[t][1]] \in 0..MaxVersion
  BY KeyTypes DEF FileTicket, At, KeyedPCs
<1>2. Considered(t) /\ UNCHANGED <<at, then, outcome, version, flight, stored>>
  BY DEF FileTicket, cacheVars
<1>3. text[t] \in 0..MaxVersion /\ Of(key[t], text[t])
  BY <1>1 DEF IInv, Shape, Types, InOrder, TextPCs
<1>4. e \in Entries /\ ~Reserved(e) /\ e.text = text[t]
  BY <1>1, <1>3 DEF Entries, Reserved, Of
<1> HIDE DEF e
<1>5. /\ index' \in [Audits -> [Keys -> Entries]]
      /\ \A a \in Audits : \A k \in Keys :
           \/ index'[a][k] = e /\ a = Audit(t) /\ k = key[t]
           \/ index'[a][k] = index[a][k] /\ (Reserved(index[a][k]) => ~(a = Audit(t) /\ k = key[t]))
  <2>1. CASE Reserved(Held(t)) /\ Put(t, e)
    <3>1. Types
      BY DEF IInv, Shape
    <3>2. QED
      BY <1>1, <1>4, <2>1, <3>1, CellPut
  <2>2. CASE ~Reserved(Held(t)) /\ index' = index
    BY <2>2 DEF Held, IInv, Shape, Types
  <2>3. QED
    BY <2>1, <2>2 DEF FileTicket, e
<1>6. \A a \in Audits : \A k \in Keys : Reserved(index[a][k])' =>
        index'[a][k] = index[a][k] /\ ~(a = Audit(t) /\ k = key[t])
  BY <1>4, <1>5 DEF Reserved
<1>7. \A a \in Audits : \A k \in Keys : Filed(index[a][k])' => Of(k, index'[a][k].text)
  BY <1>3, <1>4, <1>5 DEF Filed, IInv, InOrder
<1>8. /\ Types' /\ Placed' /\ Flown' /\ StoredIsCurrent'
      /\ \A u \in Threads : u # t => pc'[u] = pc[u] /\ key'[u] = key[u] /\ text'[u] = text[u]
      /\ pc'[t] = "considering"
  BY <1>1, <1>2, <1>5, ConsideredKeeps DEF LeadPCs
<1>9. InOrder'
  BY <1>2, <1>7, <1>8 DEF IInv, InOrder, Of, KeyedPCs, LeadPCs, TextPCs, Filed
<1>10. Reservations'
  BY <1>6, <1>8, ReservationSettled DEF IInv
<1>11. QED
  BY <1>8, <1>9, <1>10 DEF IInv, Shape

LEMMA ClaimKeeps ==
    ASSUME IInv, NEW t \in Threads, Claim(t)
    PROVE  IInv'
<1>1. pc[t] = "claiming" /\ key[t] \in Keys /\ Audit(t) \in Audits
  BY KeyTypes DEF Claim, At, KeyedPCs, LeadPCs
<1>2. UNCHANGED <<at, next, then, key, outcome, version, flight, stored>>
  BY DEF Claim, cacheVars
<1>3. /\ Held(t) = index[Audit(t)][key[t]] /\ Held(t) \in Entries /\ Nothing.text = 0
      /\ Types /\ {"collecting", "requesting"} \subseteq PCs
  BY <1>1 DEF Held, IInv, Shape, Types, PCs, LeadPCs, Nothing
<1>4. PICK p \in {"collecting", "requesting"} :
        /\ pc' = [pc EXCEPT ![t] = p]
        /\ p = "collecting" => /\ Filed(Held(t)) /\ text' = [text EXCEPT ![t] = Held(t).text]
                               /\ Put(t, Nothing)
        /\ p = "requesting" => text' = text /\ index' = index
  BY DEF Claim, Goto
<1>5. /\ index' \in [Audits -> [Keys -> Entries]]
      /\ \A a \in Audits : \A k \in Keys : index'[a][k] = Nothing \/ index'[a][k] = index[a][k]
  <2>1. CASE p = "collecting"
    <3>1. Nothing \in Entries
      BY DEF Entries
    <3>2. QED
      BY <1>1, <1>3, <1>4, <2>1, <3>1, CellPut
  <2>2. CASE p = "requesting"
    BY <1>3, <1>4, <2>2 DEF Types
  <2>3. QED
    BY <2>1, <2>2
<1>6. /\ Held(t).text \in 0..MaxVersion
      /\ p = "collecting" => Of(key[t], Held(t).text)
  <2>1. Held(t).text \in 0..MaxVersion
    BY <1>3, BoundsAssumption DEF Entries
  <2>2. p = "collecting" => Of(key[t], Held(t).text)
    BY <1>1, <1>3, <1>4 DEF IInv, InOrder
  <2>3. QED
    BY <2>1, <2>2
<1>7. Types'
  BY <1>2, <1>3, <1>4, <1>5, <1>6 DEF Types
<1>8. /\ \A u \in Threads : u # t => pc'[u] = pc[u] /\ text'[u] = text[u]
      /\ pc'[t] = p /\ (p = "collecting" => Of(key[t], text'[t]))
  BY <1>3, <1>4, <1>6 DEF Types
<1>9. Placed'
  BY <1>1, <1>2, <1>8 DEF IInv, Shape, Placed, KeyedPCs, LeadPCs
<1>10. InOrder'
  <2>1. \A a \in Audits : \A k \in Keys : Filed(index[a][k])' => Of(k, index'[a][k].text)
    BY <1>5 DEF Filed, IInv, InOrder
  <2>2. QED
    BY <1>1, <1>2, <1>8, <2>1 DEF IInv, InOrder, Of, KeyedPCs, LeadPCs, TextPCs
<1>11. LeadsOn(t, p) /\ ReservesOn(t, p) /\ NoneReserved
  BY <1>1, <1>2, <1>4, <1>5 DEF LeadsOn, ReservesOn, NoneReserved, Reserved, LeadPCs, ReservingPCs
<1>12. Flown' /\ Reservations'
  BY <1>11, FlownKept, ReservationsKept DEF IInv
<1>13. StoredIsCurrent'
  BY <1>2 DEF IInv, StoredIsCurrent
<1>14. QED
  BY <1>7, <1>9, <1>10, <1>12, <1>13 DEF IInv, Shape

LEMMA DrainKeeps ==
    ASSUME IInv, NEW t \in Threads, Drain(t)
    PROVE  IInv'
<1>1. /\ pc[t] = "draining" /\ UNCHANGED <<pc, at, next, then, key, text, outcome, version, flight, stored>>
      /\ index' = [index EXCEPT ![Audit(t)] = [k \in Keys |-> IF k \in Mine(t) THEN Nothing ELSE @[k]]]
  BY DEF Drain, At, cacheVars
<1>2. Types /\ Nothing \in Entries /\ Audit(t) \in Audits
  BY AuditOfAssumption DEF IInv, Shape, Entries, Audit
<1>3. /\ index' \in [Audits -> [Keys -> Entries]]
      /\ \A a \in Audits : \A k \in Keys : index'[a][k] = Nothing \/ index'[a][k] = index[a][k]
  BY <1>1, <1>2 DEF Types
<1>4. Types' /\ Placed'
  BY <1>1, <1>2, <1>3 DEF IInv, Shape, Types, Placed
<1>5. InOrder'
  BY <1>1, <1>3 DEF IInv, InOrder, Of, Filed
<1>6. pc' = [pc EXCEPT ![t] = "draining"]
  BY <1>1, <1>2 DEF Types
<1>7. LeadsOn(t, "draining") /\ ReservesOn(t, "draining") /\ NoneReserved
  BY <1>1, <1>3, <1>6 DEF LeadsOn, ReservesOn, NoneReserved, Reserved, LeadPCs, ReservingPCs
<1>8. Flown' /\ Reservations'
  BY <1>7, FlownKept, ReservationsKept DEF IInv
<1>9. StoredIsCurrent'
  BY <1>1 DEF IInv, StoredIsCurrent
<1>10. QED
  BY <1>4, <1>5, <1>8, <1>9 DEF IInv, Shape

LEMMA CloseKeeps ==
    ASSUME IInv, NEW a \in Audits, Close(a)
    PROVE  IInv'
<1>1. /\ UNCHANGED <<pc, at, next, then, key, text, outcome, version, flight, stored>>
      /\ index' = [index EXCEPT ![a] = [k \in Keys |-> Nothing]]
  BY DEF Close, threadVars, cacheVars
<1>2. Types /\ Nothing \in Entries
  BY DEF IInv, Shape, Entries
<1>3. /\ index' \in [Audits -> [Keys -> Entries]]
      /\ \A b \in Audits : \A k \in Keys : index'[b][k] = Nothing \/ index'[b][k] = index[b][k]
  BY <1>1, <1>2 DEF Types
<1>4. Types' /\ Placed'
  BY <1>1, <1>2, <1>3 DEF IInv, Shape, Types, Placed
<1>5. InOrder'
  BY <1>1, <1>3 DEF IInv, InOrder, Of, Filed
<1>6. Flown'
  BY <1>1 DEF IInv, Flown, At
<1>7. Reservations'
  BY <1>1, <1>3 DEF IInv, Reservations, Reserved
<1>8. StoredIsCurrent'
  BY <1>1 DEF IInv, StoredIsCurrent
<1>9. QED
  BY <1>4, <1>5, <1>6, <1>7, <1>8 DEF IInv, Shape

-----------------------------------------------------------------------------
(***************************************************************************)
(* Flights.                                                                *)
(***************************************************************************)
LEMMA BoardKeeps ==
    ASSUME IInv, NEW t \in Threads, Board(t)
    PROVE  IInv'
<1>1. pc[t] = "boarding" /\ key[t] \in Keys
  BY KeyTypes DEF Board, At, KeyedPCs
<1>2. UNCHANGED <<at, next, then, key, text, version, stored, index>>
  BY DEF Board, indexVars
<1>3. PICK p \in {"answered", "joining", "claiming"} :
        /\ pc' = [pc EXCEPT ![t] = p]
        /\ outcome' = outcome \/ outcome' = [outcome EXCEPT ![t] = "answer"]
        /\ p # "claiming" => flight' = flight
        /\ p = "joining" => key[t] \in flight
        /\ p = "claiming" => stored[key[t]] = 0 /\ key[t] \notin flight /\ flight' = flight \cup {key[t]}
  BY DEF Board, Lead, Goto
<1>4. Types'
  <2>1. Types /\ {"answered", "joining", "claiming"} \subseteq PCs /\ "answer" \in Outcomes
    BY DEF IInv, Shape, PCs, LeadPCs, Outcomes
  <2>2. QED
    BY <1>2, <1>3, <2>1 DEF Types
<1>5. /\ \A u \in Threads : u # t => pc'[u] = pc[u] /\ outcome'[u] = outcome[u]
      /\ pc'[t] = p
  BY <1>3 DEF IInv, Shape, Types
<1>6. Placed'
  BY <1>1, <1>2, <1>5 DEF IInv, Shape, Placed, KeyedPCs
<1>7. InOrder'
  BY <1>1, <1>2, <1>5 DEF IInv, InOrder, Of, KeyedPCs, LeadPCs, TextPCs, Filed
<1>8. Flown'
  <2>1. CASE p = "claiming"
    \* Nobody leads the key yet, for it is not in flight.
    <3>1. \A u \in Threads : u # t /\ pc[u] \in LeadPCs => key[u] # key[t]
      BY <1>3, <2>1 DEF IInv, Flown
    <3>2. "claiming" \in LeadPCs /\ pc[t] \notin LeadPCs
      BY <1>1 DEF LeadPCs
    <3>3. /\ flight' = flight \cup {key[t]} /\ stored[key[t]] = 0 /\ key' = key /\ stored' = stored
          /\ pc'[t] = "claiming"
      BY <1>2, <1>3, <1>5, <2>1
    <3>4. flight' \subseteq Keys /\ \A u \in Threads : At(u, "joining")' => key'[u] \in flight'
      BY <1>1, <1>5, <3>3 DEF IInv, Flown, At
    <3>5. \A k \in flight' : \E u \in Threads : pc'[u] \in LeadPCs /\ key'[u] = k
      BY <1>5, <3>2, <3>3 DEF IInv, Flown
    <3>6. \A u \in Threads : pc'[u] \in LeadPCs => key'[u] \in flight' /\ stored'[key'[u]] = 0
      BY <1>5, <3>2, <3>3 DEF IInv, Flown
    <3>7. \A u, v \in Threads : pc'[u] \in LeadPCs /\ pc'[v] \in LeadPCs /\ key'[u] = key'[v] => u = v
      BY <1>5, <3>1, <3>3 DEF IInv, Flown
    <3>8. QED
      BY <3>4, <3>5, <3>6, <3>7 DEF Flown
  <2>2. CASE p # "claiming"
    <3>1. p \notin LeadPCs /\ pc[t] \notin LeadPCs
      BY <1>1, <2>2 DEF LeadPCs
    <3>2. \A u \in Threads : pc'[u] \in LeadPCs <=> pc[u] \in LeadPCs
      BY <1>5, <3>1
    <3>3. \A u \in Threads : At(u, "joining")' => key[u] \in flight
      BY <1>3, <1>5, <2>2 DEF IInv, Flown, At
    <3>4. flight' = flight /\ key' = key /\ stored' = stored
      BY <1>2, <1>3, <2>2
    <3>5. QED
      BY <3>2, <3>3, <3>4 DEF IInv, Flown
  <2>3. QED
    BY <2>1, <2>2
<1>9. Reservations'
  <2>1. ReservesOn(t, p) /\ NoneReserved
    BY <1>1, <1>2, <1>3 DEF ReservesOn, NoneReserved, ReservingPCs
  <2>2. QED
    BY <2>1, ReservationsKept DEF IInv
<1>10. StoredIsCurrent'
  BY <1>2 DEF IInv, StoredIsCurrent
<1>11. QED
  BY <1>4, <1>6, <1>7, <1>8, <1>9, <1>10 DEF IInv, Shape

LEMMA LandKeeps ==
    ASSUME IInv, NEW t \in Threads, Land(t)
    PROVE  IInv'
<1>1. pc[t] = "landing" /\ key[t] \in Keys
  BY KeyTypes DEF Land, At, KeyedPCs, LeadPCs
<1>2. UNCHANGED <<at, next, then, key, text, version, index>> /\ flight' = flight \ {key[t]}
  BY DEF Land, indexVars
<1>3. /\ outcome[t] = "kept" => text[t] = key[t][2]
      /\ text[t] \in 0..MaxVersion /\ outcome[t] \in Outcomes
  BY <1>1 DEF IInv, Shape, Types, InOrder
\* Where everybody goes, and what is stored.
<1>4. \A u \in Threads :
        \/ u = t /\ pc'[u] \in {"draining", "answered"}
        \/ u # t /\ pc[u] = "joining" /\ key[u] = key[t] /\ pc'[u] \in {"boarding", "answered"}
        \/ u # t /\ ~(pc[u] = "joining" /\ key[u] = key[t]) /\ pc'[u] = pc[u]
  BY DEF Land, Landed, Joiners, At
<1>5. \A u \in Threads :
        outcome'[u] \in Outcomes /\ (outcome'[u] = outcome[u] \/ pc[u] = "joining")
  BY <1>3 DEF Land, Joiners, At, IInv, Shape, Types
<1>6. /\ stored' \in [Keys -> 0..MaxVersion]
      /\ \A k \in Keys : stored'[k] \in {0, stored[k]} \/ (k = key[t] /\ stored'[k] = key[t][2])
  <2>1. PICK evicted \in SUBSET {k \in Keys : stored[k] # 0} :
          stored' = [k \in Keys |-> IF k = key[t] /\ outcome[t] = "kept" THEN text[t]
                                    ELSE IF k \in evicted THEN 0 ELSE stored[k]]
    BY DEF Land
  <2>2. 0 \in 0..MaxVersion /\ stored \in [Keys -> 0..MaxVersion]
    BY BoundsAssumption DEF IInv, Shape, Types
  <2>3. QED
    BY <1>3, <2>1, <2>2
<1>7. Types'
  <2>1. pc' \in [Threads -> PCs]
    <3>1. pc' = [u \in Threads |-> pc'[u]]
      BY DEF Land, Landed
    <3>2. \A u \in Threads : pc'[u] \in PCs
      BY <1>4 DEF IInv, Shape, Types, PCs
    <3>3. QED
      BY <3>1, <3>2
  <2>2. outcome' \in [Threads -> Outcomes]
    <3>1. outcome' = [u \in Threads |-> outcome'[u]]
      BY DEF Land
    <3>2. QED
      BY <1>5, <3>1
  <2>3. QED
    BY <1>2, <1>6, <2>1, <2>2 DEF IInv, Shape, Types
<1>8. Placed'
  BY <1>1, <1>2, <1>4 DEF IInv, Shape, Placed, KeyedPCs, LeadPCs
<1>9. InOrder'
  <2>1. \A u \in Threads : pc'[u] \in KeyedPCs => pc[u] \in KeyedPCs
    BY <1>1, <1>4 DEF KeyedPCs, LeadPCs
  <2>2. \A u \in Threads : pc'[u] \in TextPCs => pc'[u] = pc[u] /\ outcome'[u] = outcome[u]
    BY <1>4, <1>5 DEF TextPCs
  <2>3. "settling" \in TextPCs /\ "landing" \in TextPCs
    BY DEF TextPCs
  <2>4. QED
    BY <1>2, <2>1, <2>2, <2>3 DEF IInv, InOrder, Of, Filed
<1>10. Flown'
  <2>1. \A u \in Threads : pc'[u] \in LeadPCs <=> u # t /\ pc[u] \in LeadPCs
    BY <1>4 DEF LeadPCs
  <2>2. \A u \in Threads : u # t /\ pc[u] \in LeadPCs => key[u] # key[t]
    BY <1>1 DEF IInv, Flown, LeadPCs
  <2>3. flight' \subseteq Keys
    BY <1>2 DEF IInv, Flown
  <2>4. \A k \in flight' : \E u \in Threads : pc'[u] \in LeadPCs /\ key'[u] = k
    BY <1>2, <2>1 DEF IInv, Flown
  <2>5. \A u \in Threads : pc'[u] \in LeadPCs => key'[u] \in flight' /\ stored'[key'[u]] = 0
    <3> SUFFICES ASSUME NEW u \in Threads, pc'[u] \in LeadPCs
                 PROVE  key'[u] \in flight' /\ stored'[key'[u]] = 0
      OBVIOUS
    <3>1. u # t /\ pc[u] \in LeadPCs /\ key[u] # key[t]
      BY <2>1, <2>2
    <3>2. key[u] \in flight /\ stored[key[u]] = 0 /\ key[u] \in Keys
      BY <3>1 DEF IInv, Flown
    <3>3. QED
      BY <1>2, <1>6, <3>1, <3>2
  <2>6. \A u, v \in Threads : pc'[u] \in LeadPCs /\ pc'[v] \in LeadPCs /\ key'[u] = key'[v] => u = v
    BY <1>2, <2>1 DEF IInv, Flown
  <2>7. \A u \in Threads : At(u, "joining")' => key'[u] \in flight'
    <3>1. \A u \in Threads : At(u, "joining")' => pc[u] = "joining" /\ key[u] # key[t]
      BY <1>4 DEF At
    <3>2. QED
      BY <1>2, <3>1 DEF IInv, Flown, At
  <2>8. QED
    BY <2>3, <2>4, <2>5, <2>6, <2>7 DEF Flown
<1>11. Reservations'
  <2>1. \A u \in Threads : pc[u] \in ReservingPCs => pc'[u] = pc[u]
    BY <1>1, <1>4 DEF ReservingPCs
  <2>2. QED
    BY <1>2, <2>1 DEF IInv, Reservations, Reserved, Audit
<1>12. StoredIsCurrent'
  BY <1>6 DEF IInv, StoredIsCurrent
<1>13. QED
  BY <1>7, <1>8, <1>9, <1>10, <1>11, <1>12 DEF IInv, Shape

-----------------------------------------------------------------------------
(***************************************************************************)
(* The file, and the whole.                                                *)
(***************************************************************************)
LEMMA RewriteKeeps ==
    ASSUME IInv, NEW f \in Files, Rewrite(f)
    PROVE  IInv'
<1>1. /\ version[f] < MaxVersion /\ version' = [version EXCEPT ![f] = @ + 1]
      /\ UNCHANGED <<pc, at, next, then, key, text, outcome, flight, stored, index>>
  BY DEF Rewrite, threadVars, cacheVars, indexVars
<1>2. version \in [Files -> Versions] /\ \A g \in Files : version[g] \in Nat
  BY BoundsAssumption DEF IInv, Shape, Types, Versions
<1>3. version[f] + 1 \in Versions
  BY <1>1, <1>2, BoundsAssumption DEF Versions
<1>4. /\ version' \in [Files -> Versions]
      /\ \A g \in Files : version'[g] \in Nat /\ version[g] <= version'[g]
  <2>1. version' \in [Files -> Versions]
    BY <1>1, <1>2, <1>3
  <2>2. \A g \in Files : version'[g] = version[g] \/ version'[g] = version[g] + 1
    BY <1>1, <1>2
  <2>3. QED
    BY <1>2, <2>1, <2>2
<1>5. Types' /\ Placed'
  BY <1>1, <1>4 DEF IInv, Shape, Types, Placed
<1>6. \A k \in Keys : k[1] \in Files /\ k[2] \in Nat
  BY BoundsAssumption DEF Keys, Versions
<1>7. /\ \A k \in Keys : k[2] <= version[k[1]] => k[2] <= version'[k[1]]
      /\ \A k \in Keys : \A v \in 0..MaxVersion : Of(k, v) => Of(k, v)'
  BY <1>2, <1>4, <1>6, BoundsAssumption DEF Of
<1>8. InOrder'
  <2>1. \A u \in Threads : pc[u] \in KeyedPCs => key[u] \in Keys
    BY DEF IInv, Shape, Placed
  <2>2. \A u \in Threads : pc[u] \in TextPCs => pc[u] \in KeyedPCs
    BY DEF TextPCs, KeyedPCs, LeadPCs
  <2>3. /\ \A u \in Threads : text[u] \in 0..MaxVersion
        /\ \A a \in Audits : \A k \in Keys : index[a][k].text \in 0..MaxVersion
    <3>1. \A e \in Entries : e.text \in 0..MaxVersion
      BY BoundsAssumption DEF Entries, Nothing
    <3>2. QED
      BY <3>1 DEF IInv, Shape, Types
  <2>4. \A u \in Threads : pc'[u] \in KeyedPCs => key'[u][2] <= version'[key'[u][1]]
    BY <1>1, <1>7, <2>1 DEF IInv, InOrder
  <2>5. \A u \in Threads : pc'[u] \in TextPCs => Of(key[u], text[u])'
    <3> SUFFICES ASSUME NEW u \in Threads, pc'[u] \in TextPCs
                 PROVE  text'[u] \in key'[u][2]..version'[key'[u][1]]
      BY DEF Of
    <3>1. key[u] \in Keys /\ text[u] \in 0..MaxVersion /\ Of(key[u], text[u])
      BY <1>1, <2>1, <2>2, <2>3 DEF IInv, InOrder
    <3>2. key[u][1] \in Files /\ key[u][2] \in Nat
      BY <1>6, <3>1
    <3>3. QED
      BY <1>1, <1>2, <1>4, <3>1, <3>2 DEF Of
  <2>6. \A a \in Audits : \A k \in Keys : Filed(index[a][k])' => Of(k, index[a][k].text)'
    <3> SUFFICES ASSUME NEW a \in Audits, NEW k \in Keys, Filed(index[a][k])'
                 PROVE  index'[a][k].text \in k[2]..version'[k[1]]
      BY DEF Of
    <3>1. index[a][k].text \in 0..MaxVersion /\ Of(k, index[a][k].text)
      BY <1>1, <2>3 DEF IInv, InOrder, Filed
    <3>2. QED
      BY <1>1, <1>2, <1>4, <1>6, <3>1 DEF Of
  <2>7. QED
    BY <1>1, <2>4, <2>5, <2>6 DEF IInv, InOrder
<1>9. Flown' /\ Reservations' /\ StoredIsCurrent'
  BY <1>1 DEF IInv, Flown, At, Reservations, Reserved, Audit, StoredIsCurrent
<1>10. QED
  BY <1>5, <1>8, <1>9 DEF IInv, Shape

\* What IInv is about.
Shown == <<pc, at, next, then, key, text, outcome, version, flight, stored, index>>

LEMMA UnchangedKeeps ==
    ASSUME IInv, UNCHANGED Shown
    PROVE  IInv'
<1>1. Shape'
  BY DEF Shown, IInv, Shape, Types, Placed
<1>2. InOrder'
  BY DEF Shown, IInv, InOrder, Of, Filed
<1>3. Flown'
  BY DEF Shown, IInv, Flown, At
<1>4. Reservations' /\ StoredIsCurrent'
  BY DEF Shown, IInv, Reservations, Reserved, Audit, StoredIsCurrent
<1>5. QED
  BY <1>1, <1>2, <1>3, <1>4 DEF IInv

LEMMA NextKeeps ==
    ASSUME IInv, [Next]_vars
    PROVE  IInv'
<1>1. ASSUME NEW t \in Threads, Walks(t) \/ Request(t) PROVE IInv'
  <2>1. CASE Advance(t) \/ Rest(t) \/ Consider(t) \/ ReserveKey(t) \/ Ship(t) \/ GiveBack(t) \/ FileTicket(t)
    BY <2>1, AdvanceKeeps, RestKeeps, ConsiderKeeps, ReserveKeyKeeps, ShipKeeps, GiveBackKeeps, FileTicketKeeps
  <2>2. CASE Ask(t) \/ LookUp(t) \/ Board(t) \/ Claim(t) \/ ClaimTimesOut(t) \/ Collect(t) \/ Parse(t) \/ Request(t)
    BY <2>2, AskKeeps, LookUpKeeps, BoardKeeps, ClaimKeeps, ClaimTimesOutKeeps, CollectKeeps, ParseKeeps, RequestKeeps
  <2>3. CASE Settle(t) \/ Land(t) \/ Answered(t) \/ WalkedOut(t) \/ Drain(t) \/ DiscardLeft(t) \/ Finish(t)
    BY <2>3, SettleKeeps, LandKeeps, AnsweredKeeps, WalkedOutKeeps, DrainKeeps, DiscardLeftKeeps, FinishKeeps
  <2>4. QED
    BY <1>1, <2>1, <2>2, <2>3 DEF Walks
<1>2. ASSUME NEW a \in Audits, Close(a) \/ DiscardClosing(a) PROVE IInv'
  <2>1. CASE DiscardClosing(a)
    BY <2>1, UnchangedKeeps DEF DiscardClosing, Shown, threadVars, cacheVars
  <2>2. QED
    BY <1>2, <2>1, CloseKeeps
<1>3. CASE Finished \/ UNCHANGED vars
  <2>1. UNCHANGED Shown
    BY <1>3 DEF Finished, Shown, vars, threadVars, cacheVars, indexVars
  <2>2. QED
    BY <2>1, UnchangedKeeps
<1>4. QED
  BY <1>1, <1>2, <1>3, RewriteKeeps DEF Next

LEMMA InvariantHolds == Spec => []IInv
<1>1. Init => IInv
  BY InitHolds
<1>2. IInv /\ [Next]_vars => IInv'
  BY NextKeeps
<1>3. QED
  BY <1>1, <1>2, PTL DEF Spec

\* A key in flight has one leader and a key not in flight none, whoever dies,
\* evicts or times out (ModelCache._board and _land, TicketIndex).
THEOREM OneLeaderAlways == Spec => []OneLeader
<1>1. IInv => OneLeader
  <2> SUFFICES ASSUME IInv PROVE OneLeader
    OBVIOUS
  <2>1. \A a \in Audits : \A k \in Keys : Reserved(index[a][k]) =>
          /\ pc[index[a][k].by] \in {"shipping", "filing", "releasing", "giving up"}
          /\ key[index[a][k].by] = k
    BY DEF IInv, Reservations, ReservingPCs
  <2>2. \A t, u \in Threads : {pc[t], pc[u]} \subseteq LeadPCs /\ key[t] = key[u] => t = u
    BY DEF IInv, Flown
  <2>3. QED
    BY <2>1, <2>2 DEF IInv, Flown, OneLeader
<1>2. QED
  BY <1>1, InvariantHolds, PTL

\* Nothing is stored under a key its text does not belong to, whenever the file
\* changes (A9: the second stat of _build, and a ticket's own text).
THEOREM StoredAlwaysCurrent == Spec => []StoredIsCurrent
<1>1. IInv => StoredIsCurrent
  BY DEF IInv
<1>2. QED
  BY <1>1, InvariantHolds, PTL

-----------------------------------------------------------------------------
(***************************************************************************)
(* The slots: whose they are, and that none is lost.                       *)
(***************************************************************************)
Indexed == SumFunctionOnSet(Outstanding, Audits)
Leaving == SumFunctionOnSet(left, Threads)
Handed == Cardinality(InHand)
Asking == Cardinality(Sitting({"parsing"}))

SlotTypes ==
    /\ left \in [Threads -> Nat] /\ closing \in [Audits -> Nat] /\ closed \subseteq Audits
    /\ tickets \in Nat /\ inUse \in Nat

\* An index that is open has nothing to discard.
Slots == SlotTypes /\ NoTicketLeaks /\ \A a \in Audits : a \notin closed => closing[a] = 0

\* The keys under which an index has a ticket.
Tickets(m) == {k \in Keys : Filed(m[k])}

LEMMA KeysFinite == IsFiniteSet(Keys)
<1>1. MaxVersion \in Int /\ 1 \in Int
  BY BoundsAssumption
<1>2. IsFiniteSet(1..MaxVersion)
  BY <1>1, FS_Interval
<1>3. QED
  BY <1>2, FiniteAssumption, FS_Product DEF Keys, Versions

LEMMA TicketsFinite ==
    ASSUME NEW m
    PROVE  IsFiniteSet(Tickets(m)) /\ Cardinality(Tickets(m)) \in Nat
<1>1. Tickets(m) \subseteq Keys
  BY DEF Tickets
<1>2. QED
  BY <1>1, KeysFinite, FS_Subset, FS_CardinalityType

\* One entry of an index changes.
LEMMA TicketsChange ==
    ASSUME NEW m, NEW n, NEW k \in Keys, \A j \in Keys \ {k} : n[j] = m[j]
    PROVE  /\ (Filed(n[k]) <=> Filed(m[k])) => Cardinality(Tickets(n)) = Cardinality(Tickets(m))
           /\ Filed(n[k]) /\ ~Filed(m[k]) => Cardinality(Tickets(n)) = Cardinality(Tickets(m)) + 1
           /\ ~Filed(n[k]) /\ Filed(m[k]) => Cardinality(Tickets(m)) = Cardinality(Tickets(n)) + 1
<1>1. /\ (Filed(n[k]) <=> Filed(m[k])) => Tickets(n) = Tickets(m)
      /\ Filed(n[k]) /\ ~Filed(m[k]) => k \notin Tickets(m) /\ Tickets(n) = Tickets(m) \cup {k}
      /\ ~Filed(n[k]) /\ Filed(m[k]) => k \notin Tickets(n) /\ Tickets(m) = Tickets(n) \cup {k}
  BY DEF Tickets
<1>2. IsFiniteSet(Tickets(m)) /\ IsFiniteSet(Tickets(n))
  BY TicketsFinite
<1>3. QED
  BY <1>1, <1>2, FS_AddElement

\* One thread moves.
LEMMA SittingMoves ==
    ASSUME NEW t \in Threads, \A u \in Threads \ {t} : pc'[u] = pc[u], NEW P
    PROVE  /\ (pc[t] \in P <=> pc'[t] \in P) => Sitting(P)' = Sitting(P)
           /\ pc[t] \notin P /\ pc'[t] \in P => Cardinality(Sitting(P)') = Cardinality(Sitting(P)) + 1
           /\ pc[t] \in P /\ pc'[t] \notin P => Cardinality(Sitting(P)) = Cardinality(Sitting(P)') + 1
<1>1. /\ (pc[t] \in P <=> pc'[t] \in P) => Sitting(P)' = Sitting(P)
      /\ pc[t] \notin P /\ pc'[t] \in P => t \notin Sitting(P) /\ Sitting(P)' = Sitting(P) \cup {t}
      /\ pc[t] \in P /\ pc'[t] \notin P => t \notin Sitting(P)' /\ Sitting(P) = Sitting(P)' \cup {t}
  BY DEF Sitting
<1>2. IsFiniteSet(Sitting(P)) /\ IsFiniteSet(Sitting(P)')
  <2>1. Sitting(P) \subseteq Threads /\ Sitting(P)' \subseteq Threads
    BY DEF Sitting
  <2>2. QED
    BY <2>1, FiniteAssumption, FS_Subset
<1>3. QED
  BY <1>1, <1>2, FS_AddElement

\* The counts are counts.
LEMMA CountTypes ==
    ASSUME SlotTypes
    PROVE  Indexed \in Nat /\ Leaving \in Nat /\ Handed \in Nat /\ Asking \in Nat
<1>1. \A P : Cardinality(Sitting(P)) \in Nat
  <2>1. \A P : Sitting(P) \subseteq Threads
    BY DEF Sitting
  <2>2. QED
    BY <2>1, FiniteAssumption, FS_Subset, FS_CardinalityType
<1>2. Handed \in Nat /\ Asking \in Nat
  BY <1>1 DEF Handed, Asking, InHand
<1>3. Leaving \in Nat
  BY SumType, FiniteAssumption DEF Leaving, SlotTypes
<1>4. \A a \in Audits : Outstanding[a] \in Nat
  <2>1. \A a \in Audits : Cardinality(InIndex(a)) \in Nat
    BY TicketsFinite DEF Tickets, InIndex
  <2>2. QED
    BY <2>1 DEF Outstanding, SlotTypes
<1>5. QED
  BY <1>2, <1>3, <1>4, SumType, FiniteAssumption DEF Indexed

\* A step at one index moves the sum by what it does there.
LEMMA IndexedMoves ==
    ASSUME SlotTypes, NEW a \in Audits, closing' \in [Audits -> Nat],
           \A b \in Audits \ {a} : index'[b] = index[b] /\ closing'[b] = closing[b]
    PROVE  Indexed' + (Cardinality(Tickets(index[a])) + closing[a])
             = Indexed + (Cardinality(Tickets(index'[a])) + closing'[a])
<1> DEFINE v == [b \in Audits |-> Cardinality(Tickets(index'[b])) + closing'[b]]
           w == [b \in Audits |-> Cardinality(Tickets(index[b])) + closing[b]]
<1>1. Outstanding = w /\ Outstanding' = v
  BY DEF Outstanding, InIndex, Tickets
<1>2. \A b \in Audits : w[b] \in Nat /\ v[b] \in Nat
  BY TicketsFinite DEF SlotTypes
<1>3. \A b \in Audits \ {a} : v[b] = w[b]
  OBVIOUS
<1>4. SumFunctionOnSet(v, Audits) + w[a] = SumFunctionOnSet(w, Audits) + v[a]
  <2> HIDE DEF v, w
  <2>1. QED
    BY <1>2, <1>3, FiniteAssumption, SumChange
<1>5. QED
  BY <1>1, <1>4 DEF Indexed

\* A step of one thread that keeps every slot where it is.
LEMMA SlotsKept ==
    ASSUME IInv, Slots, UNCHANGED <<left, closing, closed, tickets, inUse>>,
           InHand' = InHand, Sitting({"parsing"})' = Sitting({"parsing"}),
           \A a \in Audits : \A k \in Keys : Filed(index[a][k])' <=> Filed(index[a][k]),
           \A a \in closed : \A k \in Keys : index'[a][k] = Nothing
    PROVE  Slots'
<1>1. Outstanding' = Outstanding
  <2>1. \A a \in Audits : InIndex(a)' = InIndex(a)
    BY DEF InIndex
  <2>2. QED
    BY <2>1 DEF Outstanding
<1>2. QED
  BY <1>1 DEF Slots, SlotTypes, NoTicketLeaks

HoldingPCs == {"filing", "collecting", "parsing"}

LEMMA QuietMove ==
    ASSUME IInv, Slots, UNCHANGED <<left, closing, closed, tickets, inUse, index>>,
           NEW t \in Threads, NEW q, pc' = [pc EXCEPT ![t] = q],
           pc[t] \notin HoldingPCs, q \notin HoldingPCs
    PROVE  Slots'
<1>a. \A u \in Threads : pc'[u] = IF u = t THEN q ELSE pc[u]
  BY DEF IInv, Shape, Types
<1>1. InHand' = InHand /\ Sitting({"parsing"})' = Sitting({"parsing"})
  BY <1>a DEF InHand, Sitting, HoldingPCs
<1>2. \A a \in Audits : \A k \in Keys : Filed(index[a][k])' <=> Filed(index[a][k])
  BY DEF Filed
<1>3. \A a \in closed : \A k \in Keys : index'[a][k] = Nothing
  BY DEF Slots, NoTicketLeaks
<1>4. QED
  BY <1>1, <1>2, <1>3, SlotsKept

-----------------------------------------------------------------------------
(***************************************************************************)
(* The steps that move a slot.                                             *)
(***************************************************************************)
\* What a thread's move means for the slots in hand and in use.
LEMMA HandsMove ==
    ASSUME NEW t \in Threads, \A u \in Threads \ {t} : pc'[u] = pc[u]
    PROVE  /\ (pc[t] \in {"filing", "collecting"} <=> pc'[t] \in {"filing", "collecting"}) => Handed' = Handed
           /\ pc[t] \notin {"filing", "collecting"} /\ pc'[t] \in {"filing", "collecting"} => Handed' = Handed + 1
           /\ pc[t] \in {"filing", "collecting"} /\ pc'[t] \notin {"filing", "collecting"} => Handed = Handed' + 1
           /\ (pc[t] = "parsing" <=> pc'[t] = "parsing") => Asking' = Asking
           /\ pc[t] # "parsing" /\ pc'[t] = "parsing" => Asking' = Asking + 1
           /\ pc[t] = "parsing" /\ pc'[t] # "parsing" => Asking = Asking' + 1
<1> DEFINE H == {"filing", "collecting"}
           A == {"parsing"}
<1>1. Handed = Cardinality(Sitting(H)) /\ Handed' = Cardinality(Sitting(H)')
      /\ Asking = Cardinality(Sitting(A)) /\ Asking' = Cardinality(Sitting(A)')
  BY DEF Handed, InHand, Asking
<1>2. \A p : p \in A <=> p = "parsing"
  OBVIOUS
<1> HIDE DEF H, A
<1>3. /\ (pc[t] \in H <=> pc'[t] \in H) => Sitting(H)' = Sitting(H)
      /\ pc[t] \notin H /\ pc'[t] \in H => Cardinality(Sitting(H)') = Cardinality(Sitting(H)) + 1
      /\ pc[t] \in H /\ pc'[t] \notin H => Cardinality(Sitting(H)) = Cardinality(Sitting(H)') + 1
  BY SittingMoves
<1>4. /\ (pc[t] \in A <=> pc'[t] \in A) => Sitting(A)' = Sitting(A)
      /\ pc[t] \notin A /\ pc'[t] \in A => Cardinality(Sitting(A)') = Cardinality(Sitting(A)) + 1
      /\ pc[t] \in A /\ pc'[t] \notin A => Cardinality(Sitting(A)) = Cardinality(Sitting(A)') + 1
  BY SittingMoves
<1>5. /\ (pc[t] \in H <=> pc'[t] \in H) => Handed' = Handed
      /\ pc[t] \notin H /\ pc'[t] \in H => Handed' = Handed + 1
      /\ pc[t] \in H /\ pc'[t] \notin H => Handed = Handed' + 1
  BY <1>1, <1>3, Zenon
<1>6. /\ (pc[t] \in A <=> pc'[t] \in A) => Asking' = Asking
      /\ pc[t] \notin A /\ pc'[t] \in A => Asking' = Asking + 1
      /\ pc[t] \in A /\ pc'[t] \notin A => Asking = Asking' + 1
  BY <1>1, <1>4, Zenon
<1>7. QED
  BY <1>2, <1>5, <1>6 DEF H

LEMMA Spared == SlotTypes /\ SpareSlot => tickets + 1 + inUse <= Size
BY PoolAssumption DEF SlotTypes, SpareSlot, FreeSlots

LEMMA ShipSlots ==
    ASSUME IInv, Slots, NEW t \in Threads, Ship(t)
    PROVE  Slots'
<1>1. pc[t] = "shipping" /\ UNCHANGED <<left, closing, closed, inUse, index>>
  BY DEF Ship, At, indexVars
<1>2. CASE SpareSlot /\ tickets' = tickets + 1 /\ Goto(t, "filing")
  <2>1. Handed' = Handed + 1 /\ Asking' = Asking
    <3>1. pc'[t] = "filing" /\ \A u \in Threads \ {t} : pc'[u] = pc[u]
      BY <1>2 DEF Goto, IInv, Shape, Types
    <3>2. QED
      BY <1>1, <3>1, HandsMove
  <2>2. Indexed' = Indexed /\ Leaving' = Leaving
    BY <1>1 DEF Indexed, Leaving, Outstanding, InIndex, Filed
  <2>3. tickets = Indexed + Leaving + Handed /\ inUse = Asking
    BY DEF Slots, NoTicketLeaks, Indexed, Leaving, Handed, Asking
  <2>4. tickets' = Indexed' + Leaving' + Handed' /\ inUse' = Asking' /\ tickets' + inUse' <= Size
    BY <1>1, <1>2, <2>1, <2>2, <2>3, CountTypes, Spared DEF Slots, SlotTypes
  <2>5. tickets' \in Nat
    BY <1>2 DEF Slots, SlotTypes
  <2>6. QED
    BY <1>1, <2>4, <2>5 DEF Slots, SlotTypes, NoTicketLeaks, Indexed, Leaving, Handed, Asking
<1>3. CASE tickets' = tickets /\ (Goto(t, "releasing") \/ Goto(t, "giving up"))
  BY <1>1, <1>3, QuietMove DEF Goto, HoldingPCs
<1>4. QED
  BY <1>2, <1>3 DEF Ship

\* The key of a thread at work on its audit's index.
LEMMA AtIndex ==
    ASSUME IInv, NEW t \in Threads, pc[t] \in KeyedPCs
    PROVE  key[t] \in Keys /\ Audit(t) \in Audits /\ index[Audit(t)] \in [Keys -> Entries]
BY KeyTypes DEF IInv, Shape, Types

LEMMA PutChanges ==
    ASSUME IInv, NEW t \in Threads, pc[t] \in KeyedPCs, NEW e, Put(t, e)
    PROVE  /\ index'[Audit(t)][key[t]] = e
           /\ \A a \in Audits \ {Audit(t)} : index'[a] = index[a]
           /\ \A k \in Keys \ {key[t]} : index'[Audit(t)][k] = index[Audit(t)][k]
<1>1. index \in [Audits -> [Keys -> Entries]]
  BY DEF IInv, Shape, Types
<1>2. key[t] \in Keys /\ Audit(t) \in Audits /\ index[Audit(t)] \in [Keys -> Entries]
  BY AtIndex
<1>3. index' = [index EXCEPT ![Audit(t)] = [index[Audit(t)] EXCEPT ![key[t]] = e]]
  BY DEF Put
<1>4. index'[Audit(t)] = [index[Audit(t)] EXCEPT ![key[t]] = e]
  BY <1>1, <1>2, <1>3
<1>5. QED
  BY <1>1, <1>2, <1>3, <1>4

\* Counts after a step are counts.
LEMMA CountTypesAfter ==
    ASSUME left' \in [Threads -> Nat], closing' \in [Audits -> Nat]
    PROVE  Indexed' \in Nat /\ Leaving' \in Nat /\ Handed' \in Nat /\ Asking' \in Nat
<1>1. \A P : Cardinality(Sitting(P)') \in Nat
  <2>1. \A P : Sitting(P)' \subseteq Threads
    BY DEF Sitting
  <2>2. QED
    BY <2>1, FiniteAssumption, FS_Subset, FS_CardinalityType
<1>2. Handed' \in Nat /\ Asking' \in Nat
  BY <1>1 DEF Handed, Asking, InHand
<1>3. Leaving' \in Nat
  BY SumType, FiniteAssumption DEF Leaving
<1>4. Outstanding' = [a \in Audits |-> Cardinality(Tickets(index'[a])) + closing'[a]]
  BY DEF Outstanding, InIndex, Tickets
<1>5. \A a \in Audits : Outstanding'[a] \in Nat
  BY <1>4, TicketsFinite
<1>6. QED
  BY <1>2, <1>3, <1>5, SumType, FiniteAssumption DEF Indexed

\* A step that puts a ticket in a thread's hands, or takes one from them.
LEMMA OneAtIndex ==
    ASSUME IInv, SlotTypes, UNCHANGED <<left, closing>>, NEW t \in Threads, pc[t] \in KeyedPCs, NEW e, Put(t, e)
    PROVE  /\ Filed(e) /\ ~Filed(Held(t)) => Indexed' = Indexed + 1
           /\ ~Filed(e) /\ Filed(Held(t)) => Indexed = Indexed' + 1
           /\ (Filed(e) <=> Filed(Held(t))) => Indexed' = Indexed
<1> DEFINE a == Audit(t)
           m == index[a]
           n == index'[a]
           k == key[t]
<1>1. k \in Keys /\ a \in Audits
  BY AtIndex
<1>2. /\ n[k] = e /\ m[k] = Held(t) /\ \A b \in Audits \ {a} : index'[b] = index[b]
      /\ \A j \in Keys \ {k} : n[j] = m[j]
  BY PutChanges DEF Held
<1>3. closing' \in [Audits -> Nat] /\ closing'[a] = closing[a] /\ closing[a] \in Nat
      /\ \A b \in Audits \ {a} : closing'[b] = closing[b]
  BY <1>1 DEF SlotTypes
<1>4. Indexed' + (Cardinality(Tickets(m)) + closing[a]) = Indexed + (Cardinality(Tickets(n)) + closing'[a])
  BY <1>1, <1>2, <1>3, IndexedMoves
<1>5. Indexed \in Nat /\ Indexed' \in Nat
  BY <1>3, CountTypes, CountTypesAfter DEF SlotTypes
<1>6. Cardinality(Tickets(m)) \in Nat /\ Cardinality(Tickets(n)) \in Nat
  BY TicketsFinite
<1> HIDE DEF m, n, k, a
<1>7. /\ (Filed(n[k]) <=> Filed(m[k])) => Cardinality(Tickets(n)) = Cardinality(Tickets(m))
      /\ Filed(n[k]) /\ ~Filed(m[k]) => Cardinality(Tickets(n)) = Cardinality(Tickets(m)) + 1
      /\ ~Filed(n[k]) /\ Filed(m[k]) => Cardinality(Tickets(m)) = Cardinality(Tickets(n)) + 1
  BY <1>1, <1>2, TicketsChange
<1> DEFINE C == Cardinality(Tickets(m))
           D == Cardinality(Tickets(n))
           X == Indexed'
           Y == Indexed
           w == closing[a]
<1>8. X + (C + w) = Y + (D + w) /\ X \in Nat /\ Y \in Nat /\ C \in Nat /\ D \in Nat /\ w \in Nat
  BY <1>3, <1>4, <1>5, <1>6, Zenon
<1>9. /\ (Filed(e) <=> Filed(Held(t))) => D = C
      /\ Filed(e) /\ ~Filed(Held(t)) => D = C + 1
      /\ ~Filed(e) /\ Filed(Held(t)) => C = D + 1
  BY <1>2, <1>7, Zenon
<1>10. /\ (Filed(e) <=> Filed(Held(t))) => X = Y
       /\ Filed(e) /\ ~Filed(Held(t)) => X = Y + 1
       /\ ~Filed(e) /\ Filed(Held(t)) => Y = X + 1
  <2> HIDE DEF C, D, X, Y, w
  <2>1. QED
    BY <1>8, <1>9
<1>11. QED
  BY <1>10

\* The books after a step.
LEMMA SlotsAfter ==
    ASSUME SlotTypes', tickets' = Indexed' + Leaving' + Handed', inUse' = Asking', tickets' + inUse' <= Size,
           \A a \in closed' : \A k \in Keys : index'[a][k] = Nothing,
           \A a \in Audits : a \notin closed' => closing'[a] = 0
    PROVE  Slots'
BY DEF Slots, NoTicketLeaks, Indexed, Leaving, Handed, Asking

LEMMA SlotsBefore ==
    ASSUME Slots
    PROVE  /\ tickets = Indexed + Leaving + Handed /\ inUse = Asking /\ tickets + inUse <= Size
           /\ tickets \in Nat /\ inUse \in Nat /\ Size \in Nat
           /\ Indexed \in Nat /\ Leaving \in Nat /\ Handed \in Nat /\ Asking \in Nat
BY CountTypes, PoolAssumption DEF Slots, SlotTypes, NoTicketLeaks, Indexed, Leaving, Handed, Asking

LEMMA FileTicketSlots ==
    ASSUME IInv, Slots, NEW t \in Threads, FileTicket(t)
    PROVE  Slots'
<1>1. /\ pc[t] = "filing" /\ UNCHANGED <<left, closing, closed, inUse>>
      /\ pc' = [pc EXCEPT ![t] = "considering"]
  BY DEF FileTicket, Considered, Goto, At
<1>2. pc[t] \in KeyedPCs
  BY <1>1 DEF KeyedPCs
<1>3. Handed = Handed' + 1 /\ Asking' = Asking
  <2>1. pc'[t] = "considering" /\ \A u \in Threads \ {t} : pc'[u] = pc[u]
    BY <1>1 DEF IInv, Shape, Types
  <2>2. QED
    BY <1>1, <2>1, HandsMove
<1>5. /\ Leaving' = Leaving /\ closing' \in [Audits -> Nat] /\ left' \in [Threads -> Nat]
      /\ inUse' \in Nat /\ closed' \subseteq Audits
  BY <1>1 DEF Leaving, Slots, SlotTypes
<1>6. key[t] \in Keys /\ Audit(t) \in Audits
  BY <1>2, AtIndex
<1>7. Indexed' \in Nat /\ Leaving' \in Nat /\ Handed' \in Nat /\ Asking' \in Nat
  BY <1>5, CountTypesAfter
<1>8. CASE Reserved(Held(t)) /\ Put(t, [by |-> t, text |-> text[t]]) /\ tickets' = tickets
  <2>1. text[t] # 0
    <3>1. Of(key[t], text[t]) /\ key[t][2] \in Nat \ {0} /\ text[t] \in 0..MaxVersion
      BY <1>1, <1>2, KeyTypes DEF IInv, Shape, Types, InOrder, TextPCs
    <3>2. QED
      BY <3>1, BoundsAssumption DEF Of
  <2>2. Filed([by |-> t, text |-> text[t]]) /\ ~Filed(Held(t))
    BY <1>8, <2>1 DEF Filed, Nothing, Reserved
  <2>3. Indexed' = Indexed + 1
    BY <1>1, <1>2, <1>8, <2>2, OneAtIndex DEF Slots
  <2>4. SlotTypes' /\ tickets' = Indexed' + Leaving' + Handed' /\ inUse' = Asking' /\ tickets' + inUse' <= Size
    BY <1>1, <1>3, <1>5, <1>7, <1>8, <2>3, SlotsBefore DEF SlotTypes
  <2>5. Audit(t) \notin closed
    BY <1>6, <1>8 DEF Slots, NoTicketLeaks, Reserved, Held
  <2>6. \A a \in closed' : \A k \in Keys : index'[a][k] = Nothing
    <3>1. \A a \in Audits \ {Audit(t)} : index'[a] = index[a]
      BY <1>2, <1>8, PutChanges
    <3>2. closed \subseteq Audits
      BY DEF Slots, SlotTypes
    <3>3. QED
      BY <1>1, <2>5, <3>1, <3>2 DEF Slots, NoTicketLeaks
  <2>7. QED
    BY <1>1, <2>4, <2>6, SlotsAfter DEF Slots
<1>9. CASE tickets' = tickets - 1 /\ UNCHANGED index
  <2>1. Indexed' = Indexed
    BY <1>1, <1>9 DEF Indexed, Outstanding, InIndex, Filed
  <2>2. tickets' = Indexed' + Leaving' + Handed' /\ inUse' = Asking' /\ tickets' + inUse' <= Size /\ tickets' \in Nat
    <3>1. inUse' = inUse /\ tickets' = tickets - 1
      BY <1>1, <1>9
    <3>2. tickets = Indexed + Leaving + Handed /\ Handed = Handed' + 1
      BY <1>3, SlotsBefore
    <3>3. tickets' = Indexed' + Leaving' + Handed'
      BY <1>5, <1>7, <2>1, <3>1, <3>2
    <3>4. inUse' = Asking' /\ tickets' + inUse' <= Size
      BY <1>3, <3>1, SlotsBefore
    <3>5. \A i, j, k \in Nat : i + j + k \in Nat
      OBVIOUS
    <3>6. QED
      BY <1>7, <3>3, <3>4, <3>5, Zenon
  <2>3. SlotTypes'
    BY <1>5, <2>2 DEF SlotTypes
  <2>4. QED
    BY <1>1, <1>9, <2>2, <2>3, SlotsAfter DEF Slots, NoTicketLeaks
<1>10. QED
  BY <1>8, <1>9 DEF FileTicket

\* A thread in a keyed step takes its ticket out of the index.
LEMMA ClaimSlots ==
    ASSUME IInv, Slots, NEW t \in Threads, Claim(t)
    PROVE  Slots'
<1>1. pc[t] = "claiming" /\ UNCHANGED <<left, closing, closed, tickets, inUse>>
  BY DEF Claim, At, poolVars
<1>2. pc[t] \in KeyedPCs
  BY <1>1 DEF KeyedPCs, LeadPCs
<1>3. CASE Filed(Held(t)) /\ Put(t, Nothing) /\ Goto(t, "collecting")
  <2>1. Handed' = Handed + 1 /\ Asking' = Asking
    <3>1. pc'[t] = "collecting" /\ \A u \in Threads \ {t} : pc'[u] = pc[u]
      BY <1>3 DEF Goto, IInv, Shape, Types
    <3>2. QED
      BY <1>1, <3>1, HandsMove
  <2>2. Indexed = Indexed' + 1
    <3>1. ~Filed(Nothing)
      BY DEF Filed
    <3>2. QED
      BY <1>1, <1>2, <1>3, <3>1, OneAtIndex DEF Slots
  <2>3. /\ closing' \in [Audits -> Nat] /\ left' \in [Threads -> Nat] /\ tickets' \in Nat
        /\ inUse' \in Nat /\ closed' \subseteq Audits /\ Leaving' = Leaving
    BY <1>1 DEF Slots, SlotTypes, Leaving
  <2>4. Indexed' \in Nat
    BY <2>3, CountTypesAfter
  <2>5. tickets' = Indexed' + Leaving' + Handed' /\ inUse' = Asking' /\ tickets' + inUse' <= Size
    BY <1>1, <2>1, <2>2, <2>3, <2>4, SlotsBefore
  <2>6. \A a \in closed' : \A k \in Keys : index'[a][k] = Nothing
    <3>1. /\ \A a \in Audits \ {Audit(t)} : index'[a] = index[a]
          /\ index'[Audit(t)][key[t]] = Nothing
          /\ \A k \in Keys \ {key[t]} : index'[Audit(t)][k] = index[Audit(t)][k]
      BY <1>2, <1>3, PutChanges
    <3>2. closed \subseteq Audits
      BY DEF Slots, SlotTypes
    <3>3. QED
      BY <1>1, <3>1, <3>2 DEF Slots, NoTicketLeaks
  <2>7. QED
    BY <1>1, <2>3, <2>5, <2>6, SlotsAfter DEF Slots, SlotTypes
<1>4. CASE Goto(t, "requesting") /\ UNCHANGED index
  BY <1>1, <1>4, QuietMove DEF Goto, HoldingPCs
<1>5. QED
  BY <1>3, <1>4 DEF Claim

LEMMA CollectSlots ==
    ASSUME IInv, Slots, NEW t \in Threads, Collect(t)
    PROVE  Slots'
<1>1. /\ pc[t] = "collecting" /\ UNCHANGED <<left, closing, closed, inUse, index>>
      /\ tickets' = tickets - 1 /\ pc' = [pc EXCEPT ![t] = "settling"]
  BY DEF Collect, Replies, Goto, At, indexVars
<1>2. Handed = Handed' + 1 /\ Asking' = Asking
  <2>1. pc'[t] = "settling" /\ \A u \in Threads \ {t} : pc'[u] = pc[u]
    BY <1>1 DEF IInv, Shape, Types
  <2>2. QED
    BY <1>1, <2>1, HandsMove
<1>3. Indexed' = Indexed /\ Leaving' = Leaving
  BY <1>1 DEF Indexed, Leaving, Outstanding, InIndex, Filed
<1>4. /\ closing' \in [Audits -> Nat] /\ left' \in [Threads -> Nat]
      /\ inUse' \in Nat /\ closed' \subseteq Audits
  BY <1>1 DEF Slots, SlotTypes
<1>5. Handed' \in Nat /\ Indexed' \in Nat /\ Leaving' \in Nat
  BY <1>4, CountTypesAfter
<1>6. tickets' = Indexed' + Leaving' + Handed'
  BY <1>1, <1>2, <1>3, <1>5, SlotsBefore
<1>7. inUse' = Asking' /\ tickets' + inUse' <= Size
  BY <1>1, <1>2, SlotsBefore
<1>8. tickets' \in Nat
  <2>1. \A i, j, k \in Nat : i + j + k \in Nat
    OBVIOUS
  <2>2. QED
    BY <1>5, <1>6, <2>1, Zenon
<1>9. QED
  BY <1>1, <1>4, <1>6, <1>7, <1>8, SlotsAfter DEF Slots, SlotTypes, NoTicketLeaks

LEMMA RequestSlots ==
    ASSUME IInv, Slots, NEW t \in Threads, Request(t)
    PROVE  Slots'
<1>1. /\ pc[t] = "requesting" /\ UNCHANGED <<left, closing, closed, tickets, index>>
      /\ inUse' = inUse + 1 /\ FreeSlots > 0 /\ pc' = [pc EXCEPT ![t] = "parsing"]
  BY DEF Request, Goto, At, indexVars
<1>2. Handed' = Handed /\ Asking' = Asking + 1
  <2>1. pc'[t] = "parsing" /\ \A u \in Threads \ {t} : pc'[u] = pc[u]
    BY <1>1 DEF IInv, Shape, Types
  <2>2. QED
    BY <1>1, <2>1, HandsMove
<1>3. Indexed' = Indexed /\ Leaving' = Leaving
  BY <1>1 DEF Indexed, Leaving, Outstanding, InIndex, Filed
<1>4. tickets' = Indexed' + Leaving' + Handed' /\ inUse' = Asking' /\ tickets' + inUse' <= Size
  BY <1>1, <1>2, <1>3, SlotsBefore DEF FreeSlots
<1>5. SlotTypes'
  BY <1>1 DEF Slots, SlotTypes
<1>6. QED
  BY <1>1, <1>4, <1>5, SlotsAfter DEF Slots, NoTicketLeaks

LEMMA ParseSlots ==
    ASSUME IInv, Slots, NEW t \in Threads, Parse(t)
    PROVE  Slots'
<1>1. /\ pc[t] = "parsing" /\ UNCHANGED <<left, closing, closed, tickets, index>>
      /\ inUse' = inUse - 1 /\ pc' = [pc EXCEPT ![t] = "settling"]
  BY DEF Parse, Replies, Goto, At, indexVars
<1>2. Handed' = Handed /\ Asking = Asking' + 1
  <2>1. pc'[t] = "settling" /\ \A u \in Threads \ {t} : pc'[u] = pc[u]
    BY <1>1 DEF IInv, Shape, Types
  <2>2. QED
    BY <1>1, <2>1, HandsMove
<1>3. Indexed' = Indexed /\ Leaving' = Leaving
  BY <1>1 DEF Indexed, Leaving, Outstanding, InIndex, Filed
<1>4. Asking' \in Nat
  BY <1>1, CountTypesAfter DEF Slots, SlotTypes
<1>5. tickets' = Indexed' + Leaving' + Handed' /\ inUse' = Asking' /\ tickets' + inUse' <= Size
  <2>1. inUse' = Asking' /\ inUse' = inUse - 1 /\ tickets' = tickets
    <3>1. \A i, j \in Nat : i = j + 1 => i - 1 = j
      OBVIOUS
    <3>2. inUse = Asking /\ Asking \in Nat
      BY SlotsBefore
    <3>3. inUse - 1 = Asking'
      BY <1>2, <1>4, <3>1, <3>2, Zenon
    <3>4. QED
      BY <1>1, <3>3
  <2>2. tickets' + inUse' <= Size
    BY <2>1, SlotsBefore
  <2>3. QED
    BY <1>2, <1>3, <2>1, <2>2, SlotsBefore
<1>6. SlotTypes'
  BY <1>1, <1>4, <1>5 DEF Slots, SlotTypes
<1>7. QED
  BY <1>1, <1>5, <1>6, SlotsAfter DEF Slots, NoTicketLeaks

\* Reservations come and go without a ticket.
LEMMA ReserveKeySlots ==
    ASSUME IInv, Slots, NEW t \in Threads, ReserveKey(t)
    PROVE  Slots'
<1>1. pc[t] = "reserving" /\ UNCHANGED <<left, closing, closed, tickets, inUse>>
  BY DEF ReserveKey, At, poolVars
<1>2. pc[t] \in KeyedPCs
  BY <1>1 DEF KeyedPCs
<1>3. CASE /\ Audit(t) \notin closed /\ Held(t) = Nothing
           /\ Put(t, [by |-> t, text |-> 0]) /\ Goto(t, "shipping")
  <2>1. ~Filed([by |-> t, text |-> 0]) /\ ~Filed(Held(t))
    BY <1>3 DEF Filed
  <2>2. /\ index'[Audit(t)][key[t]] = [by |-> t, text |-> 0]
        /\ \A a \in Audits \ {Audit(t)} : index'[a] = index[a]
        /\ \A k \in Keys \ {key[t]} : index'[Audit(t)][k] = index[Audit(t)][k]
    BY <1>2, <1>3, PutChanges, Zenon
  <2>3. \A a \in Audits : \A k \in Keys : Filed(index[a][k])' <=> Filed(index[a][k])
    BY <2>1, <2>2 DEF Filed, Held
  <2>4. \A a \in closed : \A k \in Keys : index'[a][k] = Nothing
    BY <1>3, <2>2 DEF Slots, SlotTypes, NoTicketLeaks
  <2>5. InHand' = InHand /\ Sitting({"parsing"})' = Sitting({"parsing"})
    <3>1. \A u \in Threads : pc'[u] = IF u = t THEN "shipping" ELSE pc[u]
      BY <1>3 DEF Goto, IInv, Shape, Types
    <3>2. QED
      BY <1>1, <3>1 DEF InHand, Sitting
  <2>6. QED
    BY <1>1, <2>3, <2>4, <2>5, SlotsKept
<1>4. CASE Considered(t) /\ UNCHANGED index
  BY <1>1, <1>4, QuietMove DEF Considered, Goto, HoldingPCs
<1>5. QED
  BY <1>3, <1>4 DEF ReserveKey

LEMMA GiveBackSlots ==
    ASSUME IInv, Slots, NEW t \in Threads, GiveBack(t)
    PROVE  Slots'
<1>1. /\ pc[t] \in {"releasing", "giving up"} /\ UNCHANGED <<left, closing, closed, tickets, inUse>>
      /\ Reserved(Held(t)) => Put(t, Nothing)
      /\ ~Reserved(Held(t)) => UNCHANGED index
  BY DEF GiveBack, At, poolVars
<1>2. pc[t] \in KeyedPCs
  BY <1>1 DEF KeyedPCs
<1>3. PICK q \in {"considering", "asking", "head"} : pc' = [pc EXCEPT ![t] = q]
  BY DEF GiveBack, Considered, Goto, IInv, Shape, Types
<1>4. CASE Reserved(Held(t))
  <2>1. ~Filed(Nothing) /\ ~Filed(Held(t))
    BY <1>4 DEF Filed, Reserved
  <2>2. /\ index'[Audit(t)][key[t]] = Nothing
        /\ \A a \in Audits \ {Audit(t)} : index'[a] = index[a]
        /\ \A k \in Keys \ {key[t]} : index'[Audit(t)][k] = index[Audit(t)][k]
    BY <1>1, <1>2, <1>4, PutChanges
  <2>3. \A a \in Audits : \A k \in Keys : Filed(index[a][k])' <=> Filed(index[a][k])
    BY <2>1, <2>2 DEF Filed, Held
  <2>4. \A a \in closed : \A k \in Keys : index'[a][k] = Nothing
    BY <2>2 DEF Slots, SlotTypes, NoTicketLeaks
  <2>5. InHand' = InHand /\ Sitting({"parsing"})' = Sitting({"parsing"})
    <3>1. \A u \in Threads : pc'[u] = IF u = t THEN q ELSE pc[u]
      BY <1>3 DEF IInv, Shape, Types
    <3>2. QED
      BY <1>1, <1>3, <3>1 DEF InHand, Sitting
  <2>6. QED
    BY <1>1, <2>3, <2>4, <2>5, SlotsKept
<1>5. CASE ~Reserved(Held(t))
  BY <1>1, <1>3, <1>5, QuietMove DEF HoldingPCs
<1>6. QED
  BY <1>4, <1>5

LEMMA LandSlots ==
    ASSUME IInv, Slots, NEW t \in Threads, Land(t)
    PROVE  Slots'
<1>1. pc[t] = "landing" /\ UNCHANGED <<left, closing, closed, tickets, inUse, index>>
  BY DEF Land, At, poolVars, indexVars
<1>2. \A u \in Threads : \/ pc'[u] = pc[u]
                         \/ /\ pc[u] \in {"landing", "joining"}
                            /\ pc'[u] \in {"draining", "answered", "boarding"}
  BY <1>1 DEF Land, Landed, Joiners, At
<1>3. InHand' = InHand /\ Sitting({"parsing"})' = Sitting({"parsing"})
  BY <1>2 DEF InHand, Sitting
<1>4. QED
  BY <1>1, <1>3, SlotsKept DEF Filed, Slots, NoTicketLeaks

-----------------------------------------------------------------------------
(***************************************************************************)
(* The end of a walk, and of an audit.                                     *)
(***************************************************************************)
\* What is taken out of an index was in it.
LEMMA DrainSlots ==
    ASSUME IInv, Slots, NEW t \in Threads, Drain(t)
    PROVE  Slots'
<1> DEFINE a == Audit(t)
           m == index[a]
           n == index'[a]
           D == {k \in Mine(t) : Filed(m[k])}
<1>1. /\ UNCHANGED <<pc, closing, closed, tickets, inUse>>
      /\ left' = [left EXCEPT ![t] = @ + Cardinality(D)]
      /\ index' = [index EXCEPT ![a] = [k \in Keys |-> IF k \in Mine(t) THEN Nothing ELSE @[k]]]
  BY DEF Drain, poolVars
<1>2. a \in Audits /\ index \in [Audits -> [Keys -> Entries]]
  BY AuditOfAssumption DEF IInv, Shape, Types, Audit
<1>3. /\ \A b \in Audits \ {a} : index'[b] = index[b]
      /\ \A k \in Keys : n[k] = IF k \in Mine(t) THEN Nothing ELSE m[k]
  BY <1>1, <1>2
<1>4. Tickets(n) = Tickets(m) \ D /\ D \subseteq Tickets(m)
  BY <1>3 DEF Tickets, Filed, Mine
<1>5. /\ IsFiniteSet(D) /\ Cardinality(D) \in Nat
      /\ Cardinality(Tickets(n)) = Cardinality(Tickets(m)) - Cardinality(D)
  <2>1. IsFiniteSet(Tickets(m)) /\ IsFiniteSet(D)
    BY <1>4, TicketsFinite, FS_Subset
  <2>2. Tickets(m) \cap D = D
    BY <1>4
  <2>3. Cardinality(Tickets(m) \ D) = Cardinality(Tickets(m)) - Cardinality(Tickets(m) \cap D)
    BY <2>1, FS_Difference
  <2>4. QED
    BY <1>4, <2>1, <2>2, <2>3, FS_CardinalityType
<1>6. /\ closing' \in [Audits -> Nat] /\ left' \in [Threads -> Nat] /\ tickets' \in Nat
      /\ inUse' \in Nat /\ closed' \subseteq Audits /\ left \in [Threads -> Nat]
  BY <1>1, <1>5 DEF Slots, SlotTypes
<1>7. Indexed' + (Cardinality(Tickets(m)) + closing[a]) = Indexed + (Cardinality(Tickets(n)) + closing'[a])
  BY <1>1, <1>2, <1>3, <1>6, IndexedMoves DEF Slots
<1>8. Leaving' + left[t] = Leaving + (left[t] + Cardinality(D))
  <2>1. /\ \A u \in Threads : left[u] \in Nat /\ left'[u] \in Nat
        /\ \A u \in Threads \ {t} : left'[u] = left[u]
        /\ left'[t] = left[t] + Cardinality(D)
    BY <1>1, <1>6
  <2> HIDE DEF D
  <2>2. SumFunctionOnSet(left', Threads) + left[t] = SumFunctionOnSet(left, Threads) + left'[t]
    BY <2>1, FiniteAssumption, SumChange
  <2>3. QED
    BY <2>1, <2>2 DEF Leaving
<1>9. Handed' = Handed /\ Asking' = Asking
  BY <1>1 DEF Handed, InHand, Asking, Sitting
<1>10. Indexed' \in Nat /\ Leaving' \in Nat
  BY <1>6, CountTypesAfter
<1>11. tickets' = Indexed' + Leaving' + Handed' /\ inUse' = Asking' /\ tickets' + inUse' <= Size
  <2>1. closing'[a] = closing[a] /\ closing[a] \in Nat /\ left[t] \in Nat /\ Cardinality(Tickets(m)) \in Nat
    BY <1>1, <1>2, <1>6, TicketsFinite
  <2>2. Indexed' = Indexed - Cardinality(D)
    <3> HIDE DEF D, m, n, a
    <3>1. QED
      BY <1>5, <1>7, <1>10, <2>1, SlotsBefore
  <2>3. Leaving' = Leaving + Cardinality(D)
    <3> HIDE DEF D
    <3>1. QED
      BY <1>5, <1>8, <1>10, <2>1, SlotsBefore
  <2>4. Indexed' + Leaving' = Indexed + Leaving
    <3> HIDE DEF D
    <3>1. QED
      BY <1>5, <2>2, <2>3, SlotsBefore
  <2>5. QED
    BY <1>1, <1>9, <2>4, SlotsBefore
<1>12. \A b \in closed' : \A k \in Keys : index'[b][k] = Nothing
  <2>1. closed' = closed /\ \A b \in closed : b \in Audits /\ \A k \in Keys : index[b][k] = Nothing
    BY <1>1 DEF Slots, SlotTypes, NoTicketLeaks
  <2>2. QED
    BY <1>3, <2>1
<1>13. QED
  BY <1>1, <1>6, <1>11, <1>12, SlotsAfter DEF Slots, SlotTypes

LEMMA DiscardLeftSlots ==
    ASSUME IInv, Slots, NEW t \in Threads, DiscardLeft(t)
    PROVE  Slots'
<1>1. /\ UNCHANGED <<pc, closing, closed, inUse, index>> /\ tickets' = tickets - 1
      /\ left' = [left EXCEPT ![t] = @ - 1] /\ left[t] > 0 /\ left \in [Threads -> Nat]
  BY DEF DiscardLeft, indexVars, Slots, SlotTypes
<1>2. /\ \A u \in Threads : left[u] \in Nat /\ left'[u] \in Nat
      /\ \A u \in Threads \ {t} : left'[u] = left[u]
      /\ left'[t] = left[t] - 1
  BY <1>1
<1>3. Leaving' + left[t] = Leaving + left'[t]
  BY <1>2, FiniteAssumption, SumChange DEF Leaving
<1>4. /\ closing' \in [Audits -> Nat] /\ left' \in [Threads -> Nat]
      /\ inUse' \in Nat /\ closed' \subseteq Audits
  BY <1>1 DEF Slots, SlotTypes
<1>5. Indexed' \in Nat /\ Leaving' \in Nat /\ Handed' \in Nat
  BY <1>4, CountTypesAfter
<1>6. Leaving = Leaving' + 1
  BY <1>2, <1>3, <1>5, SlotsBefore
<1>7. Indexed' = Indexed /\ Handed' = Handed /\ Asking' = Asking
  BY <1>1 DEF Indexed, Outstanding, InIndex, Filed, Handed, InHand, Asking, Sitting
<1>8. tickets' = Indexed' + Leaving' + Handed'
  BY <1>1, <1>5, <1>6, <1>7, SlotsBefore
<1>9. inUse' = Asking' /\ tickets' + inUse' <= Size
  BY <1>1, <1>7, SlotsBefore
<1>10. tickets' \in Nat
  <2>1. \A i, j, k \in Nat : i + j + k \in Nat
    OBVIOUS
  <2>2. QED
    BY <1>5, <1>8, <2>1, Zenon
<1>11. QED
  BY <1>1, <1>4, <1>8, <1>9, <1>10, SlotsAfter DEF Slots, SlotTypes, NoTicketLeaks

\* A closed index hands its tickets to whoever closed it.
LEMMA CloseSlots ==
    ASSUME IInv, Slots, NEW a \in Audits, Close(a)
    PROVE  Slots'
<1>1. /\ a \notin closed /\ closed' = closed \cup {a}
      /\ closing' = [closing EXCEPT ![a] = Cardinality(Tickets(index[a]))]
      /\ index' = [index EXCEPT ![a] = [k \in Keys |-> Nothing]]
      /\ UNCHANGED <<pc, left, tickets, inUse>>
  BY DEF Close, Tickets, threadVars, poolVars
<1>2. /\ closing \in [Audits -> Nat] /\ closing[a] = 0 /\ Cardinality(Tickets(index[a])) \in Nat
      /\ index \in [Audits -> [Keys -> Entries]]
  BY <1>1, TicketsFinite DEF IInv, Shape, Types, Slots, SlotTypes
<1>3. /\ closing' \in [Audits -> Nat] /\ closing'[a] = Cardinality(Tickets(index[a]))
      /\ index'[a] = [k \in Keys |-> Nothing]
      /\ \A b \in Audits \ {a} : index'[b] = index[b] /\ closing'[b] = closing[b]
  BY <1>1, <1>2
<1>4. Cardinality(Tickets(index'[a])) = 0
  <2>1. Tickets(index'[a]) = {}
    BY <1>3 DEF Tickets, Filed
  <2>2. QED
    BY <2>1, FS_EmptySet
<1>5. Indexed' + (Cardinality(Tickets(index[a])) + closing[a])
        = Indexed + (Cardinality(Tickets(index'[a])) + closing'[a])
  BY <1>3, IndexedMoves DEF Slots
<1>6. /\ left' \in [Threads -> Nat] /\ inUse' \in Nat /\ tickets' \in Nat /\ closed' \subseteq Audits
  BY <1>1 DEF Slots, SlotTypes
<1>7. Indexed' = Indexed
  <2>1. Indexed' \in Nat /\ Indexed \in Nat
    BY <1>3, <1>6, CountTypesAfter, SlotsBefore
  <2>2. \A i, j, c \in Nat : i + (c + 0) = j + (0 + c) => i = j
    OBVIOUS
  <2>3. QED
    <3>1. Indexed' + (Cardinality(Tickets(index[a])) + 0) = Indexed + (0 + Cardinality(Tickets(index[a])))
      BY <1>2, <1>3, <1>4, <1>5, Zenon
    <3>2. Cardinality(Tickets(index[a])) \in Nat
      BY <1>2
    <3>3. QED
      BY <2>1, <2>2, <3>1, <3>2
<1>8. Leaving' = Leaving /\ Handed' = Handed /\ Asking' = Asking
  BY <1>1 DEF Leaving, Handed, InHand, Asking, Sitting
<1>9. tickets' = Indexed' + Leaving' + Handed' /\ inUse' = Asking' /\ tickets' + inUse' <= Size
  BY <1>1, <1>7, <1>8, SlotsBefore
<1>10. \A b \in closed' : \A k \in Keys : index'[b][k] = Nothing
  BY <1>1, <1>3 DEF Slots, SlotTypes, NoTicketLeaks
<1>11. \A b \in Audits : b \notin closed' => closing'[b] = 0
  BY <1>1, <1>3 DEF Slots
<1>12. QED
  BY <1>3, <1>6, <1>9, <1>10, <1>11, SlotsAfter DEF SlotTypes

LEMMA DiscardClosingSlots ==
    ASSUME IInv, Slots, NEW a \in Audits, DiscardClosing(a)
    PROVE  Slots'
<1>1. /\ UNCHANGED <<pc, left, closed, inUse, index>> /\ tickets' = tickets - 1
      /\ closing' = [closing EXCEPT ![a] = @ - 1] /\ closing[a] > 0 /\ closing \in [Audits -> Nat]
  BY DEF DiscardClosing, threadVars, Slots, SlotTypes
<1>2. /\ closing' \in [Audits -> Nat] /\ closing'[a] = closing[a] - 1 /\ closing[a] \in Nat
      /\ \A b \in Audits \ {a} : closing'[b] = closing[b]
  BY <1>1
<1>3. Indexed' + (Cardinality(Tickets(index[a])) + closing[a])
        = Indexed + (Cardinality(Tickets(index[a])) + closing'[a])
  <2>1. Indexed' + (Cardinality(Tickets(index[a])) + closing[a])
          = Indexed + (Cardinality(Tickets(index'[a])) + closing'[a])
    BY <1>1, <1>2, IndexedMoves DEF Slots
  <2>2. QED
    BY <1>1, <2>1
<1>4. left' \in [Threads -> Nat] /\ inUse' \in Nat /\ closed' \subseteq Audits
  BY <1>1 DEF Slots, SlotTypes
<1>5. Indexed' \in Nat /\ Leaving' \in Nat /\ Handed' \in Nat
  BY <1>2, <1>4, CountTypesAfter
<1>6. Indexed = Indexed' + 1
  <2>1. \A i, j, c, d \in Nat : i + (c + d) = j + (c + (d - 1)) => j = i + 1
    OBVIOUS
  <2>2. Cardinality(Tickets(index[a])) \in Nat /\ Indexed \in Nat
    BY TicketsFinite, SlotsBefore
  <2>3. QED
    <3>1. Indexed' + (Cardinality(Tickets(index[a])) + closing[a])
            = Indexed + (Cardinality(Tickets(index[a])) + (closing[a] - 1))
      BY <1>2, <1>3, Zenon
    <3>2. closing[a] \in Nat
      BY <1>2
    <3> DEFINE c == Cardinality(Tickets(index[a]))
               d == closing[a]
    <3>3. /\ Indexed' + (c + d) = Indexed + (c + (d - 1)) /\ c \in Nat /\ d \in Nat
          /\ Indexed \in Nat /\ Indexed' \in Nat
      BY <1>5, <2>2, <3>1, <3>2
    <3> HIDE DEF c, d
    <3>4. QED
      BY <2>1, <3>3, Zenon
<1>7. Leaving' = Leaving /\ Handed' = Handed /\ Asking' = Asking
  BY <1>1 DEF Leaving, Handed, InHand, Asking, Sitting
<1>8. tickets' = Indexed' + Leaving' + Handed'
  BY <1>1, <1>5, <1>6, <1>7, SlotsBefore
<1>9. inUse' = Asking' /\ tickets' + inUse' <= Size
  BY <1>1, <1>7, SlotsBefore
<1>10. tickets' \in Nat
  <2>1. \A i, j, k \in Nat : i + j + k \in Nat
    OBVIOUS
  <2>2. QED
    BY <1>5, <1>8, <2>1, Zenon
<1>11. \A b \in Audits : b \notin closed' => closing'[b] = 0
  BY <1>1, <1>2 DEF Slots
<1>12. QED
  BY <1>1, <1>2, <1>4, <1>8, <1>9, <1>10, <1>11, SlotsAfter DEF Slots, SlotTypes, NoTicketLeaks

-----------------------------------------------------------------------------
LEMMA QuietSlots ==
    ASSUME IInv, Slots, NEW t \in Threads,
           \/ Advance(t) \/ Rest(t) \/ Consider(t) \/ Ask(t) \/ LookUp(t) \/ Board(t) \/ ClaimTimesOut(t)
           \/ Settle(t) \/ Answered(t) \/ WalkedOut(t) \/ Finish(t)
    PROVE  Slots'
<1>1. UNCHANGED <<left, closing, closed, tickets, inUse, index>>
  BY DEF Advance, Rest, Consider, Ask, LookUp, Board, ClaimTimesOut, Settle, Answered, WalkedOut, Finish,
         indexVars, poolVars
<1>2. PICK q : pc' = [pc EXCEPT ![t] = q] /\ q \notin HoldingPCs /\ pc[t] \notin HoldingPCs
  <2>1. then[t] \notin HoldingPCs
    BY DEF IInv, Shape, Types, HoldingPCs
  <2>2. QED
    BY <2>1 DEF Advance, Rest, Consider, Considered, Ask, LookUp, Board, Lead, ClaimTimesOut, Settle, Answered,
                WalkedOut, Finish, At, Goto, HoldingPCs
<1>3. QED
  BY <1>1, <1>2, QuietMove

LEMMA SlotsStep ==
    ASSUME IInv, Slots, [Next]_vars
    PROVE  Slots'
<1>1. ASSUME NEW t \in Threads, Walks(t) \/ Request(t) PROVE Slots'
  <2>1. CASE ReserveKey(t) \/ Ship(t) \/ GiveBack(t) \/ FileTicket(t) \/ Claim(t) \/ Collect(t)
    BY <2>1, ReserveKeySlots, ShipSlots, GiveBackSlots, FileTicketSlots, ClaimSlots, CollectSlots
  <2>2. CASE Parse(t) \/ Request(t) \/ Land(t) \/ Drain(t) \/ DiscardLeft(t)
    BY <2>2, ParseSlots, RequestSlots, LandSlots, DrainSlots, DiscardLeftSlots
  <2>3. CASE \/ Advance(t) \/ Rest(t) \/ Consider(t) \/ Ask(t) \/ LookUp(t) \/ Board(t) \/ ClaimTimesOut(t)
             \/ Settle(t) \/ Answered(t) \/ WalkedOut(t) \/ Finish(t)
    BY <2>3, QuietSlots
  <2>4. QED
    BY <1>1, <2>1, <2>2, <2>3 DEF Walks
<1>2. CASE (\E f \in Files : Rewrite(f)) \/ Finished \/ UNCHANGED vars
  <2>1. UNCHANGED <<pc, left, closing, closed, tickets, inUse, index>>
    BY <1>2 DEF Rewrite, Finished, vars, threadVars, indexVars, poolVars
  <2>2. QED
    BY <2>1, SlotsKept DEF InHand, Sitting, Filed, Slots, NoTicketLeaks
<1>3. QED
  BY <1>1, <1>2, CloseSlots, DiscardClosingSlots DEF Next

LEMMA SlotsFirst == Init => Slots
<1> SUFFICES ASSUME Init PROVE Slots
  OBVIOUS
<1>1. SlotTypes
  BY DEF Init, SlotTypes
<1>2. \A a \in Audits : Outstanding[a] = 0
  <2>1. \A a \in Audits : InIndex(a) = {}
    BY DEF Init, InIndex, Filed
  <2>2. QED
    <3>1. \A a \in Audits : Cardinality(InIndex(a)) = 0
      BY <2>1, FS_EmptySet
    <3>2. QED
      BY <3>1 DEF Init, Outstanding
<1>3. SumFunctionOnSet(Outstanding, Audits) = 0 /\ SumFunctionOnSet(left, Threads) = 0
  BY <1>2, FiniteAssumption, SumZero DEF Init
<1>4. Cardinality(InHand) = 0 /\ Cardinality(Sitting({"parsing"})) = 0
  <2>1. InHand = {} /\ Sitting({"parsing"}) = {}
    BY DEF Init, InHand, Sitting
  <2>2. QED
    BY <2>1, FS_EmptySet
<1>5. QED
  BY <1>1, <1>3, <1>4, PoolAssumption DEF Init, Slots, NoTicketLeaks

\* No slot is lost or lent twice, whatever threads die of, files change or
\* audits close meanwhile (TicketIndex, context.leave).
THEOREM NoSlotIsLost == Spec => []NoTicketLeaks
<1>1. Init => IInv /\ Slots
  BY InitHolds, SlotsFirst
<1>2. (IInv /\ Slots) /\ [Next]_vars => (IInv /\ Slots)'
  BY NextKeeps, SlotsStep
<1>3. Slots => NoTicketLeaks
  BY DEF Slots
<1>4. QED
  BY <1>1, <1>2, <1>3, PTL DEF Spec

\* A count that goes down and stays a number was above zero.
LEMMA PoolGivesBack ==
    ASSUME Slots, Slots', tickets' = tickets - 1 /\ inUse' = inUse
    PROVE  Pool!EndTicket
BY DEF Slots, SlotTypes, Pool!EndTicket

LEMMA PoolLends ==
    ASSUME Slots, NEW t \in Threads, Ship(t) \/ Request(t)
    PROVE  Pool!Next \/ UNCHANGED Pool!vars
<1>1. CASE Request(t)
  BY <1>1 DEF Request, FreeSlots, Pool!Next, Pool!Serve, Pool!Free
<1>2. CASE Ship(t)
  <2>1. CASE tickets' = tickets
    BY <1>2, <2>1 DEF Ship, Pool!vars
  <2>2. CASE SpareSlot /\ tickets' = tickets + 1
    BY <1>2, <2>2 DEF Ship, SpareSlot, FreeSlots, Pool!Next, Pool!SendAhead, Pool!Free
  <2>3. QED
    BY <1>2, <2>1, <2>2 DEF Ship
<1>3. QED
  BY <1>1, <1>2

\* The threads of every audit, its runner and the cache ask the pool for slots
\* and give them back as its promise allows, so what WorkerPool guarantees is
\* all the prefetch needs of it (issue_ahead, claim, drain, close).
THEOREM PoolRefinement == Spec => ImplementsPool
<1>1. Init => (IInv /\ Slots) /\ Pool!Init
  BY InitHolds, SlotsFirst DEF Init, Pool!Init
<1>2. (IInv /\ Slots) /\ [Next]_vars => (IInv /\ Slots)'
  BY NextKeeps, SlotsStep
<1>3. Slots /\ Slots' /\ [Next]_vars => [Pool!Next]_Pool!vars
  <2> SUFFICES ASSUME Slots, Slots', [Next]_vars PROVE Pool!Next \/ UNCHANGED Pool!vars
    OBVIOUS
  <2>1. ASSUME NEW t \in Threads, Walks(t) \/ Request(t) PROVE Pool!Next \/ UNCHANGED Pool!vars
    <3>1. CASE Ship(t) \/ Request(t)
      BY <3>1, PoolLends
    <3>2. CASE Parse(t)
      <4>1. inUse \in Nat /\ inUse' \in Nat /\ inUse' = inUse - 1 /\ tickets' = tickets
        BY <3>2 DEF Parse, Slots, SlotTypes
      <4>2. QED
        BY <4>1 DEF Pool!Next, Pool!PutBack
    <3>3. CASE FileTicket(t) \/ Collect(t) \/ DiscardLeft(t)
      <4>1. inUse' = inUse /\ (tickets' = tickets \/ tickets' = tickets - 1)
        BY <3>3 DEF FileTicket, Collect, DiscardLeft
      <4>2. QED
        BY <4>1, PoolGivesBack DEF Pool!Next, Pool!vars
    <3>4. CASE \/ Advance(t) \/ Rest(t) \/ Consider(t) \/ ReserveKey(t) \/ GiveBack(t) \/ Ask(t)
               \/ LookUp(t) \/ Board(t) \/ Claim(t) \/ ClaimTimesOut(t) \/ Settle(t) \/ Land(t)
               \/ Answered(t) \/ WalkedOut(t) \/ Drain(t) \/ Finish(t)
      BY <3>4 DEF Advance, Rest, Consider, ReserveKey, GiveBack, Ask, LookUp, Board, Claim, ClaimTimesOut,
                  Settle, Land, Answered, WalkedOut, Drain, Finish, poolVars, Pool!vars
    <3>5. QED
      BY <2>1, <3>1, <3>2, <3>3, <3>4 DEF Walks
  <2>2. ASSUME NEW a \in Audits, Close(a) \/ DiscardClosing(a) PROVE Pool!Next \/ UNCHANGED Pool!vars
    <3>1. CASE Close(a)
      BY <3>1 DEF Close, poolVars, Pool!vars
    <3>2. CASE DiscardClosing(a)
      BY <3>2, PoolGivesBack DEF DiscardClosing, Pool!Next
    <3>3. QED
      BY <2>2, <3>1, <3>2
  <2>3. CASE (\E f \in Files : Rewrite(f)) \/ Finished \/ UNCHANGED vars
    BY <2>3 DEF Rewrite, Finished, vars, poolVars, Pool!vars
  <2>4. QED
    BY <2>1, <2>2, <2>3 DEF Next
<1>4. QED
  BY <1>1, <1>2, <1>3, PTL DEF Spec, ImplementsPool, Pool!Spec

-----------------------------------------------------------------------------
(***************************************************************************)
(* What an audit remembers, and the ghosts: the types the invariants above *)
(* do without.                                                             *)
(***************************************************************************)
MemoTypes ==
    /\ declined \in [Audits -> SUBSET Keys] /\ served \in [Audits -> SUBSET Files]
    /\ leads \in [Audits -> [Keys -> 0..MaxCount]] /\ issues \in [Audits -> [Keys -> 0..MaxCount]]

\* A thread's audit, and the key in its hands once it has one.
LEMMA KeyInHand ==
    ASSUME IInv, NEW t \in Threads
    PROVE  /\ Audit(t) \in Audits
           /\ pc[t] \in KeyedPCs => key[t] \in Keys /\ key[t][1] \in Files
BY AuditOfAssumption DEF IInv, Shape, Placed, Audit, Keys

LEMMA CountsOn == \A n \in 0..MaxCount : OneMore(n) \in 0..MaxCount
BY BoundsAssumption DEF OneMore

\* One count of one audit goes up.
LEMMA CountsStay ==
    ASSUME NEW f \in [Audits -> [Keys -> 0..MaxCount]], NEW a \in Audits, NEW k \in Keys
    PROVE  [f EXCEPT ![a][k] = OneMore(@)] \in [Audits -> [Keys -> 0..MaxCount]]
<1>1. f[a] \in [Keys -> 0..MaxCount] /\ f[a][k] \in 0..MaxCount
  OBVIOUS
<1>2. OneMore(f[a][k]) \in 0..MaxCount
  BY <1>1, CountsOn
<1> DEFINE n == OneMore(f[a][k])
<1> HIDE DEF n
<1>3. [f[a] EXCEPT ![k] = n] \in [Keys -> 0..MaxCount]
  BY <1>1, <1>2 DEF n
<1>4. [f EXCEPT ![a] = [f[a] EXCEPT ![k] = n]] \in [Audits -> [Keys -> 0..MaxCount]]
  BY <1>3
<1>5. QED
  BY <1>4 DEF n

LEMMA MemoShip ==
    ASSUME IInv, MemoTypes, NEW t \in Threads, Ship(t)
    PROVE  MemoTypes'
<1>1. Audit(t) \in Audits /\ key[t] \in Keys
  BY KeyInHand DEF Ship, At, KeyedPCs
<1>2. \/ issues' = issues
      \/ issues' = [issues EXCEPT ![Audit(t)][key[t]] = OneMore(@)]
  BY DEF Ship
<1>3. issues' \in [Audits -> [Keys -> 0..MaxCount]]
  <2>1. issues \in [Audits -> [Keys -> 0..MaxCount]]
    BY DEF MemoTypes
  <2>2. [issues EXCEPT ![Audit(t)][key[t]] = OneMore(@)] \in [Audits -> [Keys -> 0..MaxCount]]
    BY <1>1, <2>1, CountsStay
  <2>3. QED
    BY <1>2, <2>1, <2>2, Zenon
<1>4. QED
  BY <1>3 DEF Ship, cacheVars, MemoTypes

LEMMA MemoBoard ==
    ASSUME IInv, MemoTypes, NEW t \in Threads, Board(t)
    PROVE  MemoTypes'
<1>1. Audit(t) \in Audits /\ key[t] \in Keys
  BY KeyInHand DEF Board, At, KeyedPCs
<1>2. \/ leads' = leads
      \/ leads' = [leads EXCEPT ![Audit(t)][key[t]] = OneMore(@)]
  BY DEF Board, Lead
<1>3. leads' \in [Audits -> [Keys -> 0..MaxCount]]
  <2>1. leads \in [Audits -> [Keys -> 0..MaxCount]]
    BY DEF MemoTypes
  <2>2. [leads EXCEPT ![Audit(t)][key[t]] = OneMore(@)] \in [Audits -> [Keys -> 0..MaxCount]]
    BY <1>1, <2>1, CountsStay
  <2>3. QED
    BY <1>2, <2>1, <2>2, Zenon
<1>4. QED
  BY <1>3 DEF Board, MemoTypes

\* Settle and Answered: a key that was refused, a file that was served.
LEMMA MemoRemembered ==
    ASSUME MemoTypes, NEW a \in Audits, NEW k \in Keys, NEW o, Remembered(a, k, o)
    PROVE  declined' \in [Audits -> SUBSET Keys]
BY DEF Remembered, MemoTypes

LEMMA MemoSettle ==
    ASSUME IInv, MemoTypes, NEW t \in Threads, Settle(t) \/ Answered(t)
    PROVE  MemoTypes'
<1>1. Audit(t) \in Audits /\ key[t] \in Keys /\ key[t][1] \in Files
  BY KeyInHand DEF Settle, Answered, At, KeyedPCs, LeadPCs
<1>2. declined' \in [Audits -> SUBSET Keys]
  BY <1>1, MemoRemembered DEF Settle, Answered
<1>3. served' \in [Audits -> SUBSET Files]
  <2>1. CASE served' = served
    BY <2>1 DEF MemoTypes
  <2>2. CASE Answered(t)
    <3>1. served' = [served EXCEPT ![Audit(t)] =
                        IF outcome[t] \in {"answer", "kept"} THEN @ \cup {key[t][1]} ELSE @]
      BY <2>2 DEF Answered
    <3>2. served[Audit(t)] \in SUBSET Files
      BY <1>1 DEF MemoTypes
    <3> DEFINE S == IF outcome[t] \in {"answer", "kept"}
                      THEN served[Audit(t)] \cup {key[t][1]} ELSE served[Audit(t)]
    <3>3. S \in SUBSET Files
      BY <1>1, <3>2
    <3>4. served' = [served EXCEPT ![Audit(t)] = S]
      BY <3>1
    <3> HIDE DEF S
    <3>5. QED
      BY <1>1, <3>3, <3>4 DEF MemoTypes
  <2>3. QED
    BY <2>1, <2>2 DEF Settle
<1>4. UNCHANGED <<leads, issues>>
  BY DEF Settle, Answered, ghosts
<1>5. QED
  BY <1>2, <1>3, <1>4 DEF MemoTypes

LEMMA MemoLand ==
    ASSUME MemoTypes, NEW t \in Threads, Land(t)
    PROVE  MemoTypes'
<1>1. PICK K : Excused(K)
  BY Zenon DEF Land
<1>2. leads' \in [Audits -> [Keys -> 0..MaxCount]]
  BY <1>1, BoundsAssumption DEF Excused, MemoTypes
<1>3. UNCHANGED <<declined, served, issues>>
  BY DEF Land
<1>4. QED
  BY <1>2, <1>3 DEF MemoTypes

LEMMA MemoStep ==
    ASSUME IInv, MemoTypes, [Next]_vars
    PROVE  MemoTypes'
<1>1. ASSUME NEW t \in Threads, Walks(t) \/ Request(t) PROVE MemoTypes'
  <2>1. CASE \/ Advance(t) \/ Rest(t) \/ Consider(t) \/ ReserveKey(t) \/ GiveBack(t) \/ FileTicket(t)
             \/ Ask(t) \/ LookUp(t) \/ Claim(t) \/ ClaimTimesOut(t) \/ Collect(t) \/ Parse(t)
             \/ Request(t) \/ WalkedOut(t) \/ Drain(t) \/ DiscardLeft(t) \/ Finish(t)
    BY <2>1 DEF Advance, Rest, Consider, ReserveKey, GiveBack, FileTicket, Ask, LookUp, Claim,
                ClaimTimesOut, Collect, Parse, Request, WalkedOut, Drain, DiscardLeft, Finish,
                cacheVars, ghosts, MemoTypes
  <2>2. QED
    BY <1>1, <2>1, MemoShip, MemoBoard, MemoSettle, MemoLand DEF Walks
<1>2. CASE \/ \E a \in Audits : Close(a) \/ DiscardClosing(a)
           \/ \E f \in Files : Rewrite(f)
           \/ Finished \/ UNCHANGED vars
  <2>1. UNCHANGED <<declined, served, leads, issues>>
    BY <1>2 DEF Close, DiscardClosing, Rewrite, Finished, vars, cacheVars, ghosts
  <2>2. QED
    BY <2>1 DEF MemoTypes
<1>3. QED
  BY <1>1, <1>2 DEF Next

\* Every variable keeps its type: the pool's counts stay within its slots.
THEOREM TypeCorrect == Spec => []TypeOK
<1>1. Init => MemoTypes
  BY BoundsAssumption DEF Init, MemoTypes
<1>2. Init => IInv /\ Slots /\ MemoTypes
  BY <1>1, InitHolds, SlotsFirst
<1>3. (IInv /\ Slots /\ MemoTypes) /\ [Next]_vars => (IInv /\ Slots /\ MemoTypes)'
  BY NextKeeps, SlotsStep, MemoStep
<1>4. IInv /\ Slots /\ MemoTypes => TypeOK
  <2> SUFFICES ASSUME IInv, Slots, MemoTypes PROVE TypeOK
    OBVIOUS
  <2>1. tickets \in 0..Size /\ inUse \in 0..Size
    BY PoolAssumption DEF Slots, SlotTypes, NoTicketLeaks
  <2>2. index \in [Audits -> [Keys -> {Nothing} \cup [by : Threads, text : 0..MaxVersion]]]
    BY DEF IInv, Shape, Types, Entries
  <2>3. QED
    BY <2>1, <2>2 DEF IInv, Shape, Types, Flown, Slots, SlotTypes, MemoTypes, TypeOK
<1>5. QED
  BY <1>2, <1>3, <1>4, PTL DEF Spec
=============================================================================
