------------------------------- MODULE Prefetch -------------------------------
(***************************************************************************)
(* Skill threads walking their files (agents/shared/shared/ast/cache.py    *)
(* and prefetch.py).  For each file the head first sends requests ahead    *)
(* for the next ones, then asks for the file's own answer.  An answer is   *)
(* built once per key, by the thread that leads the key's flight, and kept *)
(* in a cache every audit shares; requests sent ahead wait as tickets in   *)
(* the audit's index.  The worker pool is two counts of slots here; that   *)
(* is what WorkerPool.tla implements (SlotPool.tla).                       *)
(*                                                                         *)
(* A key is a file and its stat; a file's stat is its version, which a     *)
(* change of the file raises.  The breaker is left out: with it open every *)
(* request is refused, which a request here may be at any time.            *)
(***************************************************************************)
EXTENDS Integers, Sequences, FiniteSets, Functions

CONSTANTS
    Threads,     \* skill threads
    Audits,
    AuditOf,     \* the audit of each thread
    Files,
    Walk,        \* the files each thread walks, in order
    Size,        \* slots of the pool
    Reserve,     \* PREFETCH_RESERVE
    Ahead,       \* PREFETCH_AHEAD
    Changing,    \* bound: the files that may change
    MaxVersion,  \* bound: versions of a file
    MaxCount     \* bound: how far the ghosts count

ASSUME FiniteAssumption == IsFiniteSet(Threads) /\ IsFiniteSet(Audits) /\ IsFiniteSet(Files)
ASSUME AuditOfAssumption == AuditOf \in [Threads -> Audits]
ASSUME WalkAssumption == Walk \in [Threads -> Seq(Files)]
ASSUME PoolAssumption == Size \in Nat \ {0} /\ Reserve \in 1..Size
ASSUME BoundsAssumption == Ahead \in Nat \ {0} /\ MaxVersion \in Nat \ {0} /\ MaxCount \in Nat

VARIABLES
    pc,         \* where each thread is
    at,         \* the position of its walk it has come to (_cursor)
    next,       \* positions of its walk considered so far (_next)
    then,       \* where it goes on once its window is considered
    key,        \* the key in its hands
    text,       \* the version of the text it shipped, 0 for none
    outcome,    \* what its request came to
    left,       \* tickets its drained walk has yet to discard
    version,    \* the version of each file on disk
    flight,     \* keys in flight
    stored,     \* the version of the text behind each stored answer, 0 for none
    declined,   \* keys each audit was refused for what the file is
    served,     \* files each audit was served
    index,      \* the ticket index of each audit
    closed,     \* audits whose index is closed
    closing,    \* tickets a closed index has yet to discard
    tickets,    \* slots held by tickets
    inUse,      \* slots held by synchronous requests
    leads,      \* ghost: parses of each key its audit led with no reason to repeat one
    issues      \* ghost: tickets each audit issued for each key

threadVars == <<pc, at, next, then, key, text, outcome, left>>
cacheVars == <<flight, stored, declined, served>>
indexVars == <<index, closed, closing>>
poolVars == <<tickets, inUse>>
ghosts == <<leads, issues>>
vars == <<threadVars, version, cacheVars, indexVars, poolVars, ghosts>>

Versions == 1..MaxVersion
Keys == Files \X Versions
NoKey == <<>>

\* An index entry: nothing, a reservation of a walk (no text yet), or the
\* ticket that took its place.
Nothing == [by |-> "nobody", text |-> 0]
Reserved(e) == e # Nothing /\ e.text = 0
Filed(e) == e # Nothing /\ e.text # 0

\* A leader's steps, from boarding to landing.
LeadPCs == {"claiming", "collecting", "requesting", "parsing", "settling", "landing"}
PCs == {"head", "considering", "reserving", "shipping", "filing", "releasing", "giving up",
        "asking", "keyed", "boarding", "joining", "answered", "draining", "done"} \cup LeadPCs
\* An answer that may be stored is "kept"; a refusal for what the file is,
\* "declined", is remembered; one for the pool's sake, "refused", is not.
Outcomes == {"none", "kept", "answer", "declined", "refused", "died"}

At(t, p) == pc[t] = p
Goto(t, p) == pc' = [pc EXCEPT ![t] = p]
Audit(t) == AuditOf[t]
Stat(f) == <<f, version[f]>>
Held(t) == index[Audit(t)][key[t]]
Put(t, e) == index' = [index EXCEPT ![Audit(t)][key[t]] = e]

TypeOK ==
    /\ pc \in [Threads -> PCs] /\ then \in [Threads -> {"asking", "head"}]
    /\ at \in [Threads -> Nat] /\ next \in [Threads -> Nat] /\ left \in [Threads -> Nat]
    /\ key \in [Threads -> Keys \cup {NoKey}] /\ text \in [Threads -> 0..MaxVersion]
    /\ outcome \in [Threads -> Outcomes]
    /\ version \in [Files -> Versions]
    /\ flight \subseteq Keys /\ stored \in [Keys -> 0..MaxVersion]
    /\ declined \in [Audits -> SUBSET Keys] /\ served \in [Audits -> SUBSET Files]
    /\ index \in [Audits -> [Keys -> {Nothing} \cup [by : Threads, text : 0..MaxVersion]]]
    /\ closed \subseteq Audits /\ closing \in [Audits -> Nat]
    /\ tickets \in 0..Size /\ inUse \in 0..Size
    /\ leads \in [Audits -> [Keys -> 0..MaxCount]] /\ issues \in [Audits -> [Keys -> 0..MaxCount]]

Init ==
    /\ pc = [t \in Threads |-> "head"] /\ then = [t \in Threads |-> "head"]
    /\ at = [t \in Threads |-> 0] /\ next = [t \in Threads |-> 0] /\ left = [t \in Threads |-> 0]
    /\ key = [t \in Threads |-> NoKey] /\ text = [t \in Threads |-> 0]
    /\ outcome = [t \in Threads |-> "none"]
    /\ version = [f \in Files |-> 1]
    /\ flight = {} /\ stored = [k \in Keys |-> 0]
    /\ declined = [a \in Audits |-> {}] /\ served = [a \in Audits |-> {}]
    /\ index = [a \in Audits |-> [k \in Keys |-> Nothing]]
    /\ closed = {} /\ closing = [a \in Audits |-> 0]
    /\ tickets = 0 /\ inUse = 0
    /\ leads = [a \in Audits |-> [k \in Keys |-> 0]]
    /\ issues = [a \in Audits |-> [k \in Keys |-> 0]]

\* The file changes on disk.
Rewrite(f) ==
    /\ f \in Changing /\ version[f] < MaxVersion
    /\ version' = [version EXCEPT ![f] = @ + 1]
    /\ UNCHANGED <<threadVars, cacheVars, indexVars, poolVars, ghosts>>

\* The ghosts count to their bound.
OneMore(n) == IF n < MaxCount THEN n + 1 ELSE n

FreeSlots == Size - tickets - inUse
\* issuable, and what _spare decides under the lock.
SpareSlot == tickets < Size - Reserve /\ FreeSlots > 0

-----------------------------------------------------------------------------
(***************************************************************************)
(* The walk: advance before a file is asked for, refill after it.          *)
(***************************************************************************)
\* advance: the cursor moves past the next file, unless the index is closed.
Advance(t) ==
    /\ At(t, "head") /\ at[t] < Len(Walk[t])
    /\ at' = [at EXCEPT ![t] = @ + 1]
    /\ then' = [then EXCEPT ![t] = "asking"]
    /\ IF Audit(t) \in closed
       THEN Goto(t, "asking") /\ UNCHANGED next
       ELSE Goto(t, "considering") /\ next' = [next EXCEPT ![t] = IF @ > at[t] THEN @ ELSE at[t] + 1]
    /\ UNCHANGED <<key, text, outcome, left, version, cacheVars, indexVars, poolVars, ghosts>>

Window(t) == next[t] < at[t] + Ahead /\ next[t] < Len(Walk[t])
Upcoming(t) == Walk[t][next[t] + 1]

\* A position is considered: the thread goes on to the one after it.
Considered(t) ==
    /\ next' = [next EXCEPT ![t] = @ + 1]
    /\ key' = [key EXCEPT ![t] = NoKey] /\ text' = [text EXCEPT ![t] = 0]
    /\ Goto(t, "considering")

\* The window is done with, or no slot is to be had: an advance goes on to
\* ask, a refill to the next file.
Rest(t) ==
    /\ At(t, "considering")
    /\ ~Window(t) \/ (Audit(t) \notin closed /\ ~SpareSlot)
    /\ Goto(t, then[t])
    /\ UNCHANGED <<at, next, then, key, text, outcome, left, version, cacheVars, indexVars, poolVars, ghosts>>

\* Nothing holds the key: neither the cache, nor the audit's refusals.
Unasked(t, k) == stored[k] = 0 /\ k \notin flight /\ k \notin declined[Audit(t)]

\* issue_ahead up to _unasked's first half: a closed index, a file the audit
\* was served and a key the cache or the audit knows are passed over.
Consider(t) ==
    /\ At(t, "considering") /\ Window(t) /\ (Audit(t) \in closed \/ SpareSlot)
    /\ LET f == Upcoming(t)
       IN  IF Audit(t) \in closed \/ f \in served[Audit(t)] \/ ~Unasked(t, Stat(f))
           THEN Considered(t)
           ELSE key' = [key EXCEPT ![t] = Stat(f)] /\ Goto(t, "reserving") /\ UNCHANGED <<next, text>>
    /\ UNCHANGED <<at, then, outcome, left, version, cacheVars, indexVars, poolVars, ghosts>>

\* TicketIndex.reserve.
ReserveKey(t) ==
    /\ At(t, "reserving")
    /\ IF Audit(t) \notin closed /\ Held(t) = Nothing
       THEN Put(t, [by |-> t, text |-> 0]) /\ Goto(t, "shipping") /\ UNCHANGED <<next, key, text>>
       ELSE Considered(t) /\ UNCHANGED index
    /\ UNCHANGED <<at, then, outcome, left, version, cacheVars, closed, closing, poolVars, ghosts>>

\* _wanted reads the text; it is issued if it holds a sink key and the pool
\* has a slot to spare, and else the reservation is given back.
Ship(t) ==
    /\ At(t, "shipping")
    /\ \/ /\ SpareSlot
          /\ tickets' = tickets + 1
          /\ text' = [text EXCEPT ![t] = version[key[t][1]]]
          /\ issues' = [issues EXCEPT ![Audit(t)][key[t]] = OneMore(@)]
          /\ Goto(t, "filing")
       \/ \* not wanted
          /\ Goto(t, "releasing") /\ UNCHANGED <<tickets, text, issues>>
       \/ /\ ~SpareSlot
          /\ Goto(t, "giving up") /\ UNCHANGED <<tickets, text, issues>>
    /\ UNCHANGED <<at, next, then, key, outcome, left, version, cacheVars, indexVars, inUse, leads>>

\* Mutant of GiveBack: the reservation stays.
GiveBack_Forgets(t) ==
    /\ \/ At(t, "releasing") /\ Considered(t)
       \/ At(t, "giving up") /\ Goto(t, then[t]) /\ key' = [key EXCEPT ![t] = NoKey] /\ UNCHANGED <<next, text>>
    /\ UNCHANGED <<at, then, outcome, left, version, cacheVars, indexVars, poolVars, ghosts>>

\* TicketIndex.release, of a position considered or of one refused a slot.
GiveBack(t) ==
    /\ \/ At(t, "releasing") /\ Considered(t)
       \/ At(t, "giving up") /\ Goto(t, then[t]) /\ key' = [key EXCEPT ![t] = NoKey] /\ UNCHANGED <<next, text>>
    /\ IF Reserved(Held(t)) THEN Put(t, Nothing) ELSE UNCHANGED index
    /\ UNCHANGED <<at, then, outcome, left, version, cacheVars, closed, closing, poolVars, ghosts>>

\* Mutant of FileTicket: a ticket whose reservation is gone is filed anyway.
FileTicket_Anyway(t) ==
    /\ At(t, "filing")
    /\ Put(t, [by |-> t, text |-> text[t]])
    /\ Considered(t)
    /\ UNCHANGED <<at, then, outcome, left, version, cacheVars, closed, closing, poolVars, ghosts>>

\* TicketIndex.file: the ticket takes the reservation's place, or is given up
\* at once when that is gone.
FileTicket(t) ==
    /\ At(t, "filing")
    /\ IF Reserved(Held(t))
       THEN Put(t, [by |-> t, text |-> text[t]]) /\ UNCHANGED tickets
       ELSE tickets' = tickets - 1 /\ UNCHANGED index
    /\ Considered(t)
    /\ UNCHANGED <<at, then, outcome, left, version, cacheVars, closed, closing, inUse, ghosts>>

-----------------------------------------------------------------------------
(***************************************************************************)
(* The answer: the audit's refusals, then the cache, then a parse.         *)
(***************************************************************************)
\* The stat the key is made of; later steps use this key whatever happens to
\* the file.
Ask(t) ==
    /\ At(t, "asking")
    /\ key' = [key EXCEPT ![t] = Stat(Walk[t][at[t]])]
    /\ Goto(t, "keyed")
    /\ UNCHANGED <<at, next, then, text, outcome, left, version, cacheVars, indexVars, poolVars, ghosts>>

\* _keyed's first look: a key this audit was refused is not asked for again.
LookUp(t) ==
    /\ At(t, "keyed")
    /\ IF key[t] \in declined[Audit(t)]
       THEN outcome' = [outcome EXCEPT ![t] = "declined"] /\ Goto(t, "answered")
       ELSE Goto(t, "boarding") /\ UNCHANGED outcome
    /\ UNCHANGED <<at, next, then, key, text, left, version, cacheVars, indexVars, poolVars, ghosts>>

Lead(t) ==
    /\ flight' = flight \cup {key[t]}
    /\ leads' = [leads EXCEPT ![Audit(t)][key[t]] = OneMore(@)]
    /\ Goto(t, "claiming")
    /\ UNCHANGED outcome

\* Mutant of Board: a flight in progress is not joined.
Board_NoJoin(t) ==
    /\ At(t, "boarding")
    /\ \/ stored[key[t]] # 0
          /\ outcome' = [outcome EXCEPT ![t] = "answer"] /\ Goto(t, "answered") /\ UNCHANGED <<flight, leads>>
       \/ stored[key[t]] = 0 /\ Lead(t)
    /\ UNCHANGED <<at, next, then, key, text, left, version, stored, declined, served, indexVars, poolVars, issues>>

\* _board, under the cache lock: the stored answer, a flight to join, or a
\* flight of one's own.
Board(t) ==
    /\ At(t, "boarding")
    /\ \/ stored[key[t]] # 0
          /\ outcome' = [outcome EXCEPT ![t] = "answer"] /\ Goto(t, "answered") /\ UNCHANGED <<flight, leads>>
       \/ stored[key[t]] = 0 /\ key[t] \in flight
          /\ Goto(t, "joining") /\ UNCHANGED <<outcome, flight, leads>>
       \/ stored[key[t]] = 0 /\ key[t] \notin flight /\ Lead(t)
    /\ UNCHANGED <<at, next, then, key, text, left, version, stored, declined, served, indexVars, poolVars, issues>>

\* Mutant of Claim: the ticket that is handed out stays in the index.
Claim_LeavesTicket(t) ==
    /\ At(t, "claiming")
    /\ IF Filed(Held(t)) THEN text' = [text EXCEPT ![t] = Held(t).text] /\ Goto(t, "collecting")
       ELSE Held(t) = Nothing /\ Goto(t, "requesting") /\ UNCHANGED text
    /\ UNCHANGED <<at, next, then, key, outcome, left, version, cacheVars, indexVars, poolVars, ghosts>>

\* TicketIndex.claim: a ticket is taken out; a reservation is waited for, but
\* not past WALL_TIMEOUT.
Claim(t) ==
    /\ At(t, "claiming")
    /\ \/ /\ Filed(Held(t))
          /\ text' = [text EXCEPT ![t] = Held(t).text]
          /\ Put(t, Nothing) /\ Goto(t, "collecting")
       \/ /\ Held(t) = Nothing
          /\ Goto(t, "requesting") /\ UNCHANGED <<text, index>>
    /\ UNCHANGED <<at, next, then, key, outcome, left, version, cacheVars, closed, closing, poolVars, ghosts>>

ClaimTimesOut(t) ==
    /\ At(t, "claiming") /\ Reserved(Held(t))
    /\ Goto(t, "requesting")
    /\ UNCHANGED <<at, next, then, key, text, outcome, left, version, cacheVars, indexVars, poolVars, ghosts>>

\* The reply comes, or a refusal, or the leader is torn out of its build.
Replies(t) ==
    /\ \E o \in {"answer", "declined", "refused", "died"} : outcome' = [outcome EXCEPT ![t] = o]
    /\ Goto(t, "settling")

Collect(t) ==
    /\ At(t, "collecting") /\ Replies(t)
    /\ tickets' = tickets - 1
    /\ UNCHANGED <<at, next, then, key, text, left, version, cacheVars, indexVars, inUse, ghosts>>

\* The text is read, then a slot waited for.
Request(t) ==
    /\ At(t, "requesting") /\ FreeSlots > 0
    /\ text' = [text EXCEPT ![t] = version[key[t][1]]]
    /\ inUse' = inUse + 1
    /\ Goto(t, "parsing")
    /\ UNCHANGED <<at, next, then, key, outcome, left, version, cacheVars, indexVars, tickets, ghosts>>

Parse(t) ==
    /\ At(t, "parsing") /\ Replies(t)
    /\ inUse' = inUse - 1
    /\ UNCHANGED <<at, next, then, key, text, left, version, cacheVars, indexVars, tickets, ghosts>>

\* The leader's audit remembers what it declined.
Remembered(a, k, o) == declined' = [declined EXCEPT ![a] = IF o = "declined" THEN @ \cup {k} ELSE @]

\* Mutant of Settle: the file is not looked at again after the read.
Settle_NoSecondStat(t) ==
    /\ At(t, "settling")
    /\ outcome' = [outcome EXCEPT ![t] = IF @ = "answer" THEN "kept" ELSE @]
    /\ Remembered(Audit(t), key[t], outcome[t])
    /\ Goto(t, "landing")
    /\ UNCHANGED <<at, next, then, key, text, left, version, flight, stored, served, indexVars, poolVars, ghosts>>

\* The rest of _build, before the flight lands: an answer may be kept if the
\* file is still the one the key was made of; a refusal is remembered.
Settle(t) ==
    /\ At(t, "settling")
    /\ outcome' = [outcome EXCEPT ![t] = IF @ = "answer" /\ Stat(key[t][1]) = key[t] THEN "kept" ELSE @]
    /\ Remembered(Audit(t), key[t], outcome[t])
    /\ Goto(t, "landing")
    /\ UNCHANGED <<at, next, then, key, text, left, version, flight, stored, served, indexVars, poolVars, ghosts>>

Joiners(k) == {u \in Threads : At(u, "joining") /\ key[u] = k}

\* Where the flight's threads go on: a leader torn out of its build leaves its
\* walk, and its waiters board again.
Landed(t) ==
    pc' = [u \in Threads |->
              IF u = t THEN IF outcome[t] = "died" THEN "draining" ELSE "answered"
              ELSE IF u \in Joiners(key[t]) THEN IF outcome[t] = "died" THEN "boarding" ELSE "answered"
              ELSE pc[u]]

\* Another parse of the key has a reason: its answer is not in the cache, and
\* no audit remembers a refusal.
Excused(K) == leads' = [a \in Audits |-> [k \in Keys |-> IF k \in K THEN 0 ELSE leads[a][k]]]

\* Mutant of Land: waiters are woken only by an outcome.
Land_StrandsWaiters(t) ==
    /\ At(t, "landing")
    /\ flight' = flight \ {key[t]}
    /\ stored' = IF outcome[t] = "kept" THEN [stored EXCEPT ![key[t]] = text[t]] ELSE stored
    /\ outcome' = [u \in Threads |-> IF u \in Joiners(key[t]) /\ outcome[t] # "died" THEN outcome[t] ELSE outcome[u]]
    /\ IF outcome[t] = "died" THEN Goto(t, "draining") ELSE Landed(t)
    /\ Excused(IF outcome[t] \in {"kept", "declined"} THEN {} ELSE {key[t]})
    /\ UNCHANGED <<at, next, then, key, text, left, version, declined, served, indexVars, poolVars, issues>>

\* _land and done.set(): store what may be kept, evicting others if it must,
\* retire the flight, wake the waiters.
Land(t) ==
    /\ At(t, "landing")
    /\ flight' = flight \ {key[t]}
    /\ \E evicted \in SUBSET {k \in Keys : stored[k] # 0} :
         /\ outcome[t] # "kept" => evicted = {}
         /\ stored' = [k \in Keys |-> IF k = key[t] /\ outcome[t] = "kept" THEN text[t]
                                      ELSE IF k \in evicted THEN 0 ELSE stored[k]]
         /\ Excused(evicted \cup (IF outcome[t] \in {"kept", "declined"} THEN {} ELSE {key[t]}))
    /\ outcome' = [u \in Threads |-> IF u \in Joiners(key[t]) /\ outcome[t] # "died" THEN outcome[t] ELSE outcome[u]]
    /\ Landed(t)
    /\ UNCHANGED <<at, next, then, key, text, left, version, declined, served, indexVars, poolVars, issues>>

\* _remembered and _recorded, then the refill.
Answered(t) ==
    /\ At(t, "answered")
    /\ Remembered(Audit(t), key[t], outcome[t])
    /\ served' = [served EXCEPT ![Audit(t)] =
                     IF outcome[t] \in {"answer", "kept"} THEN @ \cup {key[t][1]} ELSE @]
    /\ then' = [then EXCEPT ![t] = "head"]
    /\ key' = [key EXCEPT ![t] = NoKey] /\ text' = [text EXCEPT ![t] = 0]
    /\ outcome' = [outcome EXCEPT ![t] = "none"]
    /\ Goto(t, IF Audit(t) \in closed THEN "head" ELSE "considering")
    /\ UNCHANGED <<at, next, left, version, flight, stored, indexVars, poolVars, ghosts>>

-----------------------------------------------------------------------------
(***************************************************************************)
(* The end of a walk, and of an audit.                                     *)
(***************************************************************************)
WalkedOut(t) ==
    /\ At(t, "head") /\ at[t] = Len(Walk[t])
    /\ Goto(t, "draining")
    /\ UNCHANGED <<at, next, then, key, text, outcome, left, version, cacheVars, indexVars, poolVars, ghosts>>

Mine(t) == {k \in Keys : index[Audit(t)][k].by = t}

\* TicketIndex.drain: the walk's entries are taken out under the lock and
\* discarded outside it.
Drain(t) ==
    /\ At(t, "draining") /\ Mine(t) # {}
    /\ left' = [left EXCEPT ![t] = @ + Cardinality({k \in Mine(t) : Filed(index[Audit(t)][k])})]
    /\ index' = [index EXCEPT ![Audit(t)] = [k \in Keys |-> IF k \in Mine(t) THEN Nothing ELSE @[k]]]
    /\ UNCHANGED <<pc, at, next, then, key, text, outcome, version, cacheVars, closed, closing, poolVars, ghosts>>

DiscardLeft(t) ==
    /\ At(t, "draining") /\ left[t] > 0
    /\ left' = [left EXCEPT ![t] = @ - 1]
    /\ tickets' = tickets - 1
    /\ UNCHANGED <<pc, at, next, then, key, text, outcome, version, cacheVars, indexVars, inUse, ghosts>>

Finish(t) ==
    /\ At(t, "draining") /\ Mine(t) = {} /\ left[t] = 0
    /\ Goto(t, "done")
    /\ key' = [key EXCEPT ![t] = NoKey] /\ text' = [text EXCEPT ![t] = 0]
    /\ outcome' = [outcome EXCEPT ![t] = "none"]
    /\ UNCHANGED <<at, next, then, left, version, cacheVars, indexVars, poolVars, ghosts>>

\* Mutant of Close: the tickets are dropped with the index.
Close_DropsTickets(a) ==
    /\ a \notin closed
    /\ closed' = closed \cup {a}
    /\ index' = [index EXCEPT ![a] = [k \in Keys |-> Nothing]]
    /\ UNCHANGED <<threadVars, version, cacheVars, closing, poolVars, ghosts>>

\* TicketIndex.close, by the runner when the skill phase ends: its threads may
\* have been abandoned in mid-walk.
Close(a) ==
    /\ a \notin closed
    /\ closed' = closed \cup {a}
    /\ closing' = [closing EXCEPT ![a] = Cardinality({k \in Keys : Filed(index[a][k])})]
    /\ index' = [index EXCEPT ![a] = [k \in Keys |-> Nothing]]
    /\ UNCHANGED <<threadVars, version, cacheVars, poolVars, ghosts>>

DiscardClosing(a) ==
    /\ closing[a] > 0
    /\ closing' = [closing EXCEPT ![a] = @ - 1]
    /\ tickets' = tickets - 1
    /\ UNCHANGED <<threadVars, version, cacheVars, index, closed, inUse, ghosts>>

-----------------------------------------------------------------------------
Walks(t) ==
    \/ Advance(t) \/ Rest(t) \/ Consider(t) \/ ReserveKey(t) \/ Ship(t) \/ GiveBack(t) \/ FileTicket(t)
    \/ Ask(t) \/ LookUp(t) \/ Board(t) \/ Claim(t) \/ ClaimTimesOut(t) \/ Collect(t) \/ Parse(t)
    \/ Settle(t) \/ Land(t) \/ Answered(t)
    \/ WalkedOut(t) \/ Drain(t) \/ DiscardLeft(t) \/ Finish(t)

Finished ==
    /\ \A t \in Threads : At(t, "done")
    /\ closed = Audits /\ \A a \in Audits : closing[a] = 0
    /\ UNCHANGED vars

Next ==
    \/ \E t \in Threads : Walks(t) \/ Request(t)
    \/ \E a \in Audits : Close(a) \/ DiscardClosing(a)
    \/ \E f \in Files : Rewrite(f)
    \/ Finished

Spec == Init /\ [][Next]_vars

(***************************************************************************)
(* Threads go on, requests of a worker have a deadline, and a request that *)
(* waits for a slot gets one (Served in WorkerPool): strong fairness       *)
(* there.  The runner closes the index in a finally.                       *)
(***************************************************************************)
Fairness ==
    /\ \A t \in Threads : WF_vars(Walks(t)) /\ SF_vars(Request(t))
    /\ \A a \in Audits : WF_vars(Close(a)) /\ WF_vars(DiscardClosing(a))

LiveSpec == Spec /\ Fairness

-----------------------------------------------------------------------------
(***************************************************************************)
(* Properties.                                                             *)
(***************************************************************************)
InIndex(a) == {k \in Keys : Filed(index[a][k])}
\* The tickets of an audit that no thread has taken.
Outstanding == [a \in Audits |-> Cardinality(InIndex(a)) + closing[a]]
Sitting(P) == {t \in Threads : pc[t] \in P}
InHand == Sitting({"filing", "collecting"})

\* Every slot a ticket holds belongs to a ticket somebody will give up or
\* collect: one in an open index, in a thread's hands, or being discarded;
\* and every other slot in use to a request in progress.  None outlives its
\* audit's skill phase, whoever was abandoned in it (context.leave, the
\* runner's finally: "no ticket outlives the skill phase").
NoTicketLeaks ==
    /\ tickets = SumFunctionOnSet(Outstanding, Audits) + SumFunctionOnSet(left, Threads)
                 + Cardinality(InHand)
    /\ inUse = Cardinality(Sitting({"parsing"}))
    /\ tickets + inUse <= Size
    /\ \A a \in closed : \A k \in Keys : index[a][k] = Nothing

Pool == INSTANCE SlotPool

\* Whatever becomes of threads, tickets and files, this component takes slots
\* and gives them back in the order the pool's promise allows: no slot of the
\* reserve for a ticket, and each slot it has taken back once (issue_ahead,
\* _shipped, _discard).
ImplementsPool == Pool!Spec

\* A key has one leader while it is in flight and none otherwise, so nobody
\* waits for a flight no one flies or for a reservation no one will settle,
\* and no stored answer is parsed again (ModelCache._board, _land).
OneLeader ==
    /\ \A k \in flight : \E t \in Threads : pc[t] \in LeadPCs /\ key[t] = k
    /\ \A t \in Threads : pc[t] \in LeadPCs => key[t] \in flight /\ stored[key[t]] = 0
    /\ \A t, u \in Threads : {pc[t], pc[u]} \subseteq LeadPCs /\ key[t] = key[u] => t = u
    /\ \A t \in Threads : At(t, "joining") => key[t] \in flight
    /\ \A a \in Audits : \A k \in Keys : Reserved(index[a][k]) =>
          LET t == index[a][k].by IN pc[t] \in {"shipping", "filing", "releasing", "giving up"} /\ key[t] = k

\* What is stored under a key was parsed from the text that key describes,
\* whenever the file changes during a request or between a request sent ahead
\* and its collection (A9: "no model is ever cached under a key its text does
\* not belong to").
StoredIsCurrent == \A k \in Keys : stored[k] \in {0, k[2]}

\* Every walk ends and gives its slots back: no waiter is stranded, whatever
\* leaders die of, and no thread waits for a slot that tickets hold for ever.
WalksEnd == <>[](tickets = 0 /\ inUse = 0 /\ \A t \in Threads : At(t, "done"))

\* cache.py: a later request of a declined key "never finds the key with
\* neither a flight nor a memo, which would lead a second parse".
OneParsePerKey == \A a \in Audits : \A k \in Keys : leads[a][k] <= 1

\* prefetch.py: "two skill walks of one audit never issue one key twice".
IssuedOnce == \A a \in Audits : \A k \in Keys : issues[a][k] <= 1
=============================================================================
