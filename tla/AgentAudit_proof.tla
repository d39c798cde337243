--------------------------- MODULE AgentAudit_proof ---------------------------
(***************************************************************************)
(* What a run tells its client, whatever skills, rows, batches and caps it *)
(* has: the result holds every row that was reported and not made          *)
(* redundant by a more specific one, each under the id it was streamed     *)
(* with; "degraded" is the truth about the sweep; the stream has one end.  *)
(* And once the client has left or the ceiling has passed, the sweep ends  *)
(* at most the batch it is in.                                             *)
(*                                                                         *)
(* None of these is inductive: that the result is complete rests on what   *)
(* the rows and the ids are in every phase before it (RowsInv, IdsInv), on *)
(* the sweep having found nothing while nothing answered (PhaseInv), on    *)
(* the ledger (LedgerInv), and on nothing changing once the stream is      *)
(* closed (ShapeInv, ResultInv).  The late batch needs that a stopped run  *)
(* stays stopped and that the only way into a call looks first (Bounded).  *)
(***************************************************************************)
EXTENDS AgentAudit, SequenceTheorems, FiniteSetTheorems, TLAPS

(***************************************************************************)
(* The sequences Only leaves.                                              *)
(***************************************************************************)
\* The equation of the recursion in Only, up to n.
KeepStep(seq, keep, n, g) ==
    g = [m \in 0..n |-> IF m = 0 THEN <<>>
                        ELSE IF seq[m] \in keep THEN Append(g[m - 1], seq[m]) ELSE g[m - 1]]

\* A set of naturals that holds 0 and the successor of each of its members is Nat.
LEMMA InductiveSet ==
    ASSUME NEW P \in SUBSET Nat, 0 \in P, \A n \in Nat : n \in P => n + 1 \in P
    PROVE  P = Nat
<1>. DEFINE bad == Nat \ P
<1>1. SUFFICES ASSUME bad # {} PROVE FALSE
  OBVIOUS
<1>2. PICK m \in bad : \A k \in bad : ~(k < m)
  <2>1. \E m \in bad : \A k \in bad : <<k, m>> \notin OpToRel(<, Nat)
    BY <1>1, WFMin, NatLessThanWellFounded
  <2>. QED  BY <2>1 DEF OpToRel
<1>3. m # 0 /\ m - 1 \in Nat /\ m - 1 < m /\ (m - 1) + 1 = m
  BY <1>2
<1>4. m - 1 \in P
  BY <1>2, <1>3
<1>. QED  BY <1>2, <1>3, <1>4

LEMMA KeepExists ==
    ASSUME NEW seq, NEW keep, NEW n \in Nat
    PROVE  \E g : KeepStep(seq, keep, n, g)
<1>. DEFINE P == {k \in Nat : \E g : KeepStep(seq, keep, k, g)}
<1>1. 0 \in P
  <2>1. KeepStep(seq, keep, 0, [m \in 0..0 |-> <<>>])
    BY DEF KeepStep
  <2>. QED  BY <2>1
<1>2. ASSUME NEW k \in Nat, k \in P PROVE k + 1 \in P
  <2>1. PICK g : KeepStep(seq, keep, k, g)
    BY <1>2
  <2>. DEFINE h == [m \in 0..(k + 1) |->
                      IF m <= k THEN g[m]
                      ELSE IF seq[m] \in keep THEN Append(g[k], seq[m]) ELSE g[k]]
  <2>2. ASSUME NEW m \in 0..(k + 1)
        PROVE  h[m] = IF m = 0 THEN <<>>
                      ELSE IF seq[m] \in keep THEN Append(h[m - 1], seq[m]) ELSE h[m - 1]
    <3>1. CASE m <= k
      <4>1. m \in 0..k /\ h[m] = g[m] /\ (m # 0 => h[m - 1] = g[m - 1])
        BY <3>1
      <4>2. g[m] = IF m = 0 THEN <<>>
                   ELSE IF seq[m] \in keep THEN Append(g[m - 1], seq[m]) ELSE g[m - 1]
        BY <2>1, <4>1, Zenon DEF KeepStep
      <4>. QED  BY <4>1, <4>2
    <3>2. CASE m = k + 1
      <4>1. m # 0 /\ m - 1 = k /\ h[m - 1] = g[k] /\ ~(m <= k)
        BY <3>2
      <4>. QED  BY <4>1
    <3>. QED  BY <3>1, <3>2
  <2>3. KeepStep(seq, keep, k + 1, h)
    BY <2>2, Zenon DEF KeepStep
  <2>. QED  BY <2>3
<1>3. P = Nat
  <2>. HIDE DEF P
  <2>. QED  BY <1>1, <1>2, InductiveSet DEF P
<1>. QED  BY <1>3

\* What Only leaves is a sequence of the members of seq that are in keep, with
\* no more repetitions than seq has.
LEMMA OnlyProperties ==
    ASSUME NEW A, NEW seq \in Seq(A), NEW keep
    PROVE  /\ Only(seq, keep) \in Seq(A)
           /\ Len(Only(seq, keep)) <= Len(seq)
           /\ Range(Only(seq, keep)) = Range(seq) \cap keep
           /\ IsInjective(seq) => IsInjective(Only(seq, keep))
<1>. DEFINE L == Len(seq)
            it == CHOOSE g : KeepStep(seq, keep, L, g)
            Members(n) == {seq[i] : i \in 1..n}
            Good(n) == /\ it[n] \in Seq(A) /\ Len(it[n]) <= n
                       /\ {it[n][i] : i \in 1..Len(it[n])} = Members(n) \cap keep
                       /\ IsInjective(seq) =>
                            \A i, j \in 1..Len(it[n]) : it[n][i] = it[n][j] => i = j
            P == {n \in Nat : n <= L => Good(n)}
<1>1. L \in Nat /\ \A i \in 1..L : seq[i] \in A
  BY LenProperties, ElementOfSeq
<1>2. KeepStep(seq, keep, L, it)
  BY <1>1, KeepExists
<1>3. Only(seq, keep) = it[L]
  BY DEF Only, KeepStep
<1>. HIDE DEF it
<1>4. \A m \in 0..L :
        it[m] = IF m = 0 THEN <<>>
                ELSE IF seq[m] \in keep THEN Append(it[m - 1], seq[m]) ELSE it[m - 1]
  BY <1>2, Zenon DEF KeepStep
<1>5. 0 \in P
  <2>1. it[0] = <<>>
    BY <1>1, <1>4
  <2>2. Members(0) = {} /\ it[0] \in Seq(A) /\ Len(it[0]) = 0
    BY <2>1, EmptySeq
  <2>. QED  BY <2>2
<1>6. ASSUME NEW n \in Nat, n \in P PROVE n + 1 \in P
  <2>. SUFFICES ASSUME n + 1 <= L PROVE Good(n + 1)
    OBVIOUS
  <2>1. /\ Good(n) /\ n + 1 \in 0..L /\ n + 1 \in 1..L /\ n + 1 # 0 /\ (n + 1) - 1 = n
    BY <1>1, <1>6
  <2>2. it[n + 1] = IF seq[n + 1] \in keep THEN Append(it[n], seq[n + 1]) ELSE it[n]
    BY <1>4, <2>1
  <2>3. seq[n + 1] \in A /\ Members(n + 1) = Members(n) \cup {seq[n + 1]}
    BY <1>1, <2>1
  <2>4. Len(it[n]) \in Nat
    BY <2>1, LenProperties
  <2>5. CASE seq[n + 1] \notin keep
    <3>1. it[n + 1] = it[n] /\ Members(n + 1) \cap keep = Members(n) \cap keep
      BY <2>2, <2>3, <2>5
    <3>. HIDE DEF Members
    <3>. QED  BY <2>1, <2>4, <3>1
  <2>6. CASE seq[n + 1] \in keep
    <3>. DEFINE k == Len(it[n])
                s == it[n + 1]
    <3>1. /\ s \in Seq(A) /\ Len(s) = k + 1 /\ s[k + 1] = seq[n + 1]
          /\ \A i \in 1..k : s[i] = it[n][i]
      BY <2>1, <2>2, <2>3, <2>4, <2>6, AppendProperties
    <3>2. {s[i] : i \in 1..Len(s)} = {it[n][i] : i \in 1..k} \cup {seq[n + 1]}
      <4>1. 1..Len(s) = (1..k) \cup {k + 1}
        BY <2>4, <3>1
      <4>. HIDE DEF s, k
      <4>. QED  BY <3>1, <4>1
    <3>3. {s[i] : i \in 1..Len(s)} = Members(n + 1) \cap keep
      BY <2>1, <2>3, <2>6, <3>2
    <3>4. ASSUME IsInjective(seq), NEW i \in 1..Len(s), NEW j \in 1..Len(s), s[i] = s[j]
          PROVE  i = j
      <4>1. seq[n + 1] \notin Members(n)
        <5>1. \A m \in 1..n : m \in DOMAIN seq /\ m # n + 1
          BY <1>1, <2>1, LenProperties
        <5>2. n + 1 \in DOMAIN seq
          BY <1>1, <2>1, LenProperties
        <5>. QED  BY <3>4, <5>1, <5>2 DEF IsInjective
      <4>2. \A m \in 1..k : s[m] \in Members(n)
        BY <2>1, <3>1
      <4>. HIDE DEF Members, s
      <4>3. CASE i = k + 1 \/ j = k + 1
        BY <2>4, <3>1, <3>4, <4>1, <4>2, <4>3
      <4>4. CASE i # k + 1 /\ j # k + 1
        BY <2>1, <2>4, <3>1, <3>4, <4>4, SMTT(30)
      <4>. QED  BY <4>3, <4>4
    <3>. HIDE DEF s, Members
    <3>. QED  BY <2>1, <2>4, <3>1, <3>3, <3>4 DEF s
  <2>. QED  BY <2>5, <2>6
<1>7. Good(L)
  <2>. HIDE DEF Good
  <2>1. P = Nat
    <3>. HIDE DEF P
    <3>. QED  BY <1>5, <1>6, InductiveSet DEF P
  <2>. QED  BY <1>1, <2>1
<1>8. Range(seq) = Members(L)
  BY <1>1, LenProperties DEF Range
<1>9. Range(it[L]) = {it[L][i] : i \in 1..Len(it[L])} /\ DOMAIN it[L] = 1..Len(it[L])
  BY <1>7, LenProperties DEF Range
<1>. QED  BY <1>3, <1>7, <1>8, <1>9 DEF IsInjective

-----------------------------------------------------------------------------
(***************************************************************************)
(* The inductive invariant, part by part.                                  *)
(***************************************************************************)
BeforeLlm == {"pooled", "skills", "closing", "collapsing", "preflight"}
InLlm == {"entering", "sweeping", "calling", "capped", "settling"}
AfterLlm == {"combining", "draining", "finishing", "returning", "ended"}
Finals == {"returning", "ended"}

\* The counters that the types alone do not bound.
Counted ==
    /\ validator.updates <= validator.sent
    /\ pc = "calling" => sweep.batch < Batches

\* The LLM phase: what the sweep has is there only once something answered,
\* and what degraded the run is what it has nothing of.
Lost == asked # <<>> /\ "answered" \notin Range(asked)

PhaseInv ==
    /\ pc \in BeforeLlm \cup {"entering"} => asked = <<>> /\ ~sweep.error /\ ~degraded
    /\ pc \in InLlm => WantsLlm
    /\ degraded => WantsLlm /\ sweep.found = <<>> /\ pc \in AfterLlm \cup {"settling"}
    /\ "answered" \notin Range(asked) => sweep.found = <<>>
    /\ Lost => degraded \/ (sweep.error /\ pc \in InLlm)

\* The LLM ledger balances until a raise withholds it.
LedgerInv == tally.available => tally.emitted = tally.collapsed + Len(sweep.found)

\* The stream: findings and updates, then its end.
Plain(n) == \A i \in 1..n : stream[i].kind \in {"finding", "update"}
Closed(n) ==
    \/ n >= 2 /\ IsResult(stream[n - 1]) /\ stream[n] = Finished /\ Plain(n - 2)
    \/ n >= 1 /\ stream[n] = Error /\ Plain(n - 1)

ShapeInv ==
    /\ pc \notin Finals => Plain(Len(stream))
    /\ pc = "returning" => Closed(Len(stream))
    /\ pc = "ended" => Len(stream) >= 1 /\ stream[Len(stream)] = Done /\ Closed(Len(stream) - 1)

\* The client: it is still reading before the end, and has read up to its end.
ClientInv ==
    /\ client = "reading" => \A i \in 1..read : stream[i].kind \notin {"error", "done"}
    /\ client = "ended" =>
         /\ read >= 1 /\ stream[read].kind = "done"
         /\ \A i \in 1..(read - 1) : stream[i].kind # "error"
    /\ client = "failed" => read >= 1 /\ stream[read].kind = "error"

\* A result in the stream is the run's: nothing it was made of changes after it.
ResultInv == \A i \in 1..Len(stream) : IsResult(stream[i]) => stream[i] = Result

\* The rows: every row of every skill that was told and ended well, once; after
\* the collapse, those of them that generalise none of the others.
Reported == {row \in SkillRows : row[1] \in told /\ skill[row[1]] = "ok"}
Kept == {row \in Reported : \A s \in Reported : <<row, s>> \notin Covers}

RowsInv ==
    /\ \A s \in told : skill[s] \in {"ok", "failed"}
    /\ pc = "pooled" => told = {}
    /\ IsInjective(rows)
    /\ pc \in BeforeLlm \ {"preflight"} => Range(rows) = Reported
    /\ pc \notin BeforeLlm \ {"preflight"} /\ (pc \in Finals => Results # {}) => Range(rows) = Kept

\* The ids: what was streamed is what was reported and, once it is settled, what
\* the sweep kept, each id once.
LlmIds == {LlmId(i - 1) : i \in DOMAIN sweep.found}
IdsInv ==
    /\ Streamed = {SkillId(row) : row \in Reported} \cup (IF pc \in AfterLlm THEN LlmIds ELSE {})
    /\ \A i, j \in Put("finding") : stream[i].id = stream[j].id => i = j

Parts == Counted /\ PhaseInv /\ LedgerInv /\ ShapeInv /\ ClientInv /\ ResultInv /\ RowsInv /\ IdsInv
IInv == TypeOK /\ Parts

-----------------------------------------------------------------------------
(***************************************************************************)
(* Rows, ids and answers.                                                  *)
(***************************************************************************)
LEMMA Arity == Ordinals = 1..Len(Skills) /\ Width = Len(Skills) + 1 /\ Width \in Nat \ {0}
BY SkillsAssumption DEF Ordinals, Width

LEMMA RowTypes ==
    /\ \A row : row \in SkillRows <=>
         \E s \in Ordinals : \E p \in 0..(Rows[s] - 1) : row = <<s, p>>
    /\ \A row \in SkillRows : row[1] \in Ordinals /\ row[2] \in Nat /\ row = <<row[1], row[2]>>
<1>1. \A row : row \in SkillRows <=>
         \E s \in Ordinals : \E p \in 0..(Rows[s] - 1) : row = <<s, p>>
  BY DEF SkillRows
<1>2. ASSUME NEW row \in SkillRows
      PROVE  row[1] \in Ordinals /\ row[2] \in Nat /\ row = <<row[1], row[2]>>
  <2>1. PICK s \in Ordinals : \E p \in 0..(Rows[s] - 1) : row = <<s, p>>
    BY <1>1
  <2>2. Rows[s] \in Nat
    BY RowsAssumption
  <2>. QED  BY <2>1, <2>2
<1>. QED  BY <1>1, <1>2

\* Two places of the slot table never get one id: the tier's own column keeps
\* the model's rows apart from every skill's.
LEMMA SlotsApart ==
    ASSUME NEW o \in 1..Width, NEW p \in Nat, NEW q \in 1..Width, NEW r \in Nat
    PROVE  /\ SlotOf(o, p) \in Nat
           /\ SlotOf(o, p) = SlotOf(q, r) => o = q /\ p = r
<1>. DEFINE W == Width
<1>1. W \in Nat /\ o \in 1..W /\ q \in 1..W
  BY Arity
<1>2. SlotOf(o, p) = p * W + o - 1 /\ SlotOf(q, r) = r * W + q - 1
  BY DEF SlotOf
<1>. HIDE DEF W
<1>3. p * W \in Nat /\ r * W \in Nat
  BY <1>1
<1>4. CASE p = r
  BY <1>1, <1>2, <1>3, <1>4
<1>5. ASSUME NEW a \in Nat, NEW b \in Nat, a < b
      PROVE  a * W + W <= b * W
  <2>1. PICK c \in Nat : b = a + 1 + c
    <3>1. b - a - 1 \in Nat /\ b = a + 1 + (b - a - 1)
      BY <1>5
    <3>. QED  BY <3>1
  <2>2. b * W = a * W + W + c * W
    BY <1>1, <2>1
  <2>3. c * W \in Nat /\ a * W \in Nat
    BY <1>1
  <2>. QED  BY <1>1, <2>2, <2>3
<1>6. CASE p < r
  BY <1>1, <1>2, <1>3, <1>5, <1>6
<1>7. CASE r < p
  BY <1>1, <1>2, <1>3, <1>5, <1>7
<1>. QED  BY <1>4, <1>6, <1>7

LEMMA IdsApart ==
    /\ \A row \in SkillRows : SkillId(row) \in Nat
    /\ \A row, other \in SkillRows : SkillId(row) = SkillId(other) => row = other
    /\ \A p \in Nat : LlmId(p) \in Nat
    /\ \A p, r \in Nat : LlmId(p) = LlmId(r) => p = r
    /\ \A row \in SkillRows, p \in Nat : SkillId(row) # LlmId(p)
<1>1. Ordinals \subseteq 1..Width /\ Width \in 1..Width /\ Width \notin Ordinals
  BY Arity, SkillsAssumption
<1>2. ASSUME NEW row \in SkillRows
      PROVE  SkillId(row) = SlotOf(row[1], row[2]) /\ row[1] \in 1..Width /\ row[2] \in Nat
  BY <1>1, RowTypes DEF SkillId
<1>3. \A p : LlmId(p) = SlotOf(Width, p)
  BY DEF LlmId
<1>4. ASSUME NEW row \in SkillRows, NEW other \in SkillRows, SkillId(row) = SkillId(other)
      PROVE  row = other
  <2>1. row[1] = other[1] /\ row[2] = other[2]
    BY <1>2, <1>4, SlotsApart
  <2>. QED  BY <2>1, RowTypes
<1>5. ASSUME NEW row \in SkillRows, NEW p \in Nat PROVE SkillId(row) # LlmId(p)
  <2>1. row[1] # Width
    BY <1>1, RowTypes
  <2>. QED  BY <1>1, <1>2, <1>3, <2>1, SlotsApart
<1>6. \A row \in SkillRows : SkillId(row) \in Nat
  BY <1>2, SlotsApart
<1>7. \A p, r \in Nat : LlmId(p) \in Nat /\ (LlmId(p) = LlmId(r) => p = r)
  BY <1>1, <1>3, SlotsApart
<1>. QED  BY <1>4, <1>5, <1>6, <1>7

\* The rows a skill's report brings.
LEMMA RowsOfSkill ==
    ASSUME NEW s \in Ordinals
    PROVE  /\ RowsOf(s) \in Seq(SkillRows) /\ IsInjective(RowsOf(s))
           /\ Range(RowsOf(s)) = {row \in SkillRows : row[1] = s}
<1>1. Rows[s] \in Nat
  BY RowsAssumption
<1>2. /\ RowsOf(s) = [p \in 1..Rows[s] |-> <<s, p - 1>>]
      /\ \A p \in 1..Rows[s] : <<s, p - 1>> \in SkillRows
  BY <1>1, RowTypes DEF RowsOf
<1>3. RowsOf(s) \in Seq(SkillRows) /\ IsInjective(RowsOf(s))
  <2>1. RowsOf(s) \in [1..Rows[s] -> SkillRows]
    BY <1>2
  <2>2. \A a, b \in 1..Rows[s] : RowsOf(s)[a] = RowsOf(s)[b] => a = b
    BY <1>1, <1>2
  <2>. QED  BY <1>1, <2>1, <2>2 DEF IsInjective
<1>4. ASSUME NEW row \in SkillRows, row[1] = s PROVE row \in Range(RowsOf(s))
  <2>1. PICK p \in 0..(Rows[s] - 1) : row = <<s, p>>
    BY <1>4, RowTypes
  <2>2. p + 1 \in 1..Rows[s] /\ RowsOf(s)[p + 1] = row
    BY <1>1, <1>2, <2>1
  <2>. QED  BY <1>2, <2>2 DEF Range
<1>5. Range(RowsOf(s)) \subseteq {row \in SkillRows : row[1] = s}
  BY <1>2 DEF Range
<1>. QED  BY <1>3, <1>4, <1>5

\* What the model found, in some order.
LEMMA AnswerIsSeq ==
    ASSUME NEW found \in SUBSET LlmKeys
    PROVE  SetToSeq(found) \in Seq(LlmKeys)
<1>1. IsFiniteSet(found)
  BY LlmKeysAssumption, FS_Subset
<1>2. PICK n \in Nat : ExistsBijection(1..n, found)
  BY <1>1, FS_NatBijection
<1>3. Cardinality(found) = n
  BY <1>1, <1>2, FS_CountingElements
<1>4. \E f \in [1..n -> found] : IsInjective(f)
  BY <1>2 DEF ExistsBijection, Bijection, Injection
<1>5. SetToSeq(found) \in [1..n -> found]
  BY <1>3, <1>4 DEF SetToSeq
<1>. QED  BY <1>5

-----------------------------------------------------------------------------
(***************************************************************************)
(* What the steps with arithmetic or sequences in them do.                 *)
(***************************************************************************)

\* A call ends with n findings, of which `new` are not there yet.
CallEnds(n, new, error) ==
    /\ pc = "calling" /\ pc' = "capped"
    /\ n \in Nat /\ new \in Seq(LlmKeys) /\ error \in BOOLEAN
    /\ Len(new) <= n /\ (error => new = <<>>)
    /\ sweep' = [batch |-> sweep.batch + 1,
                 failures |-> IF error THEN sweep.failures + 1 ELSE 0,
                 error |-> sweep.error \/ error,
                 found |-> sweep.found \o new]
    /\ tally' = [tally EXCEPT !.emitted = @ + n, !.collapsed = @ + n - Len(new)]
    /\ asked' = Append(asked, IF error THEN "error" ELSE "answered")
    /\ late' = late + (IF Stopped THEN 1 ELSE 0)
    /\ UNCHANGED <<skill, told, rows, call, degraded, validator, streamVars, expired>>

LEMMA CallStep ==
    ASSUME TypeOK, CallAnswers \/ CallErrs
    PROVE  \E n, new, error : CallEnds(n, new, error)
<1>1. PICK findings \in Seq(LlmKeys), error \in BOOLEAN :
        pc = "calling" /\ (error => findings = <<>>) /\ BatchEnds(findings, error)
  <2>1. CASE CallAnswers
    <3>1. PICK found \in SUBSET LlmKeys : pc = "calling" /\ BatchEnds(SetToSeq(found), FALSE)
      BY <2>1 DEF CallAnswers
    <3>. QED  BY <3>1, AnswerIsSeq, Zenon
  <2>2. CASE CallErrs
    <3>1. pc = "calling" /\ BatchEnds(<<>>, TRUE) /\ <<>> \in Seq(LlmKeys)
      BY <2>2, EmptySeq DEF CallErrs
    <3>. QED  BY <3>1, Zenon
  <2>. QED  BY <2>1, <2>2
<1>. DEFINE new == Only(findings, LlmKeys \ ({KeyOf[r] : r \in Range(rows)} \cup Range(sweep.found)))
            n == Len(findings)
<1>2. n \in Nat /\ new \in Seq(LlmKeys) /\ Len(new) \in Nat /\ Len(new) <= n
  BY OnlyProperties, LenProperties
<1>3. error => new = <<>>
  <2>1. error => n = 0
    BY <1>1
  <2>. HIDE DEF new, n
  <2>. QED  BY <1>2, <2>1, EmptySeq
<1>4. /\ sweep' = [batch |-> sweep.batch + 1,
                   failures |-> IF error THEN sweep.failures + 1 ELSE 0,
                   error |-> sweep.error \/ error,
                   found |-> sweep.found \o new]
      /\ tally' = [tally EXCEPT !.emitted = @ + n, !.collapsed = @ + n - Len(new)]
      /\ asked' = Append(asked, IF error THEN "error" ELSE "answered")
      /\ late' = late + (IF Stopped THEN 1 ELSE 0)
      /\ pc' = "capped"
      /\ UNCHANGED <<skill, told, rows, call, degraded, validator, streamVars, expired>>
  BY <1>1, Zenon DEF BatchEnds, Goto
<1>. HIDE DEF new, n
<1>5. CallEnds(n, new, error)
  BY <1>1, <1>2, <1>3, <1>4 DEF CallEnds
<1>. QED  BY <1>5

\* The sweep is settled: `new` of what it found is not a skill's.
Settles(new) ==
    /\ pc = "settling" /\ pc' = "combining"
    /\ new \in Seq(LlmKeys) /\ Len(new) <= Len(sweep.found)
    /\ sweep' = [sweep EXCEPT !.found = new]
    /\ tally' = [tally EXCEPT !.collapsed = @ + Len(sweep.found) - Len(new)]
    /\ degraded' = (degraded \/ (sweep.error /\ sweep.found = <<>>))
    /\ Emits([i \in DOMAIN new |-> Finding(LlmId(i - 1))])
    /\ UNCHANGED <<skill, told, rows, call, asked, late, validator, read, client, cancelled, expired>>

LEMMA SettleStep ==
    ASSUME TypeOK, Settle
    PROVE  \E new : Settles(new)
<1>. DEFINE new == Only(sweep.found, LlmKeys \ {KeyOf[r] : r \in Range(rows)})
<1>1. sweep.found \in Seq(LlmKeys)
  BY DEF TypeOK
<1>2. new \in Seq(LlmKeys) /\ Len(new) <= Len(sweep.found)
  BY <1>1, OnlyProperties
<1>3. /\ pc = "settling" /\ pc' = "combining"
      /\ sweep' = [sweep EXCEPT !.found = new]
      /\ tally' = [tally EXCEPT !.collapsed = @ + Len(sweep.found) - Len(new)]
      /\ degraded' = (degraded \/ (sweep.error /\ sweep.found = <<>>))
      /\ Emits([i \in DOMAIN new |-> Finding(LlmId(i - 1))])
      /\ UNCHANGED <<skill, told, rows, call, asked, late, validator, read, client, cancelled, expired>>
  BY Zenon DEF Settle, Goto
<1>. HIDE DEF new
<1>4. Settles(new)
  BY <1>2, <1>3 DEF Settles
<1>. QED  BY <1>4

LEMMA Joined ==
    ASSUME NEW S, NEW s \in Seq(S), NEW t \in Seq(S)
    PROVE  /\ s \o t \in Seq(S) /\ Len(s) \in Nat /\ Len(t) \in Nat
           /\ Len(s \o t) = Len(s) + Len(t)
           /\ \A i \in 1..Len(s) : (s \o t)[i] = s[i]
           /\ \A i \in 1..Len(t) : (s \o t)[Len(s) + i] = t[i]
BY ConcatProperties, LenProperties

LEMMA JoinedRange ==
    ASSUME NEW S, NEW s \in Seq(S), NEW t \in Seq(S)
    PROVE  /\ Range(s \o t) = Range(s) \cup Range(t)
           /\ IsInjective(s) /\ IsInjective(t) /\ Range(s) \cap Range(t) = {} => IsInjective(s \o t)
<1>. DEFINE m == Len(s)
            n == Len(t)
            r == s \o t
<1>1. /\ m \in Nat /\ n \in Nat /\ DOMAIN s = 1..m /\ DOMAIN t = 1..n /\ DOMAIN r = 1..(m + n)
      /\ \A i \in 1..m : r[i] = s[i]
      /\ \A i \in 1..n : r[m + i] = t[i]
  BY Joined, LenProperties
<1>. HIDE DEF m, n, r
<1>2. ASSUME NEW i \in 1..(m + n), i \notin 1..m
      PROVE  i - m \in 1..n /\ r[i] = t[i - m]
  <2>1. i - m \in 1..n /\ m + (i - m) = i
    BY <1>1, <1>2
  <2>. QED  BY <1>1, <2>1
<1>3. \A i \in 1..n : m + i \in 1..(m + n)
  BY <1>1
<1>4. Range(r) \subseteq Range(s) \cup Range(t)
  BY <1>1, <1>2 DEF Range
<1>5. Range(s) \subseteq Range(r) /\ Range(t) \subseteq Range(r)
  <2>1. \A i \in 1..m : i \in 1..(m + n)
    BY <1>1
  <2>. QED  BY <1>1, <1>3, <2>1 DEF Range
<1>6. ASSUME IsInjective(s), IsInjective(t), Range(s) \cap Range(t) = {},
             NEW i \in 1..(m + n), NEW j \in 1..(m + n), r[i] = r[j]
      PROVE  i = j
  <2>1. CASE i \in 1..m /\ j \in 1..m
    BY <1>1, <1>6, <2>1 DEF IsInjective
  <2>2. CASE i \notin 1..m /\ j \notin 1..m
    <3>1. i - m \in DOMAIN t /\ j - m \in DOMAIN t /\ t[i - m] = t[j - m]
      BY <1>1, <1>2, <1>6, <2>2
    <3>2. i - m = j - m
      BY <1>6, <3>1 DEF IsInjective
    <3>. QED  BY <1>1, <3>2
  <2>3. \A a \in 1..m : \A b \in 1..(m + n) : b \notin 1..m => r[a] # r[b]
    BY <1>1, <1>2, <1>6 DEF Range
  <2>. QED  BY <1>6, <2>1, <2>2, <2>3
<1>. QED  BY <1>1, <1>4, <1>5, <1>6 DEF IsInjective, r

\* Emitting appends to the stream.
LEMMA EmitsAppends ==
    ASSUME stream \in Seq(Items), NEW items \in Seq(Items), Emits(items)
    PROVE  /\ stream' \in Seq(Items) /\ Len(stream) \in Nat /\ Len(items) \in Nat
           /\ Len(stream') = Len(stream) + Len(items)
           /\ \A i \in 1..Len(stream) : stream'[i] = stream[i]
           /\ \A i \in 1..Len(items) : stream'[Len(stream) + i] = items[i]
BY Joined DEF Emits

LEMMA EmitsOne ==
    ASSUME stream \in Seq(Items), NEW x \in Items, Emits(<<x>>)
    PROVE  /\ Len(stream) \in Nat /\ Len(stream') = Len(stream) + 1
           /\ \A i \in 1..Len(stream) : stream'[i] = stream[i]
           /\ stream'[Len(stream) + 1] = x
<1>1. stream' = Append(stream, x)
  BY DEF Emits
<1>. QED  BY <1>1, AppendProperties, LenProperties

LEMMA EmitsTwo ==
    ASSUME stream \in Seq(Items), NEW x \in Items, NEW y \in Items, Emits(<<x, y>>)
    PROVE  /\ Len(stream) \in Nat /\ Len(stream') = Len(stream) + 2
           /\ \A i \in 1..Len(stream) : stream'[i] = stream[i]
           /\ stream'[Len(stream) + 1] = x /\ stream'[Len(stream) + 2] = y
<1>1. <<x, y>> \in Seq(Items) /\ Len(<<x, y>>) = 2 /\ <<x, y>>[1] = x /\ <<x, y>>[2] = y
  OBVIOUS
<1>2. PICK items \in Seq(Items) : items = <<x, y>>
  BY <1>1
<1>3. /\ Len(stream) \in Nat /\ Len(stream') = Len(stream) + Len(items)
      /\ \A i \in 1..Len(stream) : stream'[i] = stream[i]
      /\ \A i \in 1..Len(items) : stream'[Len(stream) + i] = items[i]
  BY <1>2, EmitsAppends
<1>4. 1 \in 1..Len(items) /\ 2 \in 1..Len(items)
  BY <1>1, <1>2
<1>. QED  BY <1>1, <1>2, <1>3, <1>4

LEMMA ItemKinds ==
    /\ Update \in Items /\ Update.kind = "update"
    /\ Finished \in Items /\ Finished.kind = "finished"
    /\ Error \in Items /\ Error.kind = "error"
    /\ Done \in Items /\ Done.kind = "done"
    /\ \A id \in Nat : Finding(id) \in Items /\ Finding(id).kind = "finding" /\ Finding(id).id = id
    /\ \A item \in Items : /\ item.kind = "finding" => item.id \in Nat
                           /\ item.kind = "done" => item = Done
                           /\ item.kind = "error" => item = Error
                           /\ item.kind = "finished" => item = Finished
BY DEF Items, Update, Finished, Error, Done, Finding

\* Findings emitted under new ids extend what was streamed by these ids.
LEMMA FindingsAppend ==
    ASSUME stream \in Seq(Items), NEW ids \in Seq(Nat), IsInjective(ids),
           Emits([i \in DOMAIN ids |-> Finding(ids[i])]),
           Range(ids) \cap Streamed = {},
           \A i, j \in Put("finding") : stream[i].id = stream[j].id => i = j
    PROVE  /\ Streamed' = Streamed \cup Range(ids)
           /\ (\A i, j \in Put("finding") : stream[i].id = stream[j].id => i = j)'
           /\ \A i \in (Len(stream) + 1)..Len(stream') : stream'[i].kind = "finding"
<1>. DEFINE L == Len(stream)
            n == Len(ids)
            items == [i \in DOMAIN ids |-> Finding(ids[i])]
<1>1. n \in Nat /\ DOMAIN ids = 1..n /\ \A i \in 1..n : ids[i] \in Nat
  BY LenProperties, ElementOfSeq
<1>2. items \in Seq(Items) /\ Len(items) = n /\ \A i \in 1..n : items[i] = Finding(ids[i])
  BY <1>1, ItemKinds
<1>3. /\ stream' \in Seq(Items) /\ L \in Nat /\ Len(stream') = L + n
      /\ \A i \in 1..L : stream'[i] = stream[i]
      /\ \A i \in 1..n : stream'[L + i] = Finding(ids[i])
  BY <1>2, EmitsAppends
<1>4. DOMAIN stream = 1..L /\ DOMAIN stream' = 1..(L + n)
  BY <1>3, LenProperties
<1>. HIDE DEF L, n, items
<1>5. \A i \in (L + 1)..(L + n) : i - L \in 1..n /\ stream'[i] = Finding(ids[i - L])
  <2>. SUFFICES ASSUME NEW i \in (L + 1)..(L + n)
                PROVE  i - L \in 1..n /\ stream'[i] = Finding(ids[i - L])
    OBVIOUS
  <2>1. i - L \in 1..n /\ L + (i - L) = i
    BY <1>1, <1>3
  <2>. QED  BY <1>3, <2>1
<1>6. \A i \in (L + 1)..(L + n) : stream'[i].kind = "finding" /\ stream'[i].id = ids[i - L]
  BY <1>1, <1>5, ItemKinds
<1>7. 1..(L + n) = (1..L) \cup ((L + 1)..(L + n)) /\ (1..L) \cap ((L + 1)..(L + n)) = {}
  BY <1>1, <1>3
<1>8. Put("finding")' = Put("finding") \cup ((L + 1)..(L + n))
  BY <1>3, <1>4, <1>6, <1>7 DEF Put
<1>9. Range(ids) = {stream'[i].id : i \in (L + 1)..(L + n)}
  <2>1. ASSUME NEW i \in 1..n PROVE L + i \in (L + 1)..(L + n) /\ stream'[L + i].id = ids[i]
    BY <1>1, <1>3, ItemKinds
  <2>2. Range(ids) \subseteq {stream'[i].id : i \in (L + 1)..(L + n)}
    BY <1>1, <2>1 DEF Range
  <2>3. \A i \in (L + 1)..(L + n) : stream'[i].id \in Range(ids)
    BY <1>1, <1>5, <1>6 DEF Range
  <2>. QED  BY <2>2, <2>3
<1>10. \A i \in Put("finding") : i \in 1..L /\ stream'[i] = stream[i] /\ stream[i].id \in Streamed
  BY <1>3, <1>4 DEF Put, Streamed
<1>11. Streamed' = Streamed \cup Range(ids)
  <2>1. Streamed = {stream'[i].id : i \in Put("finding")}
    BY <1>10 DEF Streamed
  <2>2. Streamed' = {stream'[i].id : i \in Put("finding") \cup ((L + 1)..(L + n))}
    BY <1>8 DEF Streamed
  <2>. QED  BY <1>9, <2>1, <2>2
<1>12. ASSUME NEW i \in Put("finding")', NEW j \in Put("finding")', stream'[i].id = stream'[j].id
       PROVE  i = j
  <2>1. CASE i \in Put("finding") /\ j \in Put("finding")
    BY <1>10, <1>12, <2>1
  <2>2. CASE i \in (L + 1)..(L + n) /\ j \in (L + 1)..(L + n)
    <3>1. ids[i - L] = ids[j - L] /\ i - L \in DOMAIN ids /\ j - L \in DOMAIN ids
      BY <1>1, <1>5, <1>6, <1>12, <2>2
    <3>2. i - L = j - L
      BY <3>1 DEF IsInjective
    <3>. QED  BY <1>1, <1>3, <2>2, <3>2
  <2>3. \A a \in Put("finding"), b \in (L + 1)..(L + n) : stream'[a].id # stream'[b].id
    BY <1>9, <1>10
  <2>. QED  BY <1>8, <1>12, <2>1, <2>2, <2>3
<1>. QED  BY <1>3, <1>6, <1>11, <1>12 DEF L

\* Other items leave what was streamed as it is.
LEMMA OthersAppend ==
    ASSUME stream \in Seq(Items), NEW items \in Seq(Items), Emits(items),
           \A i \in 1..Len(items) : items[i].kind # "finding"
    PROVE  /\ Put("finding")' = Put("finding") /\ Streamed' = Streamed
           /\ \A i \in Put("finding") : stream'[i] = stream[i]
<1>1. /\ DOMAIN stream = 1..Len(stream) /\ DOMAIN stream' = 1..(Len(stream) + Len(items))
      /\ Len(stream) \in Nat /\ Len(items) \in Nat
      /\ \A i \in 1..Len(stream) : stream'[i] = stream[i]
      /\ \A i \in 1..Len(items) : stream'[Len(stream) + i] = items[i]
  BY EmitsAppends, LenProperties
<1>2. ASSUME NEW i \in 1..(Len(stream) + Len(items)), i \notin 1..Len(stream)
      PROVE  stream'[i].kind # "finding"
  <2>1. i - Len(stream) \in 1..Len(items) /\ Len(stream) + (i - Len(stream)) = i
    BY <1>1, <1>2
  <2>. QED  BY <1>1, <2>1
<1>3. Put("finding")' = Put("finding")
  BY <1>1, <1>2 DEF Put
<1>4. \A i \in Put("finding") : stream'[i] = stream[i]
  BY <1>1 DEF Put
<1>. QED  BY <1>3, <1>4 DEF Streamed

-----------------------------------------------------------------------------
(***************************************************************************)
(* Which steps change what.                                                *)
(***************************************************************************)
Calls == CallAnswers \/ CallErrs
Reports == \E s \in Ordinals : Report(s)

\* The ways through the phases, but for the ends (Finish, Raise, Produced).
Flow ==
    {<<"pooled", "skills">>, <<"skills", "closing">>, <<"closing", "collapsing">>,
     <<"collapsing", "preflight">>, <<"preflight", "entering">>, <<"preflight", "combining">>,
     <<"entering", "combining">>, <<"entering", "sweeping">>, <<"sweeping", "settling">>,
     <<"sweeping", "calling">>, <<"calling", "capped">>, <<"calling", "settling">>,
     <<"capped", "settling">>, <<"capped", "sweeping">>, <<"settling", "combining">>,
     <<"combining", "draining">>, <<"draining", "finishing">>}

Frames ==
    /\ UNCHANGED <<tally, sweep>> \/ Calls \/ PhaseRaises \/ Settle
    /\ UNCHANGED <<asked, late>> \/ Calls
    /\ UNCHANGED degraded \/ Preflight \/ PhaseRaises \/ Settle
    /\ UNCHANGED call \/ NextBatch \/ CallRetries \/ CallHalves
    /\ UNCHANGED stream \/ Reports \/ Settle \/ Drain \/ Finish \/ Raise \/ Produced
    /\ UNCHANGED rows \/ Reports \/ Collapse
    /\ UNCHANGED told \/ Reports
    /\ UNCHANGED skill \/ SkillThreads \/ CloseSkills
    /\ UNCHANGED <<read, client, cancelled>> \/ Reads \/ Disconnect
    /\ UNCHANGED expired \/ Expire
    /\ UNCHANGED validator \/ Validate \/ JudgeUpdates \/ ValidatorEnds \/ Drain
    /\ UNCHANGED pc \/ <<pc, pc'>> \in Flow \/ Finish \/ Raise \/ Produced
    \* The phases that skip the rows' and the sweep's part of the way.
    /\ pc' = "preflight" /\ pc # "preflight" => Collapse
    /\ pc' = "combining" /\ pc \in InLlm => Settle \/ EnterLlm
    /\ pc' = "calling" /\ pc # "calling" => NextBatch
    /\ pc = "preflight" /\ pc' # pc => Preflight

LEMMA StepFrames ==
    ASSUME [Next]_vars
    PROVE  Frames
<1>. USE DEF Frames, Calls, Reports, Flow, InLlm, Goto, llmVars, streamVars
<1>1. CASE Begin \/ LeaveSkills \/ Expire \/ Over \/ UNCHANGED vars
  BY <1>1 DEF Begin, LeaveSkills, Expire, Over, vars
<1>2. CASE Reports
  BY <1>2 DEF Report
<1>3. CASE CloseSkills
  BY <1>3 DEF CloseSkills
<1>4. CASE Collapse
  BY <1>4 DEF Collapse
<1>5. CASE Preflight
  BY <1>5 DEF Preflight
<1>6. CASE EnterLlm \/ Cap
  BY <1>6 DEF EnterLlm, Cap
<1>7. CASE NextBatch
  BY <1>7 DEF NextBatch
<1>8. CASE Calls
  BY <1>8 DEF CallAnswers, CallErrs, BatchEnds
<1>9. CASE CallRetries
  BY <1>9 DEF CallRetries
<1>10. CASE CallHalves
  BY <1>10 DEF CallHalves
<1>11. CASE PhaseRaises
  BY <1>11 DEF PhaseRaises
<1>12. CASE Settle
  BY <1>12 DEF Settle
<1>13. CASE Validate \/ Drained
  BY <1>13 DEF Validate, Drained
<1>14. CASE Drain
  BY <1>14 DEF Drain
<1>15. CASE Finish \/ Raise \/ Produced
  BY <1>15 DEF Finish, Raise, Produced
<1>16. CASE SkillThreads
  BY <1>16 DEF SkillThreads, SkillStarts, SkillEnds
<1>17. CASE JudgeUpdates \/ ValidatorEnds
  BY <1>17 DEF JudgeUpdates, ValidatorEnds
<1>18. CASE Reads
  BY <1>18 DEF Reads, Ends
<1>19. CASE Disconnect
  BY <1>19 DEF Disconnect, Ends
<1>. QED
  BY <1>1, <1>2, <1>3, <1>4, <1>5, <1>6, <1>7, <1>8, <1>9, <1>10, <1>11, <1>12, <1>13, <1>14,
     <1>15, <1>16, <1>17, <1>18, <1>19 DEF Next, Generator

-----------------------------------------------------------------------------
(***************************************************************************)
(* What is emitted.                                                        *)
(***************************************************************************)
\* The ids of the result: those of the rows, then the sweep's.
LEMMA ResultIdsAre ==
    ASSUME TypeOK, IsInjective(rows)
    PROVE  /\ ResultIds \in Seq(Nat) /\ IsInjective(ResultIds)
           /\ Range(ResultIds) = {SkillId(row) : row \in Range(rows)} \cup LlmIds
<1>. DEFINE m == Len(rows)
            n == Len(sweep.found)
<1>1. /\ m \in Nat /\ n \in Nat /\ DOMAIN rows = 1..m /\ DOMAIN sweep.found = 1..n
      /\ \A i \in 1..m : rows[i] \in SkillRows
  BY LenProperties, ElementOfSeq DEF TypeOK
<1>2. PICK a, b : /\ a = [i \in DOMAIN rows |-> SkillId(rows[i])]
                  /\ b = [i \in DOMAIN sweep.found |-> LlmId(i - 1)]
  OBVIOUS
<1>3. /\ a \in Seq(Nat) /\ Len(a) = m /\ \A i \in 1..m : a[i] = SkillId(rows[i])
      /\ b \in Seq(Nat) /\ Len(b) = n /\ \A i \in 1..n : b[i] = LlmId(i - 1)
  <2>1. \A i \in 1..n : i - 1 \in Nat
    BY <1>1
  <2>. QED  BY <1>1, <1>2, <2>1, IdsApart
<1>4. ResultIds = a \o b
  BY <1>2 DEF ResultIds
<1>5. /\ ResultIds \in Seq(Nat) /\ DOMAIN ResultIds = 1..(m + n)
      /\ \A i \in 1..m : ResultIds[i] = SkillId(rows[i])
      /\ \A i \in 1..n : ResultIds[m + i] = LlmId(i - 1)
  <2>1. /\ a \o b \in Seq(Nat) /\ Len(a \o b) = m + n
        /\ \A i \in 1..m : (a \o b)[i] = a[i]
        /\ \A i \in 1..n : (a \o b)[m + i] = b[i]
    <3>. HIDE DEF m, n
    <3>1. /\ a \o b \in Seq(Nat) /\ Len(a \o b) = Len(a) + Len(b)
          /\ \A i \in 1..Len(a) : (a \o b)[i] = a[i]
          /\ \A i \in 1..Len(b) : (a \o b)[Len(a) + i] = b[i]
      <4>1. a \in Seq(Nat) /\ b \in Seq(Nat)
        BY <1>3
      <4>. QED  BY <4>1, Joined
    <3>. QED  BY <1>3, <3>1, Zenon
  <2>2. DOMAIN (a \o b) = 1..(m + n)
    BY <2>1, LenProperties
  <2>. QED  BY <1>3, <1>4, <2>1, <2>2
<1>. HIDE DEF m, n
<1>6. ASSUME NEW i \in 1..(m + n), i \notin 1..m
      PROVE  i - m \in 1..n /\ m + (i - m) = i /\ ResultIds[i] = LlmId(i - m - 1) /\ i - m - 1 \in Nat
  <2>1. i - m \in 1..n /\ m + (i - m) = i /\ i - m - 1 \in Nat
    BY <1>1, <1>6
  <2>. QED  BY <1>5, <2>1
<1>7. ASSUME NEW i \in 1..(m + n), NEW j \in 1..(m + n), ResultIds[i] = ResultIds[j]
      PROVE  i = j
  <2>1. CASE i \in 1..m /\ j \in 1..m
    <3>1. rows[i] = rows[j]
      BY <1>1, <1>5, <1>7, <2>1, IdsApart
    <3>. QED  BY <1>1, <2>1, <3>1 DEF IsInjective
  <2>2. CASE i \notin 1..m /\ j \notin 1..m
    <3>1. i - m - 1 = j - m - 1
      BY <1>6, <1>7, <2>2, IdsApart
    <3>. QED  BY <1>1, <3>1
  <2>3. CASE i \in 1..m /\ j \notin 1..m
    BY <1>1, <1>5, <1>6, <1>7, <2>3, IdsApart
  <2>4. CASE i \notin 1..m /\ j \in 1..m
    BY <1>1, <1>5, <1>6, <1>7, <2>4, IdsApart
  <2>. QED  BY <2>1, <2>2, <2>3, <2>4
<1>8. Range(ResultIds) \subseteq {SkillId(row) : row \in Range(rows)} \cup LlmIds
  <2>. SUFFICES ASSUME NEW i \in 1..(m + n)
                PROVE  ResultIds[i] \in {SkillId(row) : row \in Range(rows)} \cup LlmIds
    BY <1>5 DEF Range
  <2>1. CASE i \in 1..m
    BY <1>1, <1>5, <2>1 DEF Range
  <2>2. CASE i \notin 1..m
    BY <1>1, <1>6, <2>2 DEF LlmIds
  <2>. QED  BY <2>1, <2>2
<1>9. {SkillId(row) : row \in Range(rows)} \subseteq Range(ResultIds)
  BY <1>1, <1>5 DEF Range
<1>10. LlmIds \subseteq Range(ResultIds)
  <2>. SUFFICES ASSUME NEW i \in 1..n PROVE LlmId(i - 1) \in Range(ResultIds)
    BY <1>1 DEF LlmIds
  <2>1. m + i \in 1..(m + n)
    BY <1>1
  <2>. QED  BY <1>5, <2>1 DEF Range
<1>. QED  BY <1>5, <1>7, <1>8, <1>9, <1>10 DEF IsInjective

LEMMA ResultIsItem ==
    ASSUME TypeOK, IsInjective(rows)
    PROVE  Result \in Items /\ IsResult(Result)
<1>1. ResultIds \in Seq(Nat) /\ degraded \in BOOLEAN /\ tally \in Tallies /\ Len(sweep.found) \in Nat
  BY ResultIdsAre, LenProperties DEF TypeOK
<1>. QED  BY <1>1 DEF Result, Items, IsResult

\* The findings a report streams.
NewRows(s) == IF skill[s] = "ok" THEN RowsOf(s) ELSE <<>>
RowIds(new) == [i \in DOMAIN new |-> SkillId(new[i])]

LEMMA ReportIds ==
    ASSUME NEW s \in Ordinals
    PROVE  /\ NewRows(s) \in Seq(SkillRows) /\ IsInjective(NewRows(s))
           /\ Range(NewRows(s)) = {row \in SkillRows : row[1] = s /\ skill[s] = "ok"}
           /\ RowIds(NewRows(s)) \in Seq(Nat) /\ IsInjective(RowIds(NewRows(s)))
           /\ Range(RowIds(NewRows(s))) = {SkillId(row) : row \in Range(NewRows(s))}
<1>. DEFINE new == NewRows(s)
<1>1. new \in Seq(SkillRows) /\ IsInjective(new)
      /\ Range(new) = {row \in SkillRows : row[1] = s /\ skill[s] = "ok"}
  <2>1. CASE skill[s] = "ok"
    BY <2>1, RowsOfSkill DEF NewRows
  <2>2. CASE skill[s] # "ok"
    BY <2>2, EmptySeq DEF NewRows, IsInjective, Range
  <2>. QED  BY <2>1, <2>2
<1>. HIDE DEF new
<1>2. DOMAIN new = 1..Len(new) /\ Len(new) \in Nat /\ \A i \in 1..Len(new) : new[i] \in SkillRows
  BY <1>1, LenProperties, ElementOfSeq
<1>3. RowIds(new) \in Seq(Nat) /\ DOMAIN RowIds(new) = DOMAIN new
      /\ \A i \in DOMAIN new : RowIds(new)[i] = SkillId(new[i])
  BY <1>2, IdsApart DEF RowIds
<1>4. IsInjective(RowIds(new))
  BY <1>1, <1>2, <1>3, IdsApart DEF IsInjective
<1>5. Range(RowIds(new)) = {SkillId(row) : row \in Range(new)}
  BY <1>3 DEF Range
<1>. QED  BY <1>1, <1>3, <1>4, <1>5 DEF new

LEMMA ReportEmits ==
    ASSUME NEW s \in Ordinals, Report(s)
    PROVE  LET ids == RowIds(NewRows(s))
           IN  /\ rows' = rows \o NewRows(s) /\ told' = told \cup {s}
               /\ Emits([i \in DOMAIN ids |-> Finding(ids[i])])
<1>1. DOMAIN RowIds(NewRows(s)) = DOMAIN NewRows(s)
  BY DEF RowIds
<1>. QED  BY <1>1, Zenon DEF Report, NewRows, RowIds

\* The findings of the settled sweep.
SweepIds(new) == [i \in DOMAIN new |-> LlmId(i - 1)]

LEMMA SettleIds ==
    ASSUME NEW new \in Seq(LlmKeys)
    PROVE  /\ SweepIds(new) \in Seq(Nat) /\ IsInjective(SweepIds(new))
           /\ DOMAIN SweepIds(new) = DOMAIN new
           /\ Range(SweepIds(new)) = {LlmId(i - 1) : i \in DOMAIN new}
<1>1. DOMAIN new = 1..Len(new) /\ Len(new) \in Nat /\ \A i \in 1..Len(new) : i - 1 \in Nat
  BY LenProperties
<1>2. SweepIds(new) \in Seq(Nat) /\ DOMAIN SweepIds(new) = 1..Len(new)
      /\ \A i \in 1..Len(new) : SweepIds(new)[i] = LlmId(i - 1)
  BY <1>1, IdsApart DEF SweepIds
<1>3. \A i, j \in 1..Len(new) : LlmId(i - 1) = LlmId(j - 1) => i = j
  <2>. SUFFICES ASSUME NEW i \in 1..Len(new), NEW j \in 1..Len(new), LlmId(i - 1) = LlmId(j - 1)
                PROVE  i = j
    OBVIOUS
  <2>1. i - 1 = j - 1
    BY <1>1, IdsApart
  <2>. QED  BY <1>1, <2>1
<1>4. Range(SweepIds(new)) = {LlmId(i - 1) : i \in DOMAIN new}
  BY <1>1, <1>2 DEF Range
<1>. QED  BY <1>1, <1>2, <1>3, <1>4 DEF IsInjective

\* What a step writes: findings and updates before the end, then the end.
Body(items) == \A i \in 1..Len(items) : items[i].kind \in {"finding", "update"}

LEMMA Writes ==
    ASSUME TypeOK, IsInjective(rows), [Next]_vars
    PROVE  \/ UNCHANGED stream /\ (pc' = pc \/ {pc, pc'} \cap Finals = {})
           \/ \E items \in Seq(Items) : Emits(items) /\ Body(items) /\ {pc, pc'} \cap Finals = {}
           \/ Emits(<<Result, Finished>>) /\ <<Result, Finished>> \in Seq(Items) /\ Finish
           \/ Emits(<<Error>>) /\ <<Error>> \in Seq(Items) /\ Raise
           \/ Emits(<<Done>>) /\ <<Done>> \in Seq(Items) /\ Produced
<1>. USE DEF Finals
<1>1. CASE Reports
  <2>1. PICK s \in Ordinals : Report(s)
    BY <1>1 DEF Reports
  <2>. DEFINE ids == RowIds(NewRows(s))
  <2>2. ids \in Seq(Nat) /\ Emits([i \in DOMAIN ids |-> Finding(ids[i])])
    BY <2>1, ReportIds, ReportEmits
  <2>. HIDE DEF ids
  <2>3. /\ [i \in DOMAIN ids |-> Finding(ids[i])] \in Seq(Items)
        /\ Body([i \in DOMAIN ids |-> Finding(ids[i])])
    BY <2>2, ItemKinds DEF Body
  <2>4. pc = "skills" /\ pc' = pc
    BY <2>1 DEF Report
  <2>. QED  BY <2>2, <2>3, <2>4
<1>2. CASE Settle
  <2>1. PICK new : Settles(new)
    BY <1>2, SettleStep
  <2>2. Emits([i \in DOMAIN new |-> Finding(LlmId(i - 1))]) /\ new \in Seq(LlmKeys)
    BY <2>1 DEF Settles
  <2>3. DOMAIN new = 1..Len(new) /\ Len(new) \in Nat /\ \A i \in 1..Len(new) : LlmId(i - 1) \in Nat
    BY <2>2, LenProperties, IdsApart
  <2>4. /\ [i \in DOMAIN new |-> Finding(LlmId(i - 1))] \in Seq(Items)
        /\ Body([i \in DOMAIN new |-> Finding(LlmId(i - 1))])
    BY <2>3, ItemKinds DEF Body
  <2>5. pc = "settling" /\ pc' = "combining"
    BY <2>1 DEF Settles
  <2>. QED  BY <2>2, <2>4, <2>5
<1>3. CASE Drain
  <2>1. <<Update>> \in Seq(Items) /\ Body(<<Update>>)
    BY ItemKinds DEF Body
  <2>2. Emits(<<Update>>) /\ pc = "draining" /\ pc' = pc
    BY <1>3 DEF Drain
  <2>. QED  BY <2>1, <2>2
<1>4. CASE Finish
  <2>1. <<Result, Finished>> \in Seq(Items)
    BY ItemKinds, ResultIsItem
  <2>2. Emits(<<Result, Finished>>)
    BY <1>4 DEF Finish
  <2>. QED  BY <1>4, <2>1, <2>2
<1>5. CASE Raise
  <2>1. <<Error>> \in Seq(Items)
    BY ItemKinds
  <2>2. Emits(<<Error>>)
    BY <1>5 DEF Raise
  <2>. QED  BY <1>5, <2>1, <2>2
<1>6. CASE Produced
  <2>1. <<Done>> \in Seq(Items)
    BY ItemKinds
  <2>2. Emits(<<Done>>)
    BY <1>6 DEF Produced
  <2>. QED  BY <1>6, <2>1, <2>2
<1>7. CASE UNCHANGED stream /\ ~Finish /\ ~Raise /\ ~Produced
  <2>1. UNCHANGED pc \/ <<pc, pc'>> \in Flow
    BY <1>7, StepFrames DEF Frames
  <2>. QED  BY <1>7, <2>1 DEF Flow
<1>. QED  BY <1>1, <1>2, <1>3, <1>4, <1>5, <1>6, <1>7, StepFrames DEF Frames

-----------------------------------------------------------------------------
(***************************************************************************)
(* Each part of the invariant is kept.                                     *)
(***************************************************************************)
LEMMA FieldTypes ==
    ASSUME TypeOK
    PROVE  /\ sweep.batch \in 0..Batches /\ sweep.failures \in Nat /\ sweep.error \in BOOLEAN
           /\ sweep.found \in Seq(LlmKeys) /\ Len(sweep.found) \in Nat
           /\ tally = [emitted |-> tally.emitted, collapsed |-> tally.collapsed, available |-> tally.available]
           /\ tally.emitted \in Nat /\ tally.collapsed \in Nat /\ tally.available \in BOOLEAN
           /\ call.attempt \in 1..Attempts /\ call.halved \in BOOLEAN
           /\ validator = [up |-> validator.up, judging |-> validator.judging, updates |-> validator.updates,
                           sent |-> validator.sent, failed |-> validator.failed]
           /\ validator.up \in BOOLEAN /\ validator.judging \in BOOLEAN /\ validator.failed \in BOOLEAN
           /\ validator.updates \in 0..JudgeBatches /\ validator.sent \in 0..JudgeBatches
BY LenProperties DEF TypeOK, Tallies

\* What a call or the settlement does to the sweep and its ledger.
LEMMA LlmSteps ==
    ASSUME TypeOK, pc = "calling" => sweep.batch < Batches, Calls \/ PhaseRaises \/ Settle
    PROVE  /\ sweep'.batch \in 0..Batches /\ sweep'.failures \in Nat /\ sweep'.error \in BOOLEAN
           /\ sweep'.found \in Seq(LlmKeys)
           /\ sweep' = [batch |-> sweep'.batch, failures |-> sweep'.failures,
                        error |-> sweep'.error, found |-> sweep'.found]
           /\ tally' \in Tallies
           /\ tally'.available => tally.available
           /\ LedgerInv => LedgerInv'
<1>. USE BatchesAssumption
<1>1. CASE Calls
  <2>1. PICK n, new, error : CallEnds(n, new, error)
    BY <1>1, CallStep DEF Calls
  <2>2. /\ n \in Nat /\ Len(new) \in Nat /\ Len(new) <= n /\ new \in Seq(LlmKeys) /\ error \in BOOLEAN
        /\ sweep.found \in Seq(LlmKeys) /\ Len(sweep.found) \in Nat
        /\ sweep.found \o new \in Seq(LlmKeys)
        /\ Len(sweep.found \o new) = Len(sweep.found) + Len(new)
    BY <2>1, Joined DEF CallEnds, TypeOK
  <2>3. sweep.batch + 1 \in 0..Batches /\ sweep.failures + 1 \in Nat
    <3>1. sweep.batch < Batches
      BY <2>1 DEF CallEnds
    <3>. QED  BY <3>1, FieldTypes
  <2>4. /\ sweep' = [batch |-> sweep.batch + 1,
                     failures |-> IF error THEN sweep.failures + 1 ELSE 0,
                     error |-> sweep.error \/ error,
                     found |-> sweep.found \o new]
        /\ tally' = [tally EXCEPT !.emitted = @ + n, !.collapsed = @ + n - Len(new)]
    BY <2>1, Zenon DEF CallEnds
  <2>5. /\ sweep'.batch \in 0..Batches /\ sweep'.failures \in Nat /\ sweep'.error \in BOOLEAN
        /\ sweep'.found \in Seq(LlmKeys)
        /\ sweep' = [batch |-> sweep'.batch, failures |-> sweep'.failures,
                     error |-> sweep'.error, found |-> sweep'.found]
    BY <2>2, <2>3, <2>4 DEF TypeOK
  <2>6. tally' \in Tallies /\ tally'.available = tally.available
    <3>1. tally' = [emitted |-> tally.emitted + n, collapsed |-> tally.collapsed + n - Len(new),
                    available |-> tally.available]
      BY <2>4, FieldTypes
    <3>2. tally.emitted + n \in Nat /\ tally.collapsed + n - Len(new) \in Nat
      BY <2>2, FieldTypes
    <3>. QED  BY <3>1, <3>2, FieldTypes DEF Tallies
  <2>7. LedgerInv => LedgerInv'
    <3>. SUFFICES ASSUME LedgerInv, tally'.available
                  PROVE  tally'.emitted = tally'.collapsed + Len(sweep'.found)
      BY DEF LedgerInv
    <3>1. tally.emitted \in Nat /\ tally.collapsed \in Nat /\ tally.emitted = tally.collapsed + Len(sweep.found)
      BY <2>6 DEF LedgerInv, TypeOK, Tallies
    <3>2. tally'.emitted = tally.emitted + n /\ tally'.collapsed = tally.collapsed + n - Len(new)
      BY <2>4 DEF TypeOK, Tallies
    <3>3. Len(sweep'.found) = Len(sweep.found) + Len(new)
      BY <2>2, <2>4
    <3>. QED  BY <2>2, <3>1, <3>2, <3>3
  <2>. QED  BY <2>5, <2>6, <2>7
<1>2. CASE PhaseRaises
  <2>1. /\ sweep' = [sweep EXCEPT !.found = <<>>, !.error = FALSE]
        /\ tally' = [tally EXCEPT !.available = FALSE]
    BY <1>2, Zenon DEF PhaseRaises
  <2>. QED  BY <2>1, EmptySeq DEF TypeOK, Tallies, LedgerInv
<1>3. CASE Settle
  <2>1. PICK new : Settles(new)
    BY <1>3, SettleStep
  <2>2. /\ new \in Seq(LlmKeys) /\ Len(new) \in Nat /\ Len(new) <= Len(sweep.found)
        /\ Len(sweep.found) \in Nat
    BY <2>1, LenProperties DEF Settles, TypeOK
  <2>3. /\ sweep' = [sweep EXCEPT !.found = new]
        /\ tally' = [tally EXCEPT !.collapsed = @ + Len(sweep.found) - Len(new)]
    BY <2>1, Zenon DEF Settles
  <2>4. /\ sweep'.batch \in 0..Batches /\ sweep'.failures \in Nat /\ sweep'.error \in BOOLEAN
        /\ sweep'.found = new
        /\ sweep' = [batch |-> sweep'.batch, failures |-> sweep'.failures,
                     error |-> sweep'.error, found |-> sweep'.found]
    BY <2>2, <2>3 DEF TypeOK
  <2>5. tally' \in Tallies /\ tally'.available = tally.available
    <3>1. tally' = [emitted |-> tally.emitted, collapsed |-> tally.collapsed + Len(sweep.found) - Len(new),
                    available |-> tally.available]
      BY <2>3, FieldTypes
    <3>2. tally.collapsed + Len(sweep.found) - Len(new) \in Nat
      BY <2>2, FieldTypes
    <3>. QED  BY <3>1, <3>2, FieldTypes DEF Tallies
  <2>6. LedgerInv => LedgerInv'
    <3>. SUFFICES ASSUME LedgerInv, tally'.available
                  PROVE  tally'.emitted = tally'.collapsed + Len(sweep'.found)
      BY DEF LedgerInv
    <3>1. tally.emitted \in Nat /\ tally.collapsed \in Nat /\ tally.emitted = tally.collapsed + Len(sweep.found)
      BY <2>5 DEF LedgerInv, TypeOK, Tallies
    <3>2. tally'.emitted = tally.emitted /\ tally'.collapsed = tally.collapsed + Len(sweep.found) - Len(new)
      BY <2>3 DEF TypeOK, Tallies
    <3>. QED  BY <2>2, <2>4, <3>1, <3>2
  <2>. QED  BY <2>2, <2>4, <2>5, <2>6
<1>. QED  BY <1>1, <1>2, <1>3

LEMMA LedgerKept ==
    ASSUME TypeOK, Counted, LedgerInv, [Next]_vars
    PROVE  LedgerInv'
<1>1. CASE UNCHANGED <<tally, sweep>>
  BY <1>1 DEF LedgerInv
<1>2. CASE Calls \/ PhaseRaises \/ Settle
  BY <1>2, LlmSteps DEF Counted
<1>. QED  BY <1>1, <1>2, StepFrames DEF Frames

LEMMA TypeKept ==
    ASSUME TypeOK, Counted, IsInjective(rows), [Next]_vars
    PROVE  TypeOK'
<1>. USE StepFrames DEF Frames
<1>1. pc' \in PCs
  <2>1. CASE Finish \/ Raise \/ Produced
    BY <2>1 DEF Finish, Raise, Produced, Goto, PCs
  <2>. QED  BY <2>1 DEF TypeOK, Flow, PCs
<1>2. skill' \in [Ordinals -> ThreadStates]
  <2>1. CASE SkillThreads
    BY <2>1 DEF SkillThreads, SkillStarts, SkillEnds, TypeOK, ThreadStates
  <2>2. CASE CloseSkills
    BY <2>2 DEF CloseSkills, TypeOK, ThreadStates
  <2>. QED  BY <2>1, <2>2 DEF TypeOK
<1>3. told' \subseteq Ordinals
  BY DEF TypeOK, Reports, Report, Completed
<1>4. rows' \in Seq(SkillRows)
  <2>1. CASE Reports
    <3>1. PICK s \in Ordinals : rows' = rows \o NewRows(s)
      BY <2>1, ReportEmits DEF Reports
    <3>2. NewRows(s) \in Seq(SkillRows) /\ rows \in Seq(SkillRows)
      BY ReportIds DEF TypeOK
    <3>. QED  BY <3>1, <3>2, Joined
  <2>2. CASE Collapse
    <3>1. rows \in Seq(SkillRows)
      BY DEF TypeOK
    <3>. QED  BY <2>2, <3>1, OnlyProperties DEF Collapse
  <2>. QED  BY <2>1, <2>2 DEF TypeOK
<1>5. /\ sweep' \in [batch : 0..Batches, failures : Nat, error : BOOLEAN, found : Seq(LlmKeys)]
      /\ tally' \in Tallies
  <2>1. CASE UNCHANGED <<tally, sweep>>
    BY <2>1 DEF TypeOK
  <2>2. CASE Calls \/ PhaseRaises \/ Settle
    BY <2>2, LlmSteps DEF Counted
  <2>. QED  BY <2>1, <2>2
<1>6. call' \in [attempt : 1..Attempts, halved : BOOLEAN]
  <2>1. CASE NextBatch
    BY <2>1, BatchesAssumption DEF NextBatch, FirstCall
  <2>2. CASE CallRetries
    <3>1. call' = [call EXCEPT !.attempt = @ + 1] /\ call.attempt < Attempts
      BY <2>2 DEF CallRetries
    <3>2. call.attempt + 1 \in 1..Attempts
      BY <3>1, FieldTypes, BatchesAssumption
    <3>. QED  BY <3>1, <3>2 DEF TypeOK
  <2>3. CASE CallHalves
    BY <2>3, BatchesAssumption DEF CallHalves
  <2>. QED  BY <2>1, <2>2, <2>3 DEF TypeOK
<1>7. degraded' \in BOOLEAN
  <2>1. CASE Settle
    BY <2>1, SettleStep DEF Settles, TypeOK
  <2>. QED  BY <2>1 DEF Preflight, PhaseRaises, TypeOK
<1>8. validator' \in [up : BOOLEAN, judging : BOOLEAN, updates : 0..JudgeBatches,
                      sent : 0..JudgeBatches, failed : BOOLEAN]
  <2>1. CASE Validate
    <3>1. validator' = [up |-> TRUE, judging |-> ~Stopped, updates |-> 0, sent |-> 0, failed |-> FALSE]
      BY <2>1 DEF Validate, NoValidator
    <3>2. 0 \in 0..JudgeBatches /\ (~Stopped) \in BOOLEAN
      BY BatchesAssumption
    <3>. QED  BY <3>1, <3>2
  <2>2. CASE JudgeUpdates
    <3>1. validator' = [validator EXCEPT !.sent = @ + 1, !.updates = @ + 1] /\ validator.sent < JudgeBatches
      BY <2>2 DEF JudgeUpdates
    <3>2. validator.sent + 1 \in 0..JudgeBatches /\ validator.updates + 1 \in 0..JudgeBatches
      BY <3>1, FieldTypes, BatchesAssumption DEF Counted
    <3>. QED  BY <3>1, <3>2 DEF TypeOK
  <2>3. CASE ValidatorEnds
    BY <2>3, BatchesAssumption DEF ValidatorEnds, TypeOK
  <2>4. CASE Drain
    <3>1. validator' = [validator EXCEPT !.updates = @ - 1] /\ validator.updates > 0
      BY <2>4 DEF Drain
    <3>2. validator.updates - 1 \in 0..JudgeBatches
      BY <3>1, FieldTypes, BatchesAssumption DEF Counted
    <3>. QED  BY <3>1, <3>2 DEF TypeOK
  <2>. QED  BY <2>1, <2>2, <2>3, <2>4 DEF TypeOK
<1>9. stream' \in Seq(Items) /\ Len(stream') >= Len(stream)
  <2>. SUFFICES Len(stream) \in Nat /\ stream' \in Seq(Items) /\ Len(stream') >= Len(stream)
    OBVIOUS
  <2>1. UNCHANGED stream \/ \E items \in Seq(Items) : Emits(items)
    BY Writes
  <2>2. CASE UNCHANGED stream
    BY <2>2, LenProperties DEF TypeOK
  <2>3. CASE \E items \in Seq(Items) : Emits(items)
    BY <2>3, EmitsAppends DEF TypeOK
  <2>. QED  BY <2>1, <2>2, <2>3
<1>10. read' \in 0..Len(stream')
  <2>1. CASE Reads
    BY <2>1, LenProperties DEF Reads, TypeOK
  <2>2. CASE ~Reads
    <3>1. read' = read
      BY <2>2 DEF Disconnect
    <3>. QED  BY <1>9, <3>1, LenProperties DEF TypeOK
  <2>. QED  BY <2>1, <2>2
<1>11. client' \in {"reading", "gone", "ended", "failed"} /\ cancelled' \in BOOLEAN /\ expired' \in BOOLEAN
  <2>1. CASE Reads
    BY <2>1 DEF Reads, Ends, TypeOK
  <2>2. CASE Disconnect
    BY <2>2 DEF Disconnect, Ends, TypeOK
  <2>. QED  BY <2>1, <2>2 DEF TypeOK, Expire
<1>12. asked' \in Seq({"answered", "error"}) /\ late' \in Nat
  <2>1. CASE Calls
    <3>1. PICK n, new, error : CallEnds(n, new, error)
      BY <2>1, CallStep DEF Calls
    <3>2. /\ asked' = Append(asked, IF error THEN "error" ELSE "answered")
          /\ late' = late + (IF Stopped THEN 1 ELSE 0)
      BY <3>1 DEF CallEnds
    <3>3. asked \in Seq({"answered", "error"}) /\ late \in Nat
      BY DEF TypeOK
    <3>. QED  BY <3>2, <3>3, AppendProperties
  <2>. QED  BY <2>1 DEF TypeOK
<1>. QED
  BY <1>1, <1>2, <1>3, <1>4, <1>5, <1>6, <1>7, <1>8, <1>9, <1>10, <1>11, <1>12, Zenon DEF TypeOK

LEMMA CountedKept ==
    ASSUME TypeOK, Counted, [Next]_vars
    PROVE  Counted'
<1>. USE StepFrames, BatchesAssumption DEF Frames
<1>1. validator'.updates <= validator'.sent
  <2>1. CASE Validate
    BY <2>1 DEF Validate, NoValidator
  <2>2. CASE JudgeUpdates
    BY <2>2 DEF JudgeUpdates, TypeOK, Counted
  <2>3. CASE ValidatorEnds
    BY <2>3 DEF ValidatorEnds, TypeOK, Counted
  <2>4. CASE Drain
    BY <2>4 DEF Drain, TypeOK, Counted
  <2>. QED  BY <2>1, <2>2, <2>3, <2>4 DEF Counted
<1>2. ASSUME pc' = "calling" PROVE sweep'.batch < Batches
  <2>1. CASE NextBatch
    BY <1>2, <2>1 DEF NextBatch, Goto, TypeOK
  <2>2. CASE pc = "calling" /\ UNCHANGED sweep
    BY <2>2 DEF Counted
  <2>3. CASE Calls \/ PhaseRaises \/ Settle
    BY <1>2, <2>3 DEF Calls, CallAnswers, CallErrs, BatchEnds, PhaseRaises, Settle, Goto
  <2>. QED  BY <1>2, <2>1, <2>2, <2>3
<1>. QED  BY <1>1, <1>2 DEF Counted

LEMMA PhaseKept ==
    ASSUME TypeOK, PhaseInv, [Next]_vars
    PROVE  PhaseInv'
<1>. USE DEF BeforeLlm, InLlm, AfterLlm, Lost
<1>1. CASE Calls
  <2>1. PICK n, new, error : CallEnds(n, new, error)
    BY <1>1, CallStep DEF Calls
  <2>2. /\ pc = "calling" /\ pc' = "capped" /\ degraded' = degraded
        /\ error \in BOOLEAN /\ (error => new = <<>>)
        /\ asked' = Append(asked, IF error THEN "error" ELSE "answered")
        /\ sweep'.error = (sweep.error \/ error) /\ sweep'.found = sweep.found \o new
    BY <2>1 DEF CallEnds
  <2>3. Range(asked') = Range(asked) \cup {IF error THEN "error" ELSE "answered"}
    <3>1. asked \in Seq({"answered", "error"})
      BY DEF TypeOK
    <3>2. DOMAIN asked' = 1..(Len(asked) + 1) /\ DOMAIN asked = 1..Len(asked) /\ Len(asked) \in Nat
      BY <2>2, <3>1, LenProperties
    <3>3. 1..(Len(asked) + 1) = (1..Len(asked)) \cup {Len(asked) + 1}
      BY <3>2
    <3>4. /\ \A i \in 1..Len(asked) : asked'[i] = asked[i]
          /\ asked'[Len(asked) + 1] = IF error THEN "error" ELSE "answered"
      BY <2>2, <3>1, AppendProperties
    <3>. QED  BY <3>2, <3>3, <3>4 DEF Range
  <2>4. sweep.found = <<>> /\ new = <<>> => sweep'.found = <<>>
    BY <2>2
  <2>. QED  BY <2>2, <2>3, <2>4 DEF PhaseInv, TypeOK
<1>2. CASE PhaseRaises
  <2>1. /\ pc \in {"calling", "sweeping"} /\ pc' = "settling" /\ asked' = asked /\ degraded' = TRUE
        /\ sweep'.found = <<>> /\ sweep'.error = FALSE
    BY <1>2 DEF PhaseRaises, Goto, TypeOK
  <2>. QED  BY <2>1 DEF PhaseInv
<1>3. CASE Settle
  <2>1. PICK new : Settles(new)
    BY <1>3, SettleStep
  <2>2. /\ pc = "settling" /\ pc' = "combining" /\ asked' = asked
        /\ sweep'.found = new /\ sweep'.error = sweep.error
        /\ degraded' = (degraded \/ (sweep.error /\ sweep.found = <<>>))
    BY <2>1 DEF Settles, TypeOK
  <2>3. sweep.found = <<>> => new = <<>>
    <3>1. new \in Seq(LlmKeys) /\ Len(new) <= Len(sweep.found)
      BY <2>1 DEF Settles
    <3>. QED  BY <3>1, EmptySeq, LenProperties
  <2>. QED  BY <2>2, <2>3 DEF PhaseInv
<1>4. CASE Preflight
  <2>1. /\ pc = "preflight" /\ asked' = asked /\ sweep' = sweep
        /\ \/ pc' = "entering" /\ WantsLlm /\ ~degraded'
           \/ pc' = "combining" /\ (degraded' => WantsLlm)
    BY <1>4, SettingsAssumption DEF Preflight, Goto, llmVars
  <2>2. Range(<<>>) = {}
    BY DEF Range
  <2>. QED  BY <2>1, <2>2 DEF PhaseInv
<1>5. CASE UNCHANGED <<sweep, asked, degraded>> /\ ~Preflight /\ ~Settle
  <2>1. CASE Finish \/ Raise \/ Produced
    BY <1>5, <2>1 DEF Finish, Raise, Produced, Goto, PhaseInv
  <2>2. CASE UNCHANGED pc
    BY <1>5, <2>2 DEF PhaseInv
  <2>3. CASE <<pc, pc'>> \in Flow /\ pc' # pc
    <3>1. pc # "preflight" /\ (pc = "settling" => pc' # "combining")
      BY <1>5, <2>3, StepFrames DEF Frames, EnterLlm
    <3>. QED  BY <1>5, <2>3, <3>1 DEF PhaseInv, Flow
  <2>. QED  BY <2>1, <2>2, <2>3, StepFrames DEF Frames
<1>. QED  BY <1>1, <1>2, <1>3, <1>4, <1>5, StepFrames DEF Frames

-----------------------------------------------------------------------------
\* Nothing a result is made of changes after the end.
LEMMA FinalsStill ==
    ASSUME [Next]_vars, pc \in Finals
    PROVE  UNCHANGED <<rows, told, sweep, degraded, tally>> /\ pc' \in Finals
<1>. USE DEF Finals
<1>1. CASE Produced
  BY <1>1 DEF Produced, Goto, llmVars
<1>2. CASE ~Produced
  <2>1. ~Reports /\ ~Collapse /\ ~Calls /\ ~PhaseRaises /\ ~Settle /\ ~Preflight /\ ~Finish /\ ~Raise
    BY DEF Reports, Report, Collapse, Calls, CallAnswers, CallErrs, PhaseRaises, Settle, Preflight,
           Finish, Raise
  <2>. QED  BY <1>2, <2>1, StepFrames DEF Frames, Flow
<1>. QED  BY <1>1, <1>2

LEMMA ShapeKept ==
    ASSUME TypeOK, IsInjective(rows), ShapeInv, [Next]_vars
    PROVE  ShapeInv'
<1>. DEFINE L == Len(stream)
<1>. USE DEF Finals
<1>0. stream \in Seq(Items) /\ L \in Nat
  BY LenProperties DEF TypeOK
<1>1. CASE UNCHANGED stream /\ (pc' = pc \/ {pc, pc'} \cap Finals = {})
  BY <1>1 DEF ShapeInv, Plain, Closed, IsResult
<1>2. CASE \E items \in Seq(Items) : Emits(items) /\ Body(items) /\ {pc, pc'} \cap Finals = {}
  <2>1. PICK items \in Seq(Items) : Emits(items) /\ Body(items)
    BY <1>2
  <2>2. /\ Len(items) \in Nat /\ Len(stream') = L + Len(items)
        /\ \A i \in 1..L : stream'[i] = stream[i]
        /\ \A i \in 1..Len(items) : stream'[L + i] = items[i]
    BY <1>0, <2>1, EmitsAppends
  <2>. HIDE DEF L
  <2>3. ASSUME NEW i \in 1..(L + Len(items)) PROVE stream'[i].kind \in {"finding", "update"}
    <3>1. CASE i <= L
      <4>1. i \in 1..L
        BY <1>0, <2>2, <3>1
      <4>. QED  BY <1>2, <2>2, <4>1 DEF ShapeInv, Plain, L
    <3>2. CASE ~(i <= L)
      <4>1. i - L \in 1..Len(items) /\ L + (i - L) = i
        BY <1>0, <2>2, <3>2
      <4>. QED  BY <2>1, <2>2, <4>1 DEF Body
    <3>. QED  BY <3>1, <3>2
  <2>. QED  BY <1>2, <2>2, <2>3 DEF ShapeInv, Plain
<1>3. CASE Emits(<<Result, Finished>>) /\ <<Result, Finished>> \in Seq(Items) /\ Finish
  <2>1. /\ Len(stream') = L + 2
        /\ \A i \in 1..L : stream'[i] = stream[i]
        /\ stream'[L + 1] = Result /\ stream'[L + 2] = Finished
    BY <1>0, <1>3, EmitsTwo, ItemKinds, ResultIsItem
  <2>2. pc = "finishing" /\ pc' = "returning" /\ IsResult(Result)
    BY <1>3, ResultIsItem DEF Finish, Goto
  <2>3. \A i \in 1..L : stream'[i].kind \in {"finding", "update"}
    BY <1>0, <2>1, <2>2 DEF ShapeInv, Plain
  <2>. QED  BY <1>0, <2>1, <2>2 DEF ShapeInv, Plain, Closed, IsResult
<1>4. CASE Emits(<<Error>>) /\ <<Error>> \in Seq(Items) /\ Raise
  <2>1. /\ Len(stream') = L + 1
        /\ \A i \in 1..L : stream'[i] = stream[i]
        /\ stream'[L + 1] = Error
    BY <1>0, <1>4, EmitsOne, ItemKinds
  <2>2. pc \notin Finals /\ pc' = "returning"
    BY <1>4 DEF Raise, Goto
  <2>. QED  BY <1>0, <2>1, <2>2 DEF ShapeInv, Plain, Closed
<1>5. CASE Emits(<<Done>>) /\ <<Done>> \in Seq(Items) /\ Produced
  <2>1. /\ Len(stream') = L + 1
        /\ \A i \in 1..L : stream'[i] = stream[i]
        /\ stream'[L + 1] = Done
    BY <1>0, <1>5, EmitsOne, ItemKinds
  <2>2. pc = "returning" /\ pc' = "ended"
    BY <1>5 DEF Produced, Goto
  <2>. QED  BY <1>0, <2>1, <2>2 DEF ShapeInv, Plain, Closed, IsResult
<1>. QED  BY <1>1, <1>2, <1>3, <1>4, <1>5, Writes

\* Every step leaves what is in the stream there.
LEMMA StreamGrows ==
    ASSUME TypeOK, IsInjective(rows), [Next]_vars
    PROVE  /\ Len(stream) \in Nat /\ Len(stream') \in Nat /\ Len(stream) <= Len(stream')
           /\ \A i \in 1..Len(stream) : stream'[i] = stream[i]
<1>0. stream \in Seq(Items) /\ Len(stream) \in Nat
  BY LenProperties DEF TypeOK
<1>1. UNCHANGED stream \/ \E items \in Seq(Items) : Emits(items)
  BY Writes
<1>2. CASE UNCHANGED stream
  BY <1>0, <1>2
<1>3. CASE \E items \in Seq(Items) : Emits(items)
  BY <1>0, <1>3, EmitsAppends
<1>. QED  BY <1>1, <1>2, <1>3

LEMMA ClientKept ==
    ASSUME TypeOK, IsInjective(rows), ClientInv, [Next]_vars
    PROVE  ClientInv'
<1>1. /\ read \in 0..Len(stream) /\ Len(stream) \in Nat /\ Len(stream) <= Len(stream')
      /\ \A i \in 1..Len(stream) : stream'[i] = stream[i]
  BY StreamGrows DEF TypeOK
<1>2. CASE Reads
  <2>1. /\ client = "reading" /\ read < Len(stream) /\ read' = read + 1 /\ stream' = stream
        /\ client' = IF stream[read + 1] = Done THEN "ended"
                     ELSE IF stream[read + 1] = Error THEN "failed" ELSE "reading"
    BY <1>2, ItemKinds DEF Reads, Ends
  <2>2. read + 1 \in 1..Len(stream) /\ stream[read + 1] \in Items
    <3>1. read + 1 \in 1..Len(stream) /\ stream \in Seq(Items)
      BY <1>1, <2>1 DEF TypeOK
    <3>. QED  BY <3>1, ElementOfSeq
  <2>3. \A i \in 1..read : stream[i].kind \notin {"error", "done"}
    BY <2>1 DEF ClientInv
  <2>. QED  BY <1>1, <2>1, <2>2, <2>3, ItemKinds DEF ClientInv
<1>3. CASE Disconnect
  BY <1>3 DEF Disconnect, Ends, ClientInv
<1>4. CASE UNCHANGED <<read, client>>
  BY <1>1, <1>4 DEF ClientInv
<1>. QED  BY <1>2, <1>3, <1>4, StepFrames DEF Frames

\* A stream without an end holds no result.
LEMMA OpenHasNone ==
    ASSUME Plain(Len(stream))
    PROVE  \A i \in 1..Len(stream) : ~IsResult(stream[i])
BY DEF Plain, IsResult

LEMMA ResultKept ==
    ASSUME TypeOK, IsInjective(rows), ShapeInv, ResultInv, [Next]_vars
    PROVE  ResultInv'
<1>0. stream \in Seq(Items) /\ Len(stream) \in Nat
  BY LenProperties DEF TypeOK
<1>1. CASE pc' \notin Finals
  <2>1. Plain(Len(stream))'
    BY <1>1, ShapeKept DEF ShapeInv
  <2>. QED  BY <2>1, OpenHasNone DEF ResultInv, Plain, IsResult
<1>2. CASE pc \in Finals
  <2>1. Result' = Result
    BY <1>2, FinalsStill DEF Result, ResultIds
  <2>2. CASE UNCHANGED stream
    BY <2>1, <2>2 DEF ResultInv, IsResult
  <2>3. CASE Produced
    <3>1. <<Done>> \in Seq(Items) /\ Emits(<<Done>>)
      BY <2>3, ItemKinds DEF Produced
    <3>2. /\ Len(stream') = Len(stream) + 1
          /\ \A i \in 1..Len(stream) : stream'[i] = stream[i]
          /\ stream'[Len(stream) + 1] = Done
      BY <1>0, <3>1, EmitsOne, ItemKinds
    <3>. QED  BY <1>0, <2>1, <3>2 DEF ResultInv, IsResult, Done
  <2>4. ~Finish /\ ~Raise
    BY <1>2 DEF Finish, Raise, Finals
  <2>. QED  BY <1>2, <2>2, <2>3, <2>4, Writes
<1>3. CASE Finish
  <2>1. <<Result, Finished>> \in Seq(Items) /\ Emits(<<Result, Finished>>) /\ pc \notin Finals
    BY <1>3, ItemKinds, ResultIsItem DEF Finish, Finals
  <2>2. /\ Len(stream') = Len(stream) + 2
        /\ \A i \in 1..Len(stream) : stream'[i] = stream[i]
        /\ stream'[Len(stream) + 1] = Result /\ stream'[Len(stream) + 2] = Finished
    BY <1>0, <2>1, EmitsTwo, ItemKinds, ResultIsItem
  <2>3. Result' = Result
    BY <1>3 DEF Finish, Result, ResultIds, llmVars
  <2>4. \A i \in 1..Len(stream) : ~IsResult(stream[i])
    BY <2>1, OpenHasNone DEF ShapeInv
  <2>. QED  BY <1>0, <2>2, <2>3, <2>4 DEF ResultInv, IsResult, Finished
<1>4. CASE Raise
  <2>1. <<Error>> \in Seq(Items) /\ Emits(<<Error>>) /\ pc \notin Finals
    BY <1>4, ItemKinds DEF Raise, Finals
  <2>2. /\ Len(stream') = Len(stream) + 1
        /\ \A i \in 1..Len(stream) : stream'[i] = stream[i]
        /\ stream'[Len(stream) + 1] = Error
    BY <1>0, <2>1, EmitsOne, ItemKinds
  <2>3. \A i \in 1..Len(stream) : ~IsResult(stream[i])
    BY <2>1, OpenHasNone DEF ShapeInv
  <2>. QED  BY <1>0, <2>2, <2>3 DEF ResultInv, IsResult, Error
<1>5. pc \notin Finals /\ pc' \in Finals => Finish \/ Raise
  BY StepFrames DEF Frames, Flow, Finals, Produced
<1>. QED  BY <1>1, <1>2, <1>3, <1>4, <1>5

-----------------------------------------------------------------------------
\* A skill whose end was seen stays as it ended.
LEMMA ToldStay ==
    ASSUME TypeOK, RowsInv, [Next]_vars
    PROVE  /\ told \subseteq told' /\ \A s \in told : skill'[s] = skill[s] /\ skill'[s] \in {"ok", "failed"}
           /\ ~Reports => told' = told /\ Reported' = Reported
<1>1. \A s \in told : s \in Ordinals /\ skill[s] \in {"ok", "failed"}
  BY DEF RowsInv, TypeOK
<1>2. told \subseteq told'
  BY StepFrames DEF Frames, Reports, Report
<1>3. \A s \in told : skill'[s] = skill[s]
  <2>1. CASE SkillThreads
    BY <1>1, <2>1 DEF SkillThreads, SkillStarts, SkillEnds, TypeOK
  <2>2. CASE CloseSkills
    BY <1>1, <2>2 DEF CloseSkills, TypeOK
  <2>. QED  BY <2>1, <2>2, StepFrames DEF Frames
<1>4. ASSUME ~Reports PROVE told' = told /\ Reported' = Reported
  <2>1. told' = told
    BY <1>4, StepFrames DEF Frames
  <2>. QED  BY <1>3, <2>1 DEF Reported
<1>. QED  BY <1>1, <1>2, <1>3, <1>4

\* A report adds the rows of its skill, none of which was there.
LEMMA ReportAdds ==
    ASSUME RowsInv, NEW s \in Ordinals, Report(s)
    PROVE  /\ Reported' = Reported \cup Range(NewRows(s))
           /\ Reported \cap Range(NewRows(s)) = {}
           /\ pc = "skills" /\ pc' = pc /\ Range(rows) = Reported
<1>1. /\ pc = "skills" /\ pc' = pc /\ skill' = skill /\ told' = told \cup {s} /\ s \notin told
  BY DEF Report
<1>2. Range(NewRows(s)) = {row \in SkillRows : row[1] = s /\ skill[s] = "ok"}
  BY ReportIds
<1>3. Range(rows) = Reported
  BY <1>1 DEF RowsInv, BeforeLlm
<1>. QED  BY <1>1, <1>2, <1>3 DEF Reported

LEMMA HasResult ==
    ASSUME stream \in Seq(Items)
    PROVE  Results # {} <=> \E i \in 1..Len(stream) : IsResult(stream[i])
BY LenProperties DEF Results, Put, IsResult

LEMMA RowsKept ==
    ASSUME TypeOK, ShapeInv, RowsInv, [Next]_vars
    PROVE  RowsInv'
<1>0. IsInjective(rows) /\ rows \in Seq(SkillRows) /\ TypeOK
  BY DEF RowsInv, TypeOK
<1>1. \A s \in told' : skill'[s] \in {"ok", "failed"}
  <2>1. CASE Reports
    BY <2>1 DEF Reports, Report, RowsInv, Completed
  <2>2. CASE ~Reports
    BY <2>2, ToldStay
  <2>. QED  BY <2>1, <2>2
<1>2. pc' = "pooled" => told' = {}
  <2>1. CASE pc' = "pooled"
    <3>1. pc = "pooled"
      BY <2>1, StepFrames DEF Frames, Flow, Finish, Raise, Produced, Goto
    <3>2. ~Reports
      BY <3>1 DEF Reports, Report
    <3>. QED  BY <3>1, <3>2, StepFrames DEF Frames, RowsInv
  <2>. QED  BY <2>1
<1>3. CASE Reports
  <2>1. PICK s \in Ordinals : Report(s)
    BY <1>3 DEF Reports
  <2>2. /\ rows' = rows \o NewRows(s) /\ NewRows(s) \in Seq(SkillRows) /\ IsInjective(NewRows(s))
        /\ Range(rows) \cap Range(NewRows(s)) = {}
    BY <2>1, ReportEmits, ReportIds, ReportAdds
  <2>3. Range(rows') = Range(rows) \cup Range(NewRows(s)) /\ IsInjective(rows')
    BY <1>0, <2>2, JoinedRange
  <2>4. Range(rows') = Reported' /\ pc' = "skills"
    BY <2>1, <2>3, ReportAdds
  <2>. QED  BY <1>1, <2>3, <2>4 DEF RowsInv, BeforeLlm, Finals
<1>4. CASE Collapse
  <2>1. /\ rows' = Only(rows, {r \in SkillRows : \A s \in Range(rows) : <<r, s>> \notin Covers})
        /\ pc = "collapsing" /\ pc' = "preflight" /\ ~Reports
    BY <1>4 DEF Collapse, Goto, Reports, Report
  <2>2. IsInjective(rows') /\ Range(rows') = {r \in Range(rows) \cap SkillRows :
                                                 \A s \in Range(rows) : <<r, s>> \notin Covers}
    BY <1>0, <2>1, OnlyProperties
  <2>3. Range(rows) = Reported /\ Reported' = Reported /\ Reported \subseteq SkillRows
    BY <2>1, ToldStay DEF RowsInv, BeforeLlm, Reported
  <2>4. Kept' = {r \in Reported : \A s \in Reported : <<r, s>> \notin Covers}
    BY <2>3 DEF Kept
  <2>5. Range(rows') = Kept'
    BY <2>2, <2>3, <2>4
  <2>. QED  BY <1>1, <2>1, <2>2, <2>5 DEF RowsInv, BeforeLlm
<1>5. CASE ~Reports /\ ~Collapse
  <2>1. rows' = rows /\ Reported' = Reported
    BY <1>5, ToldStay, StepFrames DEF Frames
  <2>2. Kept' = Kept
    BY <2>1 DEF Kept
  <2>3. CASE pc' \in BeforeLlm \ {"preflight"}
    <3>1. pc \in BeforeLlm \ {"preflight"}
      BY <2>3, StepFrames DEF Frames, Flow, BeforeLlm, Finish, Raise, Produced, Goto
    <3>. QED  BY <1>1, <1>2, <2>1, <2>3, <3>1 DEF RowsInv
  <2>4. ASSUME pc' \notin BeforeLlm \ {"preflight"}, pc' \in Finals => (Results # {})'
        PROVE  Range(rows') = Kept'
    <3>1. CASE pc' \notin Finals
      <4>1. pc \notin BeforeLlm \ {"preflight"} /\ pc \notin Finals
        BY <1>5, <2>4, <3>1, StepFrames DEF Frames, Flow, BeforeLlm, Finals, Finish, Raise, Produced, Goto
      <4>. QED  BY <2>1, <2>2, <4>1 DEF RowsInv
    <3>2. CASE pc' \in Finals /\ pc \in Finals
      <4>1. ~Finish /\ ~Raise
        BY <3>2 DEF Finish, Raise, Finals
      <4>2. UNCHANGED stream \/ Produced
        BY <1>0, <3>2, <4>1, Writes
      <4>3. Results # {}
        <5>1. CASE UNCHANGED stream
          BY <2>4, <3>2, <5>1 DEF Results, Put
        <5>2. CASE Produced
          <6>1. Emits(<<Done>>) /\ stream \in Seq(Items) /\ <<Done>> \in Seq(Items)
            BY <5>2, ItemKinds DEF Produced, TypeOK
          <6>2. /\ Len(stream') = Len(stream) + 1 /\ Len(stream) \in Nat
                /\ \A i \in 1..Len(stream) : stream'[i] = stream[i]
                /\ stream'[Len(stream) + 1] = Done
            BY <6>1, EmitsOne, ItemKinds
          <6>3. stream' \in Seq(Items)
            BY <6>1, EmitsAppends
          <6>4. PICK i \in 1..Len(stream') : IsResult(stream'[i])
            BY <2>4, <3>2, <6>3, LenProperties DEF Results, Put, IsResult
          <6>5. i \in 1..Len(stream) /\ IsResult(stream[i])
            BY <6>2, <6>4 DEF IsResult, Done
          <6>. QED  BY <6>1, <6>5, HasResult
        <5>. QED  BY <4>2, <5>1, <5>2
      <4>. QED  BY <2>1, <2>2, <3>2, <4>3 DEF RowsInv, BeforeLlm, Finals
    <3>3. CASE pc' \in Finals /\ pc \notin Finals
      <4>1. Finish \/ Raise
        BY <3>3, StepFrames DEF Frames, Flow, Finals, Produced
      <4>2. CASE Finish
        BY <2>1, <2>2, <4>2 DEF Finish, RowsInv, BeforeLlm, Finals
      <4>3. CASE Raise
        <5>1. Emits(<<Error>>) /\ stream \in Seq(Items) /\ <<Error>> \in Seq(Items)
          BY <4>3, ItemKinds DEF Raise, TypeOK
        <5>2. /\ Len(stream') = Len(stream) + 1 /\ Len(stream) \in Nat
              /\ \A i \in 1..Len(stream) : stream'[i] = stream[i]
              /\ stream'[Len(stream) + 1] = Error
          BY <5>1, EmitsOne, ItemKinds
        <5>3. stream' \in Seq(Items)
          BY <5>1, EmitsAppends
        <5>4. \A i \in 1..Len(stream) : ~IsResult(stream[i])
          BY <3>3, OpenHasNone DEF ShapeInv
        <5>5. (Results = {})'
          <6>1. \A i \in 1..Len(stream') : ~IsResult(stream'[i])
            BY <5>2, <5>4 DEF IsResult, Error
          <6>. QED  BY <5>3, <6>1, LenProperties DEF Results, Put, IsResult
        <5>. QED  BY <2>4, <3>3, <5>5
      <4>. QED  BY <4>1, <4>2, <4>3
    <3>. QED  BY <3>1, <3>2, <3>3
  <2>5. IsInjective(rows')
    BY <1>0, <2>1
  <2>6. CASE pc' \notin BeforeLlm \ {"preflight"}
    BY <1>1, <1>2, <2>4, <2>5, <2>6 DEF RowsInv, BeforeLlm
  <2>. QED  BY <2>3, <2>6
<1>. QED  BY <1>3, <1>4, <1>5

LEMMA IdsKept ==
    ASSUME TypeOK, PhaseInv, RowsInv, IdsInv, [Next]_vars
    PROVE  IdsInv'
<1>0. IsInjective(rows) /\ stream \in Seq(Items)
  BY DEF RowsInv, TypeOK
<1>1. CASE Reports
  <2>1. PICK s \in Ordinals : Report(s)
    BY <1>1 DEF Reports
  <2>2. PICK ids : ids = RowIds(NewRows(s))
    OBVIOUS
  <2>3. /\ ids \in Seq(Nat) /\ IsInjective(ids)
        /\ Range(ids) = {SkillId(row) : row \in Range(NewRows(s))}
        /\ Emits([i \in DOMAIN ids |-> Finding(ids[i])])
    BY <2>1, <2>2, ReportIds, ReportEmits
  <2>4. /\ Reported' = Reported \cup Range(NewRows(s)) /\ Reported \cap Range(NewRows(s)) = {}
        /\ pc \notin AfterLlm /\ pc' \notin AfterLlm
        /\ Range(NewRows(s)) \subseteq SkillRows /\ Reported \subseteq SkillRows
    BY <2>1, ReportAdds, ReportIds DEF AfterLlm, Reported
  <2>5. Streamed = {SkillId(row) : row \in Reported}
    BY <2>4 DEF IdsInv
  <2>6. Range(ids) \cap Streamed = {}
    BY <2>3, <2>4, <2>5, IdsApart
  <2>7. /\ Streamed' = Streamed \cup Range(ids)
        /\ (\A i, j \in Put("finding") : stream[i].id = stream[j].id => i = j)'
    BY <1>0, <2>3, <2>6, FindingsAppend DEF IdsInv
  <2>. QED  BY <2>3, <2>4, <2>5, <2>7 DEF IdsInv
<1>2. CASE Settle
  <2>1. PICK new : Settles(new)
    BY <1>2, SettleStep
  <2>2. PICK ids : ids = SweepIds(new)
    OBVIOUS
  <2>3. /\ new \in Seq(LlmKeys) /\ pc = "settling" /\ pc' = "combining" /\ sweep'.found = new
        /\ Emits([i \in DOMAIN new |-> Finding(LlmId(i - 1))])
    BY <2>1 DEF Settles, TypeOK
  <2>4. /\ ids \in Seq(Nat) /\ IsInjective(ids) /\ DOMAIN ids = DOMAIN new
        /\ Range(ids) = {LlmId(i - 1) : i \in DOMAIN new}
    BY <2>2, <2>3, SettleIds
  <2>5. \A i \in DOMAIN new : ids[i] = LlmId(i - 1)
    BY <2>2 DEF SweepIds
  <2>6. Emits([i \in DOMAIN ids |-> Finding(ids[i])])
    <3>1. [i \in DOMAIN ids |-> Finding(ids[i])] = [i \in DOMAIN new |-> Finding(LlmId(i - 1))]
      BY <2>4, <2>5
    <3>. QED  BY <2>3, <3>1
  <2>7. Reported' = Reported /\ Reported \subseteq SkillRows
    <3>1. ~Reports
      BY <2>3 DEF Reports, Report
    <3>. QED  BY <3>1, ToldStay DEF Reported
  <2>8. Streamed = {SkillId(row) : row \in Reported}
    BY <2>3 DEF IdsInv, AfterLlm
  <2>9. Range(ids) \cap Streamed = {}
    <3>1. \A i \in DOMAIN new : i - 1 \in Nat
      BY <2>3, LenProperties
    <3>. QED  BY <2>4, <2>7, <2>8, <3>1, IdsApart
  <2>10. /\ Streamed' = Streamed \cup Range(ids)
         /\ (\A i, j \in Put("finding") : stream[i].id = stream[j].id => i = j)'
    BY <1>0, <2>4, <2>6, <2>9, FindingsAppend DEF IdsInv
  <2>11. LlmIds' = Range(ids)
    BY <2>3, <2>4 DEF LlmIds
  <2>. QED  BY <2>3, <2>7, <2>8, <2>10, <2>11 DEF IdsInv, AfterLlm
<1>3. CASE ~Reports /\ ~Settle
  <2>1. /\ Streamed' = Streamed
        /\ (\A i, j \in Put("finding") : stream[i].id = stream[j].id => i = j)'
    <3>1. CASE UNCHANGED stream
      BY <3>1 DEF IdsInv, Streamed, Put
    <3>2. CASE \E items \in Seq(Items) : Emits(items) /\ \A i \in 1..Len(items) : items[i].kind # "finding"
      <4>1. PICK items \in Seq(Items) : Emits(items) /\ \A i \in 1..Len(items) : items[i].kind # "finding"
        BY <3>2
      <4>2. /\ Put("finding")' = Put("finding") /\ Streamed' = Streamed
            /\ \A i \in Put("finding") : stream'[i] = stream[i]
        BY <1>0, <4>1, OthersAppend
      <4>. QED  BY <4>2 DEF IdsInv
    <3>3. CASE Drain
      <4>1. <<Update>> \in Seq(Items) /\ \A i \in 1..Len(<<Update>>) : <<Update>>[i].kind # "finding"
        BY ItemKinds
      <4>2. Emits(<<Update>>)
        BY <3>3 DEF Drain
      <4>. QED  BY <3>2, <4>1, <4>2
    <3>4. CASE Finish
      <4>1. /\ <<Result, Finished>> \in Seq(Items)
            /\ \A i \in 1..Len(<<Result, Finished>>) : <<Result, Finished>>[i].kind # "finding"
        <5>1. Result.kind # "finding" /\ Finished.kind # "finding"
          BY DEF Result, Finished
        <5>. QED  BY <1>0, <5>1, ItemKinds, ResultIsItem
      <4>2. Emits(<<Result, Finished>>)
        BY <3>4 DEF Finish
      <4>. QED  BY <3>2, <4>1, <4>2
    <3>5. CASE Raise
      <4>1. <<Error>> \in Seq(Items) /\ \A i \in 1..Len(<<Error>>) : <<Error>>[i].kind # "finding"
        BY ItemKinds
      <4>2. Emits(<<Error>>)
        BY <3>5 DEF Raise
      <4>. QED  BY <3>2, <4>1, <4>2
    <3>6. CASE Produced
      <4>1. <<Done>> \in Seq(Items) /\ \A i \in 1..Len(<<Done>>) : <<Done>>[i].kind # "finding"
        BY ItemKinds
      <4>2. Emits(<<Done>>)
        BY <3>6 DEF Produced
      <4>. QED  BY <3>2, <4>1, <4>2
    <3>. QED  BY <1>3, <3>1, <3>3, <3>4, <3>5, <3>6, StepFrames DEF Frames
  <2>2. Reported' = Reported
    BY <1>3, ToldStay
  <2>3. CASE pc \in AfterLlm
    <3>1. ~Calls /\ ~PhaseRaises
      BY <2>3 DEF Calls, CallAnswers, CallErrs, PhaseRaises, AfterLlm
    <3>2. sweep' = sweep
      BY <1>3, <3>1, StepFrames DEF Frames
    <3>3. pc' \in AfterLlm
      BY <2>3, StepFrames DEF Frames, Flow, AfterLlm, Finish, Raise, Produced, Goto
    <3>. QED  BY <2>1, <2>2, <2>3, <3>2, <3>3 DEF IdsInv, LlmIds
  <2>4. CASE pc \notin AfterLlm /\ pc' \notin AfterLlm
    BY <2>1, <2>2, <2>4 DEF IdsInv
  <2>5. CASE pc \notin AfterLlm /\ pc' \in AfterLlm
    <3>1. pc \in BeforeLlm \cup {"entering"}
      <4>1. CASE Finish \/ Raise \/ Produced
        BY <2>5, <4>1 DEF Finish, Raise, Produced, AfterLlm, BeforeLlm
      <4>2. CASE <<pc, pc'>> \in Flow
        BY <1>3, <2>5, <4>2, StepFrames DEF Frames, Flow, AfterLlm, BeforeLlm, InLlm, EnterLlm
      <4>. QED  BY <2>5, <4>1, <4>2, StepFrames DEF Frames
    <3>2. asked = <<>> /\ Range(<<>>) = {}
      BY <3>1 DEF PhaseInv, Range
    <3>3. sweep.found = <<>>
      BY <3>2 DEF PhaseInv
    <3>4. (~Calls /\ ~PhaseRaises) \/ pc' \notin AfterLlm
      BY DEF Calls, CallAnswers, CallErrs, BatchEnds, PhaseRaises, Goto, AfterLlm
    <3>5. sweep'.found = <<>>
      BY <1>3, <2>5, <3>3, <3>4, StepFrames DEF Frames
    <3>6. LlmIds' = {}
      BY <3>5 DEF LlmIds
    <3>. QED  BY <2>1, <2>2, <2>5, <3>6 DEF IdsInv
  <2>. QED  BY <2>3, <2>4, <2>5
<1>. QED  BY <1>1, <1>2, <1>3

-----------------------------------------------------------------------------
(***************************************************************************)
(* The invariant, and what follows from it.                                *)
(***************************************************************************)
LEMMA IInvInitially ==
    ASSUME Init
    PROVE  IInv
<1>. USE DEF Init
<1>1. TypeOK
  <2>1. /\ sweep \in [batch : 0..Batches, failures : Nat, error : BOOLEAN, found : Seq(LlmKeys)]
        /\ call \in [attempt : 1..Attempts, halved : BOOLEAN]
    BY BatchesAssumption, EmptySeq DEF FirstCall
  <2>2. tally \in Tallies
    BY DEF Tallies
  <2>3. validator \in [up : BOOLEAN, judging : BOOLEAN, updates : 0..JudgeBatches,
                       sent : 0..JudgeBatches, failed : BOOLEAN]
    BY BatchesAssumption DEF NoValidator
  <2>4. rows \in Seq(SkillRows) /\ stream \in Seq(Items) /\ read \in 0..Len(stream)
        /\ asked \in Seq({"answered", "error"})
    BY EmptySeq
  <2>. QED  BY <2>1, <2>2, <2>3, <2>4 DEF TypeOK, PCs, ThreadStates
<1>2. Counted /\ PhaseInv /\ LedgerInv
  BY DEF Counted, NoValidator, PhaseInv, Lost, InLlm, LedgerInv
<1>3. ShapeInv /\ ClientInv /\ ResultInv
  BY DEF ShapeInv, Plain, Finals, ClientInv, ResultInv
<1>4. Range(<<>>) = {}
  BY DEF Range
<1>5. RowsInv
  BY <1>4 DEF RowsInv, Reported, BeforeLlm, IsInjective
<1>6. IdsInv
  BY DEF IdsInv, Streamed, Put, Reported, AfterLlm
<1>. QED  BY <1>1, <1>2, <1>3, <1>5, <1>6 DEF IInv, Parts

LEMMA IInvKept ==
    ASSUME IInv, [Next]_vars
    PROVE  IInv'
<1>. IsInjective(rows) /\ TypeOK /\ Counted /\ PhaseInv /\ LedgerInv
     /\ ShapeInv /\ ClientInv /\ ResultInv /\ RowsInv /\ IdsInv
  BY DEF IInv, Parts, RowsInv
<1>. QED
  BY TypeKept, CountedKept, PhaseKept, LedgerKept, ShapeKept, ClientKept, ResultKept, RowsKept, IdsKept
  DEF IInv, Parts

LEMMA SkillRowsFinite == IsFiniteSet(SkillRows)
<1>. DEFINE blocks == {{s} \X (0..(Rows[s] - 1)) : s \in Ordinals}
            block == [s \in Ordinals |-> {s} \X (0..(Rows[s] - 1))]
<1>1. IsFiniteSet(Ordinals)
  BY Arity, SkillsAssumption, FS_Interval
<1>2. IsFiniteSet(blocks)
  <2>1. block \in Surjection(Ordinals, blocks)
    BY DEF Surjection
  <2>. HIDE DEF block, blocks
  <2>. QED  BY <1>1, <2>1, FS_Surjection
<1>3. ASSUME NEW s \in Ordinals PROVE IsFiniteSet({s} \X (0..(Rows[s] - 1)))
  <2>1. Rows[s] \in Nat
    BY RowsAssumption
  <2>2. IsFiniteSet(0..(Rows[s] - 1))
    <3>1. 0 \in Int /\ Rows[s] - 1 \in Int
      BY <2>1
    <3>. QED  BY <3>1, FS_Interval
  <2>3. IsFiniteSet({s})
    BY FS_Singleton
  <2>. QED  BY <2>2, <2>3, FS_Product
<1>4. IsFiniteSet(UNION blocks)
  BY <1>2, <1>3, FS_UNION
<1>. QED  BY <1>4 DEF SkillRows

\* In a set of rows, what generalises one of them generalises one that
\* generalises none of them.
LEMMA Specialised ==
    ASSUME NEW S \in SUBSET SkillRows, NEW row \in S, NEW under \in S, <<row, under>> \in Covers
    PROVE  \E other \in S : <<row, other>> \in Covers /\ \A t \in S : <<other, t>> \notin Covers
<1>. DEFINE Below(x) == {t \in S : <<x, t>> \in Covers}
            Size(x) == Cardinality(Below(x))
            sizes == {Size(x) : x \in Below(row)}
<1>1. \A x : IsFiniteSet(Below(x)) /\ Size(x) \in Nat
  <2>1. IsFiniteSet(S)
    BY SkillRowsFinite, FS_Subset
  <2>. QED  BY <2>1, FS_Subset, FS_CardinalityType
<1>2. sizes # {} /\ sizes \subseteq Nat
  BY <1>1
<1>3. PICK m \in sizes : \A n \in sizes : <<n, m>> \notin OpToRel(<, Nat)
  <2>. HIDE DEF sizes
  <2>. QED  BY <1>2, WFMin, NatLessThanWellFounded
<1>4. \A n \in sizes : ~(n < m)
  BY <1>2, <1>3 DEF OpToRel
<1>5. PICK other \in Below(row) : m = Size(other)
  OBVIOUS
<1>6. ASSUME NEW t \in S, <<other, t>> \in Covers PROVE FALSE
  <2>1. \A u \in S : <<t, u>> \in Covers => <<other, u>> \in Covers
    BY <1>5, <1>6, CoversAssumption
  <2>2. t \in Below(row) /\ t \in Below(other) /\ t \notin Below(t) /\ Below(t) \subseteq Below(other)
    BY <1>5, <1>6, <2>1, CoversAssumption
  <2>3. Size(t) < Size(other)
    <3>1. Below(t) # Below(other)
      BY <2>2
    <3>. HIDE DEF Below
    <3>. QED  BY <1>1, <2>2, <3>1, FS_Subset
  <2>4. Size(t) \in sizes
    BY <2>2
  <2>. QED  BY <1>4, <1>5, <2>3, <2>4
<1>. QED  BY <1>5, <1>6

\* What a result says, once there is one.
LEMMA TheResult ==
    ASSUME IInv, NEW r \in Results
    PROVE  /\ r = Result /\ pc \in Finals /\ IsInjective(r.ids)
           /\ Ids(r) = {SkillId(row) : row \in Kept} \cup LlmIds
<1>1. PICK i \in 1..Len(stream) : r = stream[i] /\ IsResult(stream[i])
  BY LenProperties DEF Results, Put, IsResult, IInv, TypeOK
<1>2. r = Result
  BY <1>1 DEF IInv, Parts, ResultInv
<1>3. pc \in Finals
  BY <1>1, OpenHasNone DEF IInv, Parts, ShapeInv
<1>4. Range(rows) = Kept /\ IsInjective(rows)
  BY <1>3 DEF IInv, Parts, RowsInv, BeforeLlm, Finals
<1>5. r.ids = ResultIds
  BY <1>2 DEF Result
<1>. QED  BY <1>2, <1>3, <1>4, <1>5, ResultIdsAre DEF Ids, IInv

LEMMA Complete ==
    ASSUME IInv
    PROVE  ResultIsComplete
<1>1. \A i, j \in Put("finding") : stream[i].id = stream[j].id => i = j
  BY DEF IInv, Parts, IdsInv
<1>. SUFFICES ASSUME NEW r \in Results
              PROVE  /\ IsInjective(r.ids) /\ Ids(r) \subseteq Streamed
                     /\ \A id \in Streamed \ Ids(r) :
                          \E c \in Covers : SkillId(c[1]) = id /\ SkillId(c[2]) \in Ids(r)
                     /\ \A s \in told : skill[s] = "ok" => \A p \in 0..(Rows[s] - 1) :
                          SkillId(<<s, p>>) \in Ids(r)
                            <=> \A c \in Covers : c[1] = <<s, p>> => SkillId(c[2]) \notin Ids(r)
                     /\ r.tally.available => r.tally.emitted = r.tally.collapsed + r.llm
  BY <1>1 DEF ResultIsComplete
<1>2. /\ r = Result /\ pc \in Finals /\ IsInjective(r.ids)
      /\ Ids(r) = {SkillId(row) : row \in Kept} \cup LlmIds
  BY TheResult
<1>3. /\ Streamed = {SkillId(row) : row \in Reported} \cup LlmIds
      /\ Kept \subseteq Reported /\ Reported \subseteq SkillRows
  BY <1>2 DEF IInv, Parts, IdsInv, Finals, AfterLlm, Kept, Reported
<1>4. \A row \in SkillRows : SkillId(row) \in Ids(r) <=> row \in Kept
  <2>1. \A i \in DOMAIN sweep.found : i - 1 \in Nat
    BY LenProperties DEF IInv, TypeOK
  <2>2. \A row \in SkillRows : SkillId(row) \notin LlmIds
    BY <2>1, IdsApart DEF LlmIds
  <2>. QED  BY <1>2, <1>3, <2>2, IdsApart
\* A row that gave way did so to one that stayed.
<1>5. ASSUME NEW row \in Reported, row \notin Kept
      PROVE  \E other \in Kept : <<row, other>> \in Covers
  <2>1. PICK under \in Reported : <<row, under>> \in Covers
    BY <1>5 DEF Kept
  <2>2. PICK other \in Reported : <<row, other>> \in Covers /\ \A t \in Reported : <<other, t>> \notin Covers
    BY <1>3, <2>1, Specialised
  <2>. QED  BY <2>2 DEF Kept
<1>6. ASSUME NEW id \in Streamed \ Ids(r)
      PROVE  \E c \in Covers : SkillId(c[1]) = id /\ SkillId(c[2]) \in Ids(r)
  <2>1. PICK row \in Reported : id = SkillId(row) /\ row \notin Kept
    BY <1>2, <1>3, <1>6
  <2>2. PICK other \in Kept : <<row, other>> \in Covers
    BY <1>5, <2>1
  <2>3. SkillId(<<row, other>>[1]) = id /\ SkillId(<<row, other>>[2]) \in Ids(r)
    BY <1>3, <1>4, <2>1, <2>2
  <2>. QED  BY <2>2, <2>3
<1>7. ASSUME NEW s \in told, skill[s] = "ok", NEW p \in 0..(Rows[s] - 1)
      PROVE  SkillId(<<s, p>>) \in Ids(r)
               <=> \A c \in Covers : c[1] = <<s, p>> => SkillId(c[2]) \notin Ids(r)
  <2>. DEFINE row == <<s, p>>
  <2>1. row \in Reported /\ row \in SkillRows
    <3>1. s \in Ordinals
      BY DEF IInv, TypeOK
    <3>2. row \in SkillRows
      BY <3>1, RowTypes
    <3>. QED  BY <1>7, <3>2 DEF Reported
  <2>2. ASSUME row \in Kept, NEW c \in Covers, c[1] = row PROVE SkillId(c[2]) \notin Ids(r)
    <3>1. c = <<row, c[2]>> /\ c[2] \in SkillRows
      BY <2>2, CoversAssumption
    <3>2. c[2] \notin Reported
      BY <2>2, <3>1 DEF Kept
    <3>. QED  BY <1>3, <1>4, <3>1, <3>2
  <2>3. ASSUME row \notin Kept PROVE \E c \in Covers : c[1] = row /\ SkillId(c[2]) \in Ids(r)
    <3>1. PICK other \in Kept : <<row, other>> \in Covers
      BY <1>5, <2>1, <2>3
    <3>2. <<row, other>>[1] = row /\ SkillId(<<row, other>>[2]) \in Ids(r)
      BY <1>3, <1>4, <3>1
    <3>. QED  BY <3>1, <3>2
  <2>. HIDE DEF row
  <2>. QED  BY <1>4, <2>1, <2>2, <2>3 DEF row
<1>8. r.tally.available => r.tally.emitted = r.tally.collapsed + r.llm
  BY <1>2 DEF Result, IInv, Parts, LedgerInv
<1>9. Ids(r) \subseteq Streamed
  BY <1>2, <1>3
<1>. QED  BY <1>2, <1>6, <1>7, <1>8, <1>9

LEMMA Truthful ==
    ASSUME IInv
    PROVE  DegradedIsTruthful
<1>. SUFFICES ASSUME NEW r \in Results
              PROVE  /\ r.degraded => WantsLlm /\ r.llm = 0
                     /\ asked # <<>> /\ "answered" \notin Range(asked) => r.degraded
  BY DEF DegradedIsTruthful
<1>1. r.degraded = degraded /\ r.llm = Len(sweep.found) /\ pc \in Finals
  BY TheResult DEF Result
<1>2. PhaseInv /\ Len(<<>>) = 0
  BY EmptySeq DEF IInv, Parts
<1>. QED  BY <1>1, <1>2 DEF PhaseInv, Lost, Finals, InLlm

LEMMA WellFormed ==
    ASSUME IInv
    PROVE  StreamIsWellFormed
<1>. DEFINE L == Len(stream)
<1>1. /\ L \in Nat /\ read \in 0..L /\ \A i \in 1..L : stream[i] \in Items
      /\ \A k : Put(k) = {i \in 1..L : stream[i].kind = k}
  BY LenProperties, ElementOfSeq DEF IInv, TypeOK, Put
<1>2. /\ client = "ended" => read \in Put("done") /\ \A i \in 1..(read - 1) : i \notin Put("error")
      /\ client = "failed" => read \in Put("error")
  BY <1>1 DEF IInv, Parts, ClientInv
<1>3. Cardinality({}) = 0 /\ \A i : Cardinality({i}) = 1
  BY FS_EmptySet, FS_Singleton
<1>. HIDE DEF L
\* The three shapes: still open, with a result and its end, with an error.
<1>4. CASE Plain(L)
  <2>1. \A i \in 1..L : stream[i].kind \notin {"done", "result", "finished", "error"}
    BY <1>4 DEF Plain
  <2>2. Put("done") = {} /\ Put("result") = {} /\ Put("finished") = {} /\ Put("error") = {}
    BY <1>1, <2>1
  <2>3. client # "ended" /\ client # "failed"
    BY <1>2, <2>2
  <2>4. Cardinality(Put("result")) = 0 /\ Cardinality(Put("error")) = 0
    BY <1>3, <2>2
  <2>. QED  BY <2>2, <2>3, <2>4 DEF StreamIsWellFormed
<1>5. ASSUME NEW n \in 2..L, n = L \/ (n = L - 1 /\ stream[L] = Done),
             IsResult(stream[n - 1]), stream[n] = Finished, Plain(n - 2)
      PROVE  StreamIsWellFormed
  <2>1. n \in Nat /\ n - 1 \in 1..L /\ n \in 1..L /\ n - 1 \in Nat
    BY <1>1, <1>5
  <2>2. /\ \A i \in 1..(n - 2) : stream[i].kind \in {"finding", "update"}
        /\ stream[n - 1].kind = "result" /\ stream[n].kind = "finished"
        /\ n = L - 1 => stream[L].kind = "done"
    BY <1>5, ItemKinds DEF Plain, IsResult
  <2>3. ASSUME NEW i \in 1..L
        PROVE  i \in 1..(n - 2) \/ i = n - 1 \/ i = n \/ (i = L /\ n = L - 1)
    BY <1>1, <1>5, <2>1
  <2>4. /\ Put("result") = {n - 1} /\ Put("finished") = {n} /\ Put("error") = {}
    BY <1>1, <2>1, <2>2, <2>3
  <2>5. \A i \in Put("done") : i = L /\ n = L - 1
    BY <1>1, <2>2, <2>3
  <2>6. Put("finding") \cup Put("update") \subseteq 1..(n - 2)
    BY <1>1, <2>2, <2>3
  <2>7. Cardinality(Put("result")) + Cardinality(Put("error")) <= 1
    <3>1. Cardinality(Put("result")) = 1 /\ Cardinality(Put("error")) = 0
      BY <1>3, <2>4, Zenon
    <3>. QED  BY <3>1
  <2>8. client = "ended" => n - 1 <= read
    <3>. SUFFICES ASSUME client = "ended" PROVE n - 1 <= read
      OBVIOUS
    <3>1. read \in Put("done")
      BY <1>2
    <3>2. read = L
      BY <2>5, <3>1
    <3>. QED  BY <1>1, <1>5, <3>2
  <2>9. client # "failed"
    BY <1>2, <2>4
  <2>10. \A i \in Put("done") : i = Len(stream) /\ i > 1 /\ stream[i - 1] \in {Finished, Error}
    <3>. SUFFICES ASSUME NEW i \in Put("done")
                  PROVE  i = L /\ i > 1 /\ stream[i - 1] \in {Finished, Error}
      BY DEF L
    <3>1. i = L /\ n = L - 1 /\ i - 1 = n /\ i > 1
      BY <1>1, <1>5, <2>1, <2>5
    <3>. QED  BY <1>5, <3>1
  <2>11. \A i \in Put("result") : Len(stream) > i /\ stream[i + 1] = Finished
    <3>1. L > n - 1 /\ (n - 1) + 1 = n
      BY <1>1, <1>5, <2>1
    <3>. QED  BY <1>5, <2>4, <3>1 DEF L
  <2>12. \A i \in Put("finished") :
           IsResult(stream[i - 1]) /\ Put("finding") \cup Put("update") \subseteq 1..(i - 2)
    BY <1>5, <2>4, <2>6
  <2>13. client = "ended" => \E i \in Put("result") : i <= read
    BY <2>4, <2>8
  <2>. QED  BY <2>7, <2>9, <2>10, <2>11, <2>12, <2>13 DEF StreamIsWellFormed
<1>6. ASSUME NEW n \in 1..L, n = L \/ (n = L - 1 /\ stream[L] = Done),
             stream[n] = Error, Plain(n - 1)
      PROVE  StreamIsWellFormed
  <2>1. n \in Nat
    BY <1>1, <1>6
  <2>2. /\ \A i \in 1..(n - 1) : stream[i].kind \in {"finding", "update"}
        /\ stream[n].kind = "error"
        /\ n = L - 1 => stream[L].kind = "done"
    BY <1>6, ItemKinds DEF Plain
  <2>3. ASSUME NEW i \in 1..L
        PROVE  i \in 1..(n - 1) \/ i = n \/ (i = L /\ n = L - 1)
    BY <1>1, <1>6, <2>1
  <2>4. Put("result") = {} /\ Put("finished") = {} /\ Put("error") = {n}
    BY <1>1, <2>1, <2>2, <2>3
  <2>5. \A i \in Put("done") : i = L /\ n = L - 1
    BY <1>1, <2>2, <2>3
  <2>6. client # "ended"
    <3>. SUFFICES ASSUME client = "ended" PROVE FALSE
      OBVIOUS
    <3>1. read \in Put("done") /\ read = L /\ n = L - 1
      BY <1>1, <1>2, <2>5
    <3>2. n \in 1..(read - 1) /\ n \in Put("error")
      BY <1>1, <1>6, <2>1, <2>4, <3>1
    <3>. QED  BY <1>2, <3>2
  <2>7. \A i \in Put("done") : i = Len(stream) /\ i > 1 /\ stream[i - 1] \in {Finished, Error}
    <3>. SUFFICES ASSUME NEW i \in Put("done")
                  PROVE  i = L /\ i > 1 /\ stream[i - 1] \in {Finished, Error}
      BY DEF L
    <3>1. i = L /\ n = L - 1 /\ i - 1 = n /\ i > 1
      BY <1>1, <1>6, <2>1, <2>5
    <3>. QED  BY <1>6, <3>1
  <2>8. Cardinality(Put("result")) + Cardinality(Put("error")) <= 1
    <3>1. Cardinality(Put("result")) = 0 /\ Cardinality(Put("error")) = 1
      BY <1>3, <2>4, Zenon
    <3>. QED  BY <3>1
  <2>. QED  BY <2>4, <2>6, <2>7, <2>8 DEF StreamIsWellFormed
<1>7. ShapeInv
  BY DEF IInv, Parts
<1>8. CASE pc = "returning"
  <2>1. Closed(L)
    BY <1>7, <1>8 DEF ShapeInv, L
  <2>2. CASE L >= 2 /\ IsResult(stream[L - 1]) /\ stream[L] = Finished /\ Plain(L - 2)
    BY <1>1, <1>5, <2>2
  <2>3. CASE L >= 1 /\ stream[L] = Error /\ Plain(L - 1)
    BY <1>1, <1>6, <2>3
  <2>. QED  BY <2>1, <2>2, <2>3 DEF Closed
<1>9. CASE pc = "ended"
  <2>1. L >= 1 /\ stream[L] = Done /\ Closed(L - 1)
    BY <1>7, <1>9 DEF ShapeInv, L
  <2>2. PICK n \in Nat : n = L - 1
    BY <1>1, <2>1
  <2>3. CASE n >= 2 /\ IsResult(stream[n - 1]) /\ stream[n] = Finished /\ Plain(n - 2)
    <3>1. n \in 2..L
      BY <1>1, <2>2, <2>3
    <3>. QED  BY <1>5, <2>1, <2>2, <2>3, <3>1
  <2>4. CASE n >= 1 /\ stream[n] = Error /\ Plain(n - 1)
    <3>1. n \in 1..L
      BY <1>1, <2>2, <2>4
    <3>. QED  BY <1>6, <2>1, <2>2, <2>4, <3>1
  <2>. QED  BY <2>1, <2>2, <2>3, <2>4 DEF Closed
<1>. QED  BY <1>4, <1>7, <1>8, <1>9 DEF ShapeInv, Finals, L

LEMMA IInvAlways == Spec => []IInv
<1>1. Init => IInv
  BY IInvInitially
<1>2. IInv /\ [Next]_vars => IInv'
  BY IInvKept
<1>. QED  BY <1>1, <1>2, PTL DEF Spec

\* Every variable of a run keeps its type: among others the ledger never goes
\* negative, and the sweep never passes its last batch.
THEOREM TypeCorrect == Spec => []TypeOK
<1>1. IInv => TypeOK
  BY DEF IInv
<1>. QED  BY <1>1, IInvAlways, PTL

\* A result holds every row that was reported but for those a more specific row
\* of it made redundant, and every row the sweep kept, each once and under the
\* id it was streamed with; and its ledger balances.
THEOREM NothingIsLost == Spec => []ResultIsComplete
<1>1. IInv => ResultIsComplete
  BY Complete
<1>. QED  BY <1>1, IInvAlways, PTL

\* A result says it is degraded only when the LLM phase was wanted and gave
\* nothing, and always when every batch that was asked failed.
THEOREM DegradedIsMeant == Spec => []DegradedIsTruthful
<1>1. IInv => DegradedIsTruthful
  BY Truthful
<1>. QED  BY <1>1, IInvAlways, PTL

\* The stream has one result or one error, in its place, nothing after Done, and
\* no client sees a normal end without the result.
THEOREM OneEnd == Spec => []StreamIsWellFormed
<1>1. IInv => StreamIsWellFormed
  BY WellFormed
<1>. QED  BY <1>1, IInvAlways, PTL

-----------------------------------------------------------------------------
(***************************************************************************)
(* The sweep after the run was stopped.                                    *)
(***************************************************************************)
\* A batch that ended late leaves the sweep stopped and outside any call.
Bounded == late \in {0, 1} /\ (late = 1 => Stopped /\ pc # "calling")

\* A step that ends no batch and enters no call.
Elsewhere == late' = late /\ (Stopped => Stopped') /\ pc' # "calling"

LEMMA ElsewhereKeeps ==
    ASSUME Bounded, Elsewhere
    PROVE  Bounded'
BY DEF Bounded, Elsewhere, Stopped

\* A step of another actor leaves the generator where it is.
Aside == late' = late /\ pc' = pc /\ (Stopped => Stopped')

LEMMA AsideKeeps ==
    ASSUME Bounded, Aside
    PROVE  Bounded'
BY DEF Bounded, Aside, Stopped

LEMMA BatchEndsOnce ==
    ASSUME Bounded, NEW findings, NEW error, pc = "calling", BatchEnds(findings, error)
    PROVE  Bounded'
<1>1. late = 0
  BY DEF Bounded
<1>2. late' = 0 + (IF Stopped THEN 1 ELSE 0) /\ pc' = "capped" /\ Stopped' = Stopped
  BY <1>1 DEF BatchEnds, Goto, Stopped, streamVars
<1>3. QED
  BY <1>2 DEF Bounded

-----------------------------------------------------------------------------
LEMMA SkillPhaseKeeps ==
    ASSUME Bounded,
           Begin \/ (\E s \in Ordinals : Report(s)) \/ LeaveSkills \/ CloseSkills \/ Collapse
    PROVE  Bounded'
<1>1. CASE \E s \in Ordinals : Report(s)
  <2>1. Aside
    BY <1>1 DEF Report, Aside, Stopped, llmVars
  <2>2. QED
    BY <2>1, AsideKeeps
<1>2. CASE Begin \/ LeaveSkills \/ CloseSkills \/ Collapse
  <2>1. Elsewhere
    BY <1>2 DEF Begin, LeaveSkills, CloseSkills, Collapse, Goto, Elsewhere, Stopped, llmVars, streamVars
  <2>2. QED
    BY <2>1, ElsewhereKeeps
<1>3. QED
  BY <1>1, <1>2

LEMMA SweepKeeps ==
    ASSUME Bounded,
           \/ Preflight \/ EnterLlm \/ NextBatch \/ CallAnswers \/ CallErrs \/ CallRetries \/ CallHalves
           \/ Cap \/ PhaseRaises \/ Settle
    PROVE  Bounded'
<1>1. CASE Preflight \/ EnterLlm \/ Cap \/ PhaseRaises \/ Settle
  <2>1. CASE Preflight
    <3>1. Elsewhere
      BY <2>1 DEF Preflight, Goto, Elsewhere, Stopped, llmVars, streamVars
    <3>2. QED
      BY <3>1, ElsewhereKeeps
  <2>2. CASE EnterLlm \/ Cap
    <3>1. Elsewhere
      BY <2>2 DEF EnterLlm, Cap, Goto, Elsewhere, Stopped, llmVars, streamVars
    <3>2. QED
      BY <3>1, ElsewhereKeeps
  <2>3. CASE PhaseRaises \/ Settle
    <3>1. CASE PhaseRaises
      BY <3>1, ElsewhereKeeps, Zenon DEF PhaseRaises, Goto, Elsewhere, Stopped, streamVars
    <3>2. CASE Settle
      <4>1. late' = late /\ pc' = "combining" /\ cancelled' = cancelled /\ expired' = expired
        BY <3>2, Zenon DEF Settle, Goto
      <4>2. QED
        BY <4>1, ElsewhereKeeps DEF Elsewhere, Stopped
    <3>3. QED
      BY <2>3, <3>1, <3>2
  <2>4. QED
    BY <1>1, <2>1, <2>2, <2>3
<1>2. CASE NextBatch
  \* The only way into a call: not when the run is stopped, so not after a late batch.
  <2>1. late' = late /\ Stopped' = Stopped /\ (Stopped => pc' = "settling")
    BY <1>2 DEF NextBatch, Goto, Stopped, streamVars
  <2>2. QED
    BY <2>1 DEF Bounded
<1>3. CASE CallAnswers
  BY <1>3, BatchEndsOnce DEF CallAnswers
<1>4. CASE CallErrs
  BY <1>4, BatchEndsOnce DEF CallErrs
<1>5. CASE CallRetries \/ CallHalves
  <2>1. Aside
    BY <1>5 DEF CallRetries, CallHalves, Aside, Stopped, streamVars
  <2>2. QED
    BY <2>1, AsideKeeps
<1>6. QED
  BY <1>1, <1>2, <1>3, <1>4, <1>5

LEMMA EndKeeps ==
    ASSUME Bounded, Validate \/ Drain \/ Drained \/ Finish \/ Raise \/ Produced
    PROVE  Bounded'
<1>1. CASE Drain
  <2>1. Aside
    BY <1>1 DEF Drain, Aside, Stopped, llmVars
  <2>2. QED
    BY <2>1, AsideKeeps
<1>2. CASE Validate \/ Drained \/ Finish \/ Raise \/ Produced
  <2>1. Elsewhere
    BY <1>2 DEF Validate, Drained, Finish, Raise, Produced, Goto, Elsewhere, Stopped, llmVars, streamVars
  <2>2. QED
    BY <2>1, ElsewhereKeeps
<1>3. QED
  BY <1>1, <1>2

LEMMA OthersKeep ==
    ASSUME Bounded, SkillThreads \/ JudgeUpdates \/ ValidatorEnds \/ Reads \/ Disconnect \/ Expire \/ Over
    PROVE  Bounded'
<1>1. Aside
  <2>1. CASE SkillThreads \/ JudgeUpdates \/ ValidatorEnds
    <3>1. CASE SkillThreads
      BY <3>1 DEF SkillThreads, SkillStarts, SkillEnds, Aside, Stopped, llmVars, streamVars
    <3>2. CASE JudgeUpdates
      <4>1. late' = late /\ pc' = pc /\ cancelled' = cancelled /\ expired' = expired
        BY <3>2, Zenon DEF JudgeUpdates, llmVars, streamVars
      <4>2. QED
        BY <4>1 DEF Aside, Stopped
    <3>3. CASE ValidatorEnds
      BY <3>3 DEF ValidatorEnds, Aside, Stopped, llmVars, streamVars
    <3>4. QED
      BY <2>1, <3>1, <3>2, <3>3
  <2>2. CASE Reads
    BY <2>2 DEF Reads, Ends, Aside, Stopped, llmVars
  <2>3. CASE Disconnect \/ Expire
    BY <2>3 DEF Disconnect, Expire, Ends, Aside, Stopped, llmVars, streamVars
  <2>4. CASE Over
    BY <2>4 DEF Over, vars, Aside, Stopped
  <2>5. QED
    BY <2>1, <2>2, <2>3, <2>4
<1>2. QED
  BY <1>1, AsideKeeps

-----------------------------------------------------------------------------
\* Next keeps the bound, and so does a step that changes nothing.
LEMMA NextKeeps ==
    ASSUME Bounded, [Next]_vars
    PROVE  Bounded'
<1>1. CASE Next
  <2>1. CASE Generator
    BY <2>1, SkillPhaseKeeps, SweepKeeps, EndKeeps DEF Generator
  <2>2. CASE SkillThreads \/ JudgeUpdates \/ ValidatorEnds \/ Reads \/ Disconnect \/ Expire \/ Over
    BY <2>2, OthersKeep
  <2>3. QED
    BY <1>1, <2>1, <2>2 DEF Next
<1>2. CASE UNCHANGED vars
  BY <1>2 DEF vars, Bounded, Stopped
<1>3. QED
  BY <1>1, <1>2

\* After its client left or its ceiling passed, a run's worker ends at most the
\* batch it is in (the checks before every batch of the sweep).
THEOREM OneLateBatchAtMost == Spec => []AtMostOneLateBatch
<1>1. Init => Bounded
  BY DEF Init, Bounded
<1>2. Bounded /\ [Next]_vars => Bounded'
  BY NextKeeps
<1>3. Bounded => AtMostOneLateBatch
  BY DEF Bounded, AtMostOneLateBatch
<1>4. QED
  BY <1>1, <1>2, <1>3, PTL DEF Spec
=============================================================================
