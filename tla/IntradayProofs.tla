---------------------------- MODULE IntradayProofs ----------------------------
(***************************************************************************)
(* Proofs about IntradayState, for any number of concurrent calls, any     *)
(* policies and deliveries, and crashes anywhere: one identity of a scope  *)
(* accepts events, it knows every protection ever committed, and what the  *)
(* calls report of a seal and hand out as drafts is right.                 *)
(***************************************************************************)
EXTENDS IntradayState, TLAPS

-----------------------------------------------------------------------------
(* What holds of a record from the moment it is built. *)

Well(r) ==
  /\ r.identity \in Identity /\ r.kind \in Kinds /\ r.sequence \in Nat
  /\ r.state \in State
  /\ r.sha = Digest(r.identity, r.sequence, r.event_id)
  /\ IsRoot(r) <=> r.sequence = 0
  /\ r.kind = "MIGRATE_IN" => r.cause.destination = r.identity

(* The chains: no two records of one sequence number, no gaps, a head, and *)
(* nothing behind a seal.                                                  *)
IsLast(h) == \A r \in Of(h.identity) : r.sequence <= h.sequence

Wells     == \A r \in committed : Well(r)
Unique    == \A r, s \in committed : r.identity = s.identity /\ r.sequence = s.sequence => r = s
Backed    == \A r \in committed : IsRoot(r) \/ \E p \in committed : Linked(p, r)
Gapless   == \A r \in committed : \A n \in 0..r.sequence : \E s \in Of(r.identity) : s.sequence = n
Headed    == \A i \in Identity : Of(i) # {} => \E h \in Of(i) : IsLast(h)
SealsLast == \A s \in committed : s.kind = "MIGRATE_OUT" => IsLast(s)

Chains == Wells /\ Unique /\ Backed /\ Gapless /\ Headed /\ SealsLast

(* The scope.  One record carries its state: the head of the identity that *)
(* accepts events, or the seal whose destination does not exist yet.       *)
Carrying == {h \in committed : IsLast(h) /\ (h.kind = "MIGRATE_OUT" => ~Imported(h))}

Announced(r) ==
  \E s \in committed : s.kind = "MIGRATE_OUT" /\ s.cause = r.cause /\ s.state = r.state

Started    == committed # {} => \E r \in committed : r.kind = "INITIALIZE"
Imports    == \A r \in committed : r.kind = "MIGRATE_IN" => Announced(r)
OneCarrier == \A g, h \in Carrying : g = h
CarriesAll == \A h \in Carrying : \A r \in committed : ProtectionsKept(r.state, h.state)

Handoffs == Started /\ Imports /\ OneCarrier /\ CarriesAll

(* The calls.  What a call is about to append was built on a record of the *)
(* chain, which it may not be the head of any more, or on a seal.          *)
Ready(r) ==
  /\ Well(r)
  /\ ~IsRoot(r) =>
       \E p \in committed : /\ p.identity = r.identity /\ p.sha = r.previous
                            /\ ProtectionsKept(p.state, r.state)

Alone(t)  == t = <<t[1]>> /\ Ready(t[1]) /\ (t[1].kind = "MIGRATE_IN" => Announced(t[1]))
Paired(t) ==
  /\ t = <<t[1], t[2]>> /\ Ready(t[1]) /\ Ready(t[2])
  /\ t[1].kind = "MIGRATE_OUT" /\ t[2].kind = "MIGRATE_IN"
  /\ t[1].cause = t[2].cause /\ t[1].state = t[2].state

CallsOK == \A c \in Call : pc[c] # "idle" => Alone(todo[c]) \/ Paired(todo[c])

Fields == {"status", "record", "draft", "retired"}

Shapes == /\ DOMAIN pc = Call /\ DOMAIN todo = Call /\ DOMAIN out = Call
          /\ \A c \in Call : DOMAIN out[c] = Fields

IInv == Shapes /\ Chains /\ Handoffs /\ CallsOK /\ RetiredTruth

-----------------------------------------------------------------------------
(* Protections that are kept twice are kept. *)
LEMMA KeptTransitive ==
  ASSUME NEW a \in State, NEW b \in State, NEW d \in State,
         ProtectionsKept(a, b), ProtectionsKept(b, d)
  PROVE  ProtectionsKept(a, d)
BY DEF ProtectionsKept, State

(* A state keeps its own protections. *)
LEMMA KeptReflexive ==
  ASSUME NEW a \in State
  PROVE  ProtectionsKept(a, a)
BY DEF ProtectionsKept, State

(* A digest tells identity and sequence number. *)
LEMMA DigestTells ==
  ASSUME NEW i, NEW j, NEW m, NEW n, NEW d, NEW e, Digest(i, m, d) = Digest(j, n, e)
  PROVE  i = j /\ m = n
BY DEF Digest

(* A record without a successor is the last of its chain. *)
LEMMA NoSuccessorIsLast ==
  ASSUME Chains, NEW p \in committed, \A s \in Of(p.identity) : s.previous # p.sha
  PROVE  IsLast(p)
<1>1. SUFFICES ASSUME NEW r \in Of(p.identity), r.sequence > p.sequence
               PROVE  FALSE
  BY DEF IsLast, Of, Chains, Wells, Well
<1>2. Well(p) /\ Well(r) /\ r \in committed /\ r.identity = p.identity
  BY DEF Of, Chains, Wells
<1>3. p.sequence + 1 \in 0..r.sequence
  BY <1>1, <1>2 DEF Well
<1>4. PICK s \in Of(p.identity) : s.sequence = p.sequence + 1
  BY <1>2, <1>3 DEF Chains, Gapless
<1>5. s \in committed /\ s.identity = p.identity /\ Well(s)
  BY DEF Of, Chains, Wells
<1>6. ~IsRoot(s)
  BY <1>2, <1>4, <1>5 DEF Well
<1>7. PICK q \in committed : Linked(q, s)
  BY <1>5, <1>6 DEF Chains, Backed
<1>8. Well(q)
  BY DEF Chains, Wells
<1>9. q.sequence = p.sequence /\ q.identity = p.identity /\ s.previous = q.sha
  BY <1>2, <1>4, <1>5, <1>7, <1>8 DEF Linked, Well
<1>10. q = p
  BY <1>9 DEF Chains, Unique
<1> QED BY <1>4, <1>9, <1>10

(* The head load_chain takes is the last record. *)
LEMMA HeadIsLast ==
  ASSUME Chains, NEW i \in Identity, Of(i) # {}
  PROVE  HeadOf(i) \in committed /\ HeadOf(i).identity = i /\ IsLast(HeadOf(i))
<1>1. \E h \in Of(i) : \A s \in Of(i) : s.sequence <= h.sequence
  BY DEF Chains, Headed, IsLast, Of
<1>2. HeadOf(i) \in Of(i) /\ \A s \in Of(i) : s.sequence <= HeadOf(i).sequence
  BY <1>1 DEF HeadOf
<1> QED BY <1>2 DEF Of, IsLast

(* The record a handoff of an unsealed source starts from is on its chain. *)
LEMMA PriorIsThere ==
  ASSUME Chains, NEW i \in Identity, Of(i) # {}, ~Sealed(i)
  PROVE  PriorOf(i) \in committed /\ PriorOf(i).identity = i
<1>1. \E r \in Of(i) : r.kind # "MIGRATE_OUT" /\
        \A s \in Of(i) : s.kind # "MIGRATE_OUT" => s.sequence <= r.sequence
  BY DEF Chains, Headed, IsLast, Of, Sealed
<1>2. PriorOf(i) \in Of(i)
  BY <1>1 DEF PriorOf
<1> QED BY <1>2 DEF Of

(* The record that starts a chain is there. *)
LEMMA RootIsThere ==
  ASSUME Chains, NEW i \in Identity, Of(i) # {}
  PROVE  Root(i) \in Of(i) /\ IsRoot(Root(i))
<1>1. PICK r \in Of(i) : TRUE
  OBVIOUS
<1>2. r \in committed /\ r.identity = i /\ 0 \in 0..r.sequence
  BY DEF Of, Chains, Wells, Well
<1>3. PICK s \in Of(i) : s.sequence = 0
  BY <1>2 DEF Chains, Gapless
<1>4. IsRoot(s)
  BY <1>3 DEF Of, Chains, Wells, Well
<1> QED BY <1>4 DEF Root

(* A head that is not a seal carries the state of the scope. *)
LEMMA HeadCarries ==
  ASSUME Chains, NEW i \in Identity, Of(i) # {}, HeadOf(i).kind # "MIGRATE_OUT"
  PROVE  HeadOf(i) \in Carrying
BY HeadIsLast DEF Carrying

-----------------------------------------------------------------------------
(* A root is only committed to an empty chain, any other record behind the *)
(* last one: the chains stay chains, and their seals last.                 *)
LEMMA RootKeepsChains ==
  ASSUME Chains, NEW r, Well(r), IsRoot(r), Of(r.identity) = {},
         committed' = committed \union {r}
  PROVE  Chains'
<1>1. Wells'
  BY DEF Chains, Wells, Well, IsRoot
<1>2. Unique'
  BY DEF Chains, Unique, Of
<1>3. Backed'
  BY DEF Chains, Backed, IsRoot, Linked
<1>4. Gapless'
  <2>1. r.sequence = 0
    BY DEF Well
  <2>2. ASSUME NEW q \in committed, NEW n \in 0..q.sequence
        PROVE  \E s \in committed' : s.identity = q.identity /\ s.sequence = n
    BY DEF Chains, Gapless, Of
  <2>3. ASSUME NEW n \in 0..r.sequence
        PROVE  \E s \in committed' : s.identity = r.identity /\ s.sequence = n
    BY <2>1
  <2> QED BY <2>2, <2>3 DEF Gapless, Of
<1>5. Headed'
  <2> SUFFICES ASSUME NEW i \in Identity, NEW q \in committed', q.identity = i
               PROVE  \E h \in committed' : h.identity = i /\
                        \A s \in committed' : s.identity = i => s.sequence <= h.sequence
    BY DEF Headed, Of, IsLast
  <2>1. CASE i = r.identity
    BY <2>1 DEF Of, Well
  <2>2. CASE i # r.identity
    <3>1. PICK h \in Of(i) : IsLast(h)
      BY <2>2 DEF Chains, Headed, Of
    <3> QED BY <2>2, <3>1 DEF Of, IsLast
  <2> QED BY <2>1, <2>2
<1>6. SealsLast'
  BY DEF Chains, SealsLast, IsLast, Of, IsRoot, RootKinds
<1> QED BY <1>1, <1>2, <1>3, <1>4, <1>5, <1>6 DEF Chains

LEMMA NextKeepsChains ==
  ASSUME Chains, NEW r, Well(r), ~IsRoot(r), NEW p \in committed, IsLast(p), Linked(p, r),
         committed' = committed \union {r}
  PROVE  Chains'
<1>0. /\ Well(p) /\ p.sequence \in Nat /\ r.sequence = p.sequence + 1
      /\ r.identity = p.identity /\ p.kind # "MIGRATE_OUT"
  BY DEF Chains, Wells, Linked, Well
<1>a. \A s \in committed : s.identity = p.identity => s.sequence \in Nat /\ s.sequence <= p.sequence
  BY DEF IsLast, Of, Chains, Wells, Well
<1>1. Wells'
  BY DEF Chains, Wells, Well, IsRoot
<1>2. Unique'
  BY <1>0, <1>a DEF Chains, Unique
<1>3. Backed'
  BY DEF Chains, Backed, IsRoot, Linked
<1>4. Gapless'
  <2>2. ASSUME NEW q \in committed, NEW n \in 0..q.sequence
        PROVE  \E s \in committed' : s.identity = q.identity /\ s.sequence = n
    BY DEF Chains, Gapless, Of
  <2>3. ASSUME NEW n \in 0..r.sequence
        PROVE  \E s \in committed' : s.identity = r.identity /\ s.sequence = n
    <3>1. CASE n = r.sequence
      BY <3>1
    <3>2. CASE n # r.sequence
      <4>1. n \in 0..p.sequence
        BY <1>0, <3>2
      <4> QED BY <1>0, <2>2, <4>1
    <3> QED BY <3>1, <3>2
  <2> QED BY <2>2, <2>3 DEF Gapless, Of
<1>5. Headed'
  <2> SUFFICES ASSUME NEW i \in Identity, NEW q \in committed', q.identity = i
               PROVE  \E h \in committed' : h.identity = i /\
                        \A s \in committed' : s.identity = i => s.sequence <= h.sequence
    BY DEF Headed, Of, IsLast
  <2>1. CASE i = r.identity
    BY <1>0, <1>a, <2>1
  <2>2. CASE i # r.identity
    <3>1. PICK h \in Of(i) : IsLast(h)
      BY <2>2 DEF Chains, Headed, Of
    <3> QED BY <2>2, <3>1 DEF Of, IsLast
  <2> QED BY <2>1, <2>2
<1>6. SealsLast'
  <2> SUFFICES ASSUME NEW s \in committed', s.kind = "MIGRATE_OUT",
                      NEW q \in committed', q.identity = s.identity
               PROVE  q.sequence <= s.sequence
    BY DEF SealsLast, IsLast, Of
  <2>1. CASE s = r
    BY <1>0, <1>a, <2>1
  <2>2. CASE s # r /\ q # r
    BY <2>2 DEF Chains, SealsLast, IsLast, Of
  <2>3. CASE s # r /\ q = r
    <3>1. p.sequence <= s.sequence /\ s.sequence <= p.sequence
      BY <1>0, <1>a, <2>3 DEF Chains, SealsLast, IsLast, Of
    <3>2. s = p
      BY <1>0, <1>a, <2>3, <3>1 DEF Chains, Unique
    <3> QED BY <1>0, <3>2
  <2> QED BY <2>1, <2>2, <2>3
<1> QED BY <1>1, <1>2, <1>3, <1>4, <1>5, <1>6 DEF Chains

-----------------------------------------------------------------------------
(* What an append does to the scope: the new record is all that carries    *)
(* the state, and it keeps the protections of what carried it before.      *)
LEMMA AppendedCarries ==
  ASSUME Wells, NEW r, Well(r), committed' = committed \union {r},
         \A h \in Carrying : h \in Carrying' => h = r,
         \A q \in committed : ProtectionsKept(q.state, r.state)
  PROVE  OneCarrier' /\ CarriesAll'
<1>1. ASSUME NEW h \in Carrying' PROVE h = r
  <2>1. CASE h = r
    BY <2>1
  <2>2. CASE h # r
    <3>1. h \in committed /\ IsLast(h) /\ (h.kind = "MIGRATE_OUT" => ~Imported(h))
      BY <2>2 DEF Carrying, IsLast, Of, Imported
    <3> QED BY <3>1 DEF Carrying
  <2> QED BY <2>1, <2>2
<1>2. OneCarrier'
  BY <1>1 DEF OneCarrier
<1>3. ProtectionsKept(r.state, r.state)
  BY KeptReflexive DEF Well
<1>4. CarriesAll'
  BY <1>1, <1>3 DEF CarriesAll
<1> QED BY <1>2, <1>4

(* The first record of the scope. *)
LEMMA StartKeepsScope ==
  ASSUME Chains, Handoffs, NEW r, Ready(r), r.kind = "INITIALIZE", Commit(r)
  PROVE  Chains' /\ Handoffs'
<1>1. committed = {} /\ committed' = {r} /\ IsRoot(r) /\ Well(r) /\ Of(r.identity) = {}
  BY DEF Commit, Appendable, Handoffs, Started, Ready, IsRoot, RootKinds, Of
<1>2. Chains'
  BY <1>1, RootKeepsChains
<1>3. OneCarrier' /\ CarriesAll'
  BY <1>1, AppendedCarries DEF Wells, Carrying
<1>4. Started' /\ Imports'
  BY <1>1 DEF Started, Imports
<1> QED BY <1>2, <1>3, <1>4 DEF Handoffs

(* The import carries on what the seal left behind. *)
LEMMA ImportKeepsScope ==
  ASSUME Chains, Handoffs, NEW r, Ready(r), r.kind = "MIGRATE_IN", Announced(r), Commit(r)
  PROVE  Chains' /\ Handoffs'
<1>1. /\ committed' = committed \union {r} /\ IsRoot(r) /\ Well(r) /\ Of(r.identity) = {}
      /\ r.cause.destination = r.identity
  BY DEF Commit, Appendable, Ready, Well, IsRoot, RootKinds
<1>2. Chains'
  BY <1>1, RootKeepsChains
<1>3. PICK s \in committed : s.kind = "MIGRATE_OUT" /\ s.cause = r.cause /\ s.state = r.state
  BY DEF Announced
<1>4. ~Imported(s)
  BY <1>1, <1>3 DEF Imported, Of, Chains, Wells, Well
<1>5. s \in Carrying
  BY <1>3, <1>4 DEF Carrying, Chains, SealsLast
<1>6. Imported(s)'
  BY <1>1, <1>3 DEF Imported
<1>7. \A h \in Carrying : h \in Carrying' => h = r
  BY <1>3, <1>5, <1>6 DEF Handoffs, OneCarrier, Carrying
<1>8. \A q \in committed : ProtectionsKept(q.state, r.state)
  BY <1>3, <1>5 DEF Handoffs, CarriesAll
<1>9. OneCarrier' /\ CarriesAll'
  BY <1>1, <1>7, <1>8, AppendedCarries DEF Chains
<1>10. Started'
  BY <1>1, <1>3 DEF Handoffs, Started
<1>11. Imports'
  BY <1>1 DEF Handoffs, Imports, Announced
<1> QED BY <1>2, <1>9, <1>10, <1>11 DEF Handoffs

(* An event or a seal is behind the one record that carried the state. *)
LEMMA NextKeepsScope ==
  ASSUME Chains, Handoffs, NEW r, Ready(r), ~IsRoot(r), Commit(r)
  PROVE  Chains' /\ Handoffs'
<1>1. committed' = committed \union {r} /\ Well(r)
  BY DEF Commit, Ready
<1>2. PICK p \in Of(r.identity) : Linked(p, r) /\ \A s \in Of(r.identity) : s.previous # p.sha
  BY DEF Commit, Appendable
<1>3. p \in committed /\ p.identity = r.identity /\ Well(p) /\ p.kind # "MIGRATE_OUT"
  BY <1>2 DEF Of, Chains, Wells, Linked
<1>4. IsLast(p)
  BY <1>2, <1>3, NoSuccessorIsLast
<1>5. Chains'
  BY <1>1, <1>2, <1>3, <1>4, NextKeepsChains
<1>6. p \in Carrying
  BY <1>3, <1>4 DEF Carrying
<1>7. ProtectionsKept(p.state, r.state)
  <2>1. PICK q \in committed : /\ q.identity = r.identity /\ q.sha = r.previous
                               /\ ProtectionsKept(q.state, r.state)
    BY DEF Ready
  <2>2. Digest(q.identity, q.sequence, q.event_id) = Digest(p.identity, p.sequence, p.event_id)
    BY <1>2, <1>3, <2>1 DEF Chains, Wells, Well, Linked
  <2>3. q = p
    BY <1>3, <2>1, <2>2, DigestTells DEF Chains, Unique
  <2> QED BY <2>1, <2>3
<1>8. \A q \in committed : ProtectionsKept(q.state, r.state)
  <2> SUFFICES ASSUME NEW q \in committed PROVE ProtectionsKept(q.state, r.state)
    OBVIOUS
  <2>1. q.state \in State /\ p.state \in State /\ r.state \in State
    BY <1>1, <1>3 DEF Chains, Wells, Well
  <2>2. ProtectionsKept(q.state, p.state)
    BY <1>6 DEF Handoffs, CarriesAll
  <2> QED BY <1>7, <2>1, <2>2, KeptTransitive
<1>9. \A h \in Carrying : h \in Carrying' => h = r
  <2> SUFFICES ASSUME NEW h \in Carrying, h \in Carrying', h # r PROVE FALSE
    OBVIOUS
  <2>1. h = p
    BY <1>6 DEF Handoffs, OneCarrier
  <2>2. r.sequence = p.sequence + 1 /\ p.sequence \in Nat
    BY <1>2, <1>3 DEF Linked, Well
  <2>3. r.sequence <= p.sequence
    BY <1>1, <1>3, <2>1 DEF Carrying, IsLast, Of
  <2> QED BY <2>2, <2>3
<1>10. OneCarrier' /\ CarriesAll'
  BY <1>1, <1>8, <1>9, AppendedCarries DEF Chains
<1>11. Started'
  BY <1>1, <1>3 DEF Handoffs, Started
<1>12. Imports'
  BY <1>1 DEF Handoffs, Imports, Announced, IsRoot, RootKinds
<1> QED BY <1>5, <1>10, <1>11, <1>12 DEF Handoffs

LEMMA CommitKeepsScope ==
  ASSUME Chains, Handoffs, NEW r, Ready(r), r.kind = "MIGRATE_IN" => Announced(r), Commit(r)
  PROVE  Chains' /\ Handoffs'
BY StartKeepsScope, ImportKeepsScope, NextKeepsScope DEF IsRoot, RootKinds

-----------------------------------------------------------------------------
(* The calls.  What a call has yet to append stays fit to be appended,     *)
(* whatever the others append meanwhile.                                   *)
LEMMA CommittedGrows ==
  ASSUME NEW t, committed \subseteq committed', Alone(t) \/ Paired(t)
  PROVE  (Alone(t) \/ Paired(t))'
<1>1. ASSUME NEW r, Ready(r) PROVE Ready(r)'
  BY <1>1 DEF Ready, Well, IsRoot
<1>2. ASSUME NEW r, Announced(r) PROVE Announced(r)'
  BY <1>2 DEF Announced
<1>3. ASSUME Alone(t) PROVE Alone(t)'
  BY <1>1, <1>2, <1>3 DEF Alone
<1>4. ASSUME Paired(t) PROVE Paired(t)'
  BY <1>1, <1>4 DEF Paired
<1> QED BY <1>3, <1>4

LEMMA RestGrows ==
  ASSUME NEW e, committed \subseteq committed', todo'[e] = todo[e],
         Alone(todo[e]) \/ Paired(todo[e])
  PROVE  (Alone(todo[e]) \/ Paired(todo[e]))'
<1>1. PICK t : t = todo[e]
  OBVIOUS
<1>2. (Alone(t) \/ Paired(t))'
  BY <1>1, CommittedGrows
<1>3. todo'[e] = t
  BY <1>1
<1> QED BY <1>2, <1>3 DEF Alone, Paired, Ready, Announced

(* Nothing appended: scope, calls and reports are what they were. *)
LEMMA NothingAppended ==
  ASSUME Chains, Handoffs, committed' = committed
  PROVE  Chains' /\ Handoffs'
BY DEF Chains, Wells, Well, IsRoot, Unique, Backed, Linked, Gapless, Headed, SealsLast, IsLast, Of,
       Handoffs, Started, Imports, Announced, OneCarrier, CarriesAll, Carrying, Imported

(* A call that begins, with records fit to be appended, and reports a seal *)
(* only when it is there.                                                  *)
LEMMA BeginKeeps ==
  ASSUME IInv, NEW c \in Call, NEW t, NEW ret, Begin(c, t, ret), Alone(t) \/ Paired(t),
         ret = "yes" => \E s \in committed : s.kind = "MIGRATE_OUT" /\ s.cause = t[1].cause
  PROVE  IInv'
<1>1. /\ committed' = committed /\ committed \subseteq committed'
      /\ pc' = [pc EXCEPT ![c] = "append"] /\ todo' = [todo EXCEPT ![c] = t]
      /\ out' = [out EXCEPT ![c] = [NoOutput EXCEPT !.record = t[1], !.retired = ret]]
  BY DEF Begin, chainVars
<1>2. Chains' /\ Handoffs'
  BY <1>1, NothingAppended DEF IInv
<1>3. Shapes'
  BY <1>1 DEF IInv, Shapes, Fields, NoOutput
<1>4. CallsOK'
  <2> SUFFICES ASSUME NEW e \in Call, pc'[e] # "idle" PROVE (Alone(todo[e]) \/ Paired(todo[e]))'
    BY DEF CallsOK
  <2>1. CASE e = c
    <3>1. (Alone(t) \/ Paired(t))'
      BY <1>1, CommittedGrows
    <3>2. todo'[e] = t
      BY <1>1, <2>1 DEF IInv, Shapes
    <3> QED BY <3>1, <3>2 DEF Alone, Paired, Ready, Announced
  <2>2. CASE e # c
    <3>1. todo'[e] = todo[e] /\ pc'[e] = pc[e]
      BY <1>1, <2>2 DEF IInv, Shapes
    <3>2. Alone(todo[e]) \/ Paired(todo[e])
      BY <3>1 DEF IInv, CallsOK
    <3> QED BY <1>1, <3>1, <3>2, RestGrows
  <2> QED BY <2>1, <2>2
<1>5. RetiredTruth'
  <2>1. out'[c].retired = ret /\ out'[c].record = t[1]
    BY <1>1 DEF IInv, Shapes, NoOutput
  <2>2. \A e \in Call \ {c} : out'[e] = out[e]
    BY <1>1 DEF IInv, Shapes
  <2> QED BY <1>1, <2>1, <2>2 DEF IInv, RetiredTruth
<1> QED BY <1>2, <1>3, <1>4, <1>5 DEF IInv

(* A step of a call that appends nothing, takes up no new record and       *)
(* reports no seal it did not report before.                               *)
LEMMA QuietKeeps ==
  ASSUME IInv, committed' = committed, Shapes',
         \A c \in Call : pc'[c] # "idle" => pc[c] # "idle" /\ todo'[c] = todo[c],
         \A c \in Call : out'[c].retired = "yes" =>
           out[c].retired = "yes" /\ out'[c].record = out[c].record
  PROVE  IInv'
<1>1. Chains' /\ Handoffs'
  BY NothingAppended DEF IInv
<1>2. CallsOK'
  BY DEF IInv, CallsOK, Alone, Paired, Ready, Announced, Well, IsRoot
<1>3. RetiredTruth'
  BY DEF IInv, RetiredTruth
<1> QED BY <1>1, <1>2, <1>3 DEF IInv

-----------------------------------------------------------------------------
(* One lemma per step of a call. *)
LEMMA InitializeKeeps ==
  ASSUME IInv, NEW c \in Call, NEW i \in Identity, NEW state \in [open: BOOLEAN, peak: {1}],
         Initialize(c, i, state)
  PROVE  IInv'
<1> DEFINE r == InitialRecord(i, state)
<1>1. /\ r.identity = i /\ r.kind = "INITIALIZE" /\ r.sequence = 0 /\ r.state = state
      /\ r.sha = Digest(i, 0, r.event_id)
  BY DEF InitialRecord, RootRecord, Built
<1>2. state \in State
  BY DEF State
<1>3. Ready(r)
  BY <1>1, <1>2 DEF Ready, Well, IsRoot, RootKinds, Kinds
<1>4. Alone(<<r>>)
  BY <1>1, <1>3 DEF Alone
<1>5. Begin(c, <<r>>, "no")
  BY DEF Initialize
<1> QED BY <1>4, <1>5, BeginKeeps

LEMMA PersistKeeps ==
  ASSUME IInv, NEW c \in Call, NEW i \in Identity, NEW d \in Delivery, Persist(c, i, d)
  PROVE  IInv'
<1> DEFINE h == HeadOf(i)
           r == EventRecord(h, d)
<1>1. h \in committed /\ h.identity = i /\ Well(h)
  BY HeadIsLast DEF Persist, IInv, Chains, Wells
<1>2. /\ r.identity = i /\ r.kind = "EVENT" /\ r.sequence = h.sequence + 1
      /\ r.state = [open |-> h.state.open \/ d.trip, peak |-> d.peak]
      /\ r.previous = h.sha /\ r.sha = Digest(i, h.sequence + 1, r.event_id)
  BY <1>1 DEF EventRecord, After, Built
<1>3. d.peak \in Nat
  BY IntradayAssumption DEF DeliveryFields
<1>a. (h.state.open \/ d.trip) \in BOOLEAN
  OBVIOUS
<1>b. r.state \in State
  BY <1>2, <1>3, <1>a DEF State
<1>4. Well(r)
  BY <1>1, <1>2, <1>b DEF Well, IsRoot, RootKinds, Kinds
<1>5. ProtectionsKept(h.state, r.state)
  BY DEF Persist
<1>6. Ready(r)
  BY <1>1, <1>2, <1>4, <1>5 DEF Ready
<1>7. Alone(<<r>>)
  BY <1>2, <1>6 DEF Alone
<1>8. Begin(c, <<r>>, "no")
  BY DEF Persist
<1> QED BY <1>7, <1>8, BeginKeeps

LEMMA MigrateKeeps ==
  ASSUME IInv, NEW c \in Call, NEW i \in Identity, NEW j \in Identity, Migrate(c, i, j)
  PROVE  IInv'
<1> DEFINE p == PriorOf(i)
           o == Outgoing(p, j)
           r == Incoming(p, j)
<1>1. /\ r.identity = j /\ r.kind = "MIGRATE_IN" /\ r.sequence = 0 /\ r.state = p.state
      /\ r.cause = Handoff(p, j) /\ r.cause.destination = j
      /\ r.sha = Digest(j, 0, r.event_id)
  BY DEF Incoming, RootRecord, Built, Handoff
<1>2. /\ o.identity = p.identity /\ o.kind = "MIGRATE_OUT" /\ o.sequence = p.sequence + 1
      /\ o.state = p.state /\ o.cause = Handoff(p, j) /\ o.previous = p.sha
      /\ o.sha = Digest(p.identity, p.sequence + 1, o.event_id)
  BY DEF Outgoing, After, Built
<1>3. ASSUME p.state \in State PROVE Ready(r)
  BY <1>1, <1>3 DEF Ready, Well, IsRoot, RootKinds, Kinds
<1>4. CASE Sealed(i)
  <2>1. o = HeadOf(i) /\ o \in committed
    BY <1>4, HeadIsLast DEF Migrate, Migratable, IInv
  <2>2. p.state \in State
    BY <1>2, <2>1 DEF IInv, Chains, Wells, Well
  <2>3. Announced(r)
    BY <1>1, <1>2, <2>1 DEF Announced
  <2>4. Alone(<<r>>)
    BY <1>1, <1>3, <2>2, <2>3 DEF Alone
  <2>5. \E s \in committed : s.kind = "MIGRATE_OUT" /\ s.cause = r.cause
    BY <1>1, <1>2, <2>1
  <2>6. Begin(c, <<r>>, "yes")
    BY <1>4 DEF Migrate
  <2> QED BY <2>4, <2>5, <2>6, BeginKeeps
<1>5. CASE ~Sealed(i)
  <2>1. p \in committed /\ p.identity = i /\ Well(p)
    BY <1>5, PriorIsThere DEF Migrate, Migratable, IInv, Chains, Wells
  <2>2. Well(o)
    BY <1>2, <2>1 DEF Well, IsRoot, RootKinds, Kinds
  <2>3. ProtectionsKept(p.state, o.state)
    BY <1>2, <2>1, KeptReflexive DEF Well
  <2>4. Ready(o)
    BY <1>2, <2>1, <2>2, <2>3 DEF Ready
  <2>5. Ready(r)
    BY <1>3, <2>1 DEF Well
  <2>6. Paired(<<o, r>>)
    BY <1>1, <1>2, <2>4, <2>5 DEF Paired
  <2>7. Begin(c, <<o, r>>, "unknown")
    BY <1>5 DEF Migrate
  <2> QED BY <2>6, <2>7, BeginKeeps
<1> QED BY <1>4, <1>5

LEMMA ReplayKeeps ==
  ASSUME IInv, NEW c \in Call, NEW i \in Identity, NEW d \in Delivery, Replay(c, i, d)
  PROVE  IInv'
<1>1. /\ committed' = committed /\ pc' = pc /\ todo' = todo
      /\ out' = [out EXCEPT ![c] = [NoOutput EXCEPT !.status = "already", !.record = HeadOf(i)]]
  BY DEF Replay, chainVars
<1>2. Shapes'
  BY <1>1 DEF IInv, Shapes, Fields, NoOutput
<1>3. \A e \in Call : out'[e].retired = "yes" =>
        out[e].retired = "yes" /\ out'[e].record = out[e].record
  BY <1>1 DEF IInv, Shapes, NoOutput
<1> QED BY <1>1, <1>2, <1>3, QuietKeeps

LEMMA ClaimKeeps ==
  ASSUME IInv, NEW c \in Call, Claim(c)
  PROVE  IInv'
<1>1. /\ committed' = committed /\ pc' = [pc EXCEPT ![c] = "write"] /\ todo' = todo
      /\ out' = out /\ pc[c] = "append"
  BY DEF Claim, chainVars
<1> QED BY <1>1, QuietKeeps DEF IInv, Shapes

LEMMA NothingWrittenKeeps ==
  ASSUME IInv, NEW c \in Call, NothingWritten(c)
  PROVE  IInv'
<1>1. /\ committed' = committed /\ pc' = [pc EXCEPT ![c] = "confirm"] /\ todo' = todo
      /\ out' = out /\ pc[c] = "append"
  BY DEF NothingWritten, chainVars
<1> QED BY <1>1, QuietKeeps DEF IInv, Shapes

LEMMA EndKeeps ==
  ASSUME IInv, NEW c \in Call, NEW status, NEW draft, End(c, status, draft), UNCHANGED chainVars
  PROVE  IInv'
<1>1. /\ committed' = committed /\ pc' = [pc EXCEPT ![c] = "idle"]
      /\ todo' = [todo EXCEPT ![c] = <<>>]
      /\ out' = [out EXCEPT ![c].status = status, ![c].draft = draft]
  BY DEF End, chainVars
<1>2. /\ out'[c].retired = out[c].retired /\ out'[c].record = out[c].record
      /\ DOMAIN out' = Call /\ (\A e \in Call : DOMAIN out'[e] = Fields)
      /\ \A e \in Call \ {c} : out'[e] = out[e]
  BY <1>1 DEF IInv, Shapes, Fields
<1>3. Shapes'
  BY <1>1, <1>2 DEF IInv, Shapes, Fields
<1>4. \A e \in Call : pc'[e] # "idle" => pc[e] # "idle" /\ todo'[e] = todo[e]
  BY <1>1 DEF IInv, Shapes
<1> QED BY <1>1, <1>2, <1>3, <1>4, QuietKeeps

LEMMA ConfirmKeeps ==
  ASSUME IInv, NEW c \in Call, Confirm(c) \/ Unconfirmed(c)
  PROVE  IInv'
BY EndKeeps DEF Confirm, Unconfirmed

LEMMA CrashKeeps ==
  ASSUME IInv, NEW c \in Call, Crash(c)
  PROVE  IInv'
<1>1. /\ committed' = committed /\ pc' = [pc EXCEPT ![c] = "idle"]
      /\ todo' = [todo EXCEPT ![c] = <<>>] /\ out' = [out EXCEPT ![c] = NoOutput]
  BY DEF Crash, chainVars
<1>2. Shapes'
  BY <1>1 DEF IInv, Shapes, Fields, NoOutput
<1>3. \A e \in Call : pc'[e] # "idle" => pc[e] # "idle" /\ todo'[e] = todo[e]
  BY <1>1 DEF IInv, Shapes
<1>4. \A e \in Call : out'[e].retired = "yes" =>
        out[e].retired = "yes" /\ out'[e].record = out[e].record
  BY <1>1 DEF IInv, Shapes, NoOutput
<1> QED BY <1>1, <1>2, <1>3, <1>4, QuietKeeps

LEMMA WriteKeeps ==
  ASSUME IInv, NEW c \in Call, Write(c)
  PROVE  IInv'
<1>1. /\ pc[c] = "write" /\ Commit(todo[c][1]) /\ pc' = [pc EXCEPT ![c] = "confirm"]
      /\ todo' = todo /\ out' = out /\ committed \subseteq committed'
  BY DEF Write, Commit
<1>2. Alone(todo[c]) \/ Paired(todo[c])
  BY <1>1 DEF IInv, CallsOK
<1>3. Ready(todo[c][1]) /\ (todo[c][1].kind = "MIGRATE_IN" => Announced(todo[c][1]))
  BY <1>2 DEF Alone, Paired
<1>4. Chains' /\ Handoffs'
  BY <1>1, <1>3, CommitKeepsScope DEF IInv
<1>5. Shapes'
  BY <1>1 DEF IInv, Shapes
<1>6. CallsOK'
  <2> SUFFICES ASSUME NEW e \in Call, pc'[e] # "idle" PROVE (Alone(todo[e]) \/ Paired(todo[e]))'
    BY DEF CallsOK
  <2>1. pc[e] # "idle"
    BY <1>1 DEF IInv, Shapes
  <2>2. Alone(todo[e]) \/ Paired(todo[e])
    BY <2>1 DEF IInv, CallsOK
  <2> QED BY <1>1, <2>2, RestGrows
<1>7. RetiredTruth'
  BY <1>1 DEF IInv, RetiredTruth
<1> QED BY <1>4, <1>5, <1>6, <1>7 DEF IInv

(* The seal was read back, so the import may follow. *)
LEMMA ConfirmSealKeeps ==
  ASSUME IInv, NEW c \in Call, ConfirmSeal(c)
  PROVE  IInv'
<1> DEFINE t == todo[c]
<1>1. /\ committed' = committed /\ pc[c] = "confirm" /\ Len(t) = 2 /\ ReadBack(t[1])
      /\ pc' = [pc EXCEPT ![c] = "append"] /\ todo' = [todo EXCEPT ![c] = Tail(t)]
      /\ out' = [out EXCEPT ![c].record = t[2], ![c].retired = "yes"]
  BY DEF ConfirmSeal, chainVars, IInv, Shapes
<1>2. Paired(t)
  <2>1. Alone(t) \/ Paired(t)
    BY <1>1 DEF IInv, CallsOK
  <2>2. ~Alone(t)
    BY <1>1 DEF Alone
  <2> QED BY <2>1, <2>2
<1>3. Tail(t) = <<t[2]>>
  <2>1. Tail(<<t[1], t[2]>>) = <<t[2]>>
    OBVIOUS
  <2> QED BY <1>2, <2>1 DEF Paired
<1>4. t[1] \in committed
  BY <1>1 DEF ReadBack, Of
<1>5. Announced(t[2])
  BY <1>2, <1>4 DEF Paired, Announced
<1>6. Alone(Tail(t))
  BY <1>2, <1>3, <1>5 DEF Alone, Paired
<1>7. Chains' /\ Handoffs'
  BY <1>1, NothingAppended DEF IInv
<1>8. /\ out'[c].retired = "yes" /\ out'[c].record = t[2]
      /\ DOMAIN out' = Call /\ (\A e \in Call : DOMAIN out'[e] = Fields)
      /\ \A e \in Call \ {c} : out'[e] = out[e]
  BY <1>1 DEF IInv, Shapes, Fields
<1>9. Shapes'
  BY <1>1, <1>8 DEF IInv, Shapes, Fields
<1>10. CallsOK'
  BY <1>1, <1>6 DEF IInv, Shapes, CallsOK, Alone, Paired, Ready, Announced, Well, IsRoot
<1>11. RetiredTruth'
  BY <1>1, <1>5, <1>8 DEF IInv, RetiredTruth, Announced
<1> QED BY <1>7, <1>9, <1>10, <1>11 DEF IInv

(* The invariant holds from the start and is kept by every step. *)
LEMMA InitHolds == Init => IInv
BY DEF Init, ChainInit, IInv, Shapes, Fields, NoOutput, Chains, Wells, Unique, Backed, Gapless,
       Headed, SealsLast, Of, Handoffs, Started, Imports, OneCarrier, CarriesAll, Carrying,
       CallsOK, RetiredTruth

LEMMA StutterKeeps ==
  ASSUME IInv, UNCHANGED <<committed, pc, todo, out>>
  PROVE  IInv'
<1>1. Shapes'
  BY DEF IInv, Shapes
<1> QED BY <1>1, QuietKeeps

LEMMA StepKeeps == IInv /\ [Next]_vars => IInv'
<1> SUFFICES ASSUME IInv, [Next]_vars PROVE IInv'
  OBVIOUS
<1>1. CASE UNCHANGED vars
  BY <1>1, StutterKeeps DEF vars, calls, chainVars
<1>2. CASE Next
  <2>1. PICK c \in Call :
          \/ \E i \in Identity, state \in [open: BOOLEAN, peak: {1}] : Initialize(c, i, state)
          \/ \E i \in Identity, d \in Delivery : Persist(c, i, d) \/ Replay(c, i, d)
          \/ \E i, j \in Identity : Migrate(c, i, j)
          \/ Claim(c) \/ Write(c) \/ NothingWritten(c)
          \/ ConfirmSeal(c) \/ Confirm(c) \/ Unconfirmed(c)
          \/ Crash(c)
    BY <1>2 DEF Next
  <2>2. CASE \E i \in Identity, state \in [open: BOOLEAN, peak: {1}] : Initialize(c, i, state)
    BY <2>2, InitializeKeeps
  <2>3. CASE \E i \in Identity, d \in Delivery : Persist(c, i, d) \/ Replay(c, i, d)
    BY <2>3, PersistKeeps, ReplayKeeps
  <2>4. CASE \E i, j \in Identity : Migrate(c, i, j)
    BY <2>4, MigrateKeeps
  <2>5. CASE Claim(c) \/ Write(c) \/ NothingWritten(c)
    BY <2>5, ClaimKeeps, WriteKeeps, NothingWrittenKeeps
  <2>6. CASE ConfirmSeal(c) \/ Confirm(c) \/ Unconfirmed(c) \/ Crash(c)
    BY <2>6, ConfirmSealKeeps, ConfirmKeeps, CrashKeeps
  <2> QED BY <2>1, <2>2, <2>3, <2>4, <2>5, <2>6
<1> QED BY <1>1, <1>2

LEMMA Inductive == Spec => []IInv
<1>1. Init => IInv
  BY InitHolds
<1>2. IInv /\ [Next]_vars => IInv'
  BY StepKeeps
<1> QED BY <1>1, <1>2, PTL DEF Spec

-----------------------------------------------------------------------------
(* A head that is read back dominates everything committed. *)
LEMMA HeadDominates ==
  ASSUME Chains, Handoffs, NEW i \in Identity, Of(i) # {}, HeadOf(i).kind # "MIGRATE_OUT"
  PROVE  \A r \in committed : ProtectionsKept(r.state, HeadOf(i).state)
BY HeadCarries DEF Handoffs, CarriesAll

LEMMA LiveHead ==
  ASSUME Chains, NEW i \in Identity, Live(i)
  PROVE  Of(i) # {} /\ HeadOf(i).identity = i /\ HeadOf(i).kind # "MIGRATE_OUT"
<1>1. Of(i) # {} /\ ~Sealed(i)
  BY DEF Live
<1>2. HeadOf(i) \in committed /\ HeadOf(i).identity = i
  BY <1>1, HeadIsLast
<1> QED BY <1>1, <1>2 DEF Sealed, Of

(* "One scope allows one initial start" and nothing follows a seal:        *)
(* initializations, events and handoffs that race and die (_append_confirm *)
(* and its callers) never leave two identities that accept events.         *)
THEOREM OneLive == Spec => []OneLiveIdentity
<1>1. IInv => OneLiveIdentity
  <2> SUFFICES ASSUME IInv, NEW i \in Identity, NEW j \in Identity, Live(i), Live(j)
               PROVE  i = j
    BY DEF OneLiveIdentity
  <2>1. Chains /\ OneCarrier
    BY DEF IInv, Handoffs
  <2>2. HeadOf(i) \in Carrying /\ HeadOf(i).identity = i
    BY <2>1, LiveHead, HeadCarries
  <2>3. HeadOf(j) \in Carrying /\ HeadOf(j).identity = j
    BY <2>1, LiveHead, HeadCarries
  <2> QED BY <2>1, <2>2, <2>3 DEF OneCarrier
<1> QED BY <1>1, Inductive, PTL

(* No breaker and no high-water mark is lost: the head of the identity     *)
(* that accepts events has those of every record of the scope, through     *)
(* whichever handoffs they came.                                           *)
THEOREM Survive == Spec => []ProtectionsSurvive
<1>1. IInv => ProtectionsSurvive
  <2> SUFFICES ASSUME IInv, NEW i \in Identity, Live(i)
               PROVE  \A r \in committed : ProtectionsKept(r.state, HeadOf(i).state)
    BY DEF ProtectionsSurvive
  <2>1. Of(i) # {} /\ HeadOf(i).kind # "MIGRATE_OUT"
    BY LiveHead DEF IInv
  <2> QED BY <2>1, HeadDominates DEF IInv
<1> QED BY <1>1, Inductive, PTL

(* A call that reports its source as retired (migrate_intraday_state)      *)
(* finds the seal on the chain, made for the handoff it reports.           *)
THEOREM Retired == Spec => []RetiredTruth
<1>1. IInv => RetiredTruth
  BY DEF IInv
<1> QED BY <1>1, Inductive, PTL

(* A draft is handed out by Confirm only, for the event that was just read *)
(* back as the head: with a breaker open anywhere in the scope, the        *)
(* event's state is open too.                                              *)
LEMMA ConfirmedDominates ==
  ASSUME IInv, NEW r, ReadBack(r), r.kind = "EVENT", ~r.state.open
  PROVE  \A s \in committed : ~s.state.open
<1>1. r \in committed /\ r.identity \in Identity /\ Of(r.identity) # {} /\ HeadOf(r.identity) = r
  BY DEF ReadBack, Of, IInv, Chains, Wells, Well
<1>2. \A s \in committed : ProtectionsKept(s.state, r.state)
  BY <1>1, HeadDominates DEF IInv
<1> QED BY <1>2 DEF ProtectionsKept

LEMMA StepIsFresh ==
  IInv /\ [Next]_vars =>
    [\A r \in issued' \ issued : r.state.open \/ \A s \in committed : ~s.state.open]_vars
<1> SUFFICES ASSUME IInv, Next, NEW r \in issued' \ issued, ~r.state.open
             PROVE  \A s \in committed : ~s.state.open
  BY DEF vars
<1>1. \E c \in Call : Confirm(c)
  <2>1. ASSUME NEW c \in Call, NEW i, NEW j, NEW x,
               Initialize(c, i, x) \/ Persist(c, i, x) \/ Replay(c, i, x) \/ Migrate(c, i, j)
        PROVE  issued' = issued
    BY <2>1 DEF Initialize, Persist, Replay, Migrate, Begin
  <2>2. ASSUME NEW c \in Call,
               \/ Claim(c) \/ Write(c) \/ NothingWritten(c)
               \/ ConfirmSeal(c) \/ Unconfirmed(c) \/ Crash(c)
        PROVE  issued' = issued
    BY <2>2 DEF Claim, Write, NothingWritten, ConfirmSeal, Unconfirmed, Crash
  <2> QED BY <2>1, <2>2 DEF Next
<1>2. PICK c \in Call : Confirm(c)
  BY <1>1
<1>3. r = todo[c][1] /\ HasDraft(r) /\ ReadBack(r)
  BY <1>2 DEF Confirm
<1> QED BY <1>3, ConfirmedDominates DEF HasDraft

(* A draft is handed out only for a head that carries every protection, so *)
(* never for a closed breaker when an open one is committed.               *)
THEOREM FreshDrafts == Spec => NoStaleDraft
BY Inductive, StepIsFresh, PTL DEF Spec, NoStaleDraft

-----------------------------------------------------------------------------
(* The verification, a second layer: seals and imports are what            *)
(* _migration_records makes of the head they were built on, and links keep *)
(* the protections.                                                        *)
Made(r) ==
  /\ r.kind = "MIGRATE_OUT" => \E p \in committed : r = Outgoing(p, r.cause.destination)
  /\ r.kind = "MIGRATE_IN"  => \E p \in committed : r = Incoming(p, r.identity)

AllMade   == \A r \in committed : Made(r)
LinksKeep == \A p, r \in committed : Linked(p, r) => ProtectionsKept(p.state, r.state)
CallsMade == \A c \in Call : pc[c] # "idle" =>
               Made(todo[c][1]) /\ (Len(todo[c]) = 2 => Made(todo[c][2]))

NoCycle   == \A i \in Identity : ~Cyclic(i)

VInv == AllMade /\ LinksKeep /\ NoCycle /\ CallsMade

(* Under this invariant every chain passes, on its own... *)
LEMMA ChainsPass ==
  ASSUME IInv, VInv, NEW i \in Identity, Of(i) # {}
  PROVE  ValidStates(i) /\ SealValid(i) /\ RootValid(i)
<1>1. ValidStates(i)
  BY DEF VInv, LinksKeep, ValidStates, Of
<1>2. ASSUME NEW s \in Of(i), s.kind = "MIGRATE_OUT"
      PROVE  \E p \in Of(i) : s = Outgoing(p, s.cause.destination)
  <2>1. PICK p \in committed : s = Outgoing(p, s.cause.destination)
    BY <1>2 DEF VInv, AllMade, Made, Of
  <2>2. s.identity = p.identity
    BY <2>1 DEF Outgoing, After, Built
  <2> QED BY <2>1, <2>2 DEF Of
<1>3. ASSUME Root(i).kind = "MIGRATE_IN"
      PROVE  \E p, s \in Of(Root(i).cause.source) :
               s = Outgoing(p, i) /\ Root(i) = Incoming(p, i)
  <2>1. Root(i) \in committed /\ Root(i).identity = i
    BY RootIsThere DEF IInv, Of
  <2>2. PICK p \in committed : Root(i) = Incoming(p, i)
    BY <1>3, <2>1 DEF VInv, AllMade, Made
  <2>3. Root(i).cause = Handoff(p, i)
    BY <2>2 DEF Incoming, RootRecord, Built
  <2>4. PICK s \in committed : s.kind = "MIGRATE_OUT" /\ s.cause = Root(i).cause
    BY <1>3, <2>1 DEF IInv, Handoffs, Imports, Announced
  <2>5. PICK q \in committed : s = Outgoing(q, i)
    BY <2>3, <2>4 DEF VInv, AllMade, Made, Handoff
  <2>6. s.cause = Handoff(q, i) /\ s.identity = q.identity
    BY <2>5 DEF Outgoing, After, Built
  <2>7. q.identity = p.identity /\ q.sha = p.sha /\ Root(i).cause.source = p.identity
    BY <2>3, <2>4, <2>6 DEF Handoff
  <2>8. q = p
    <3>1. Well(q) /\ Well(p)
      BY DEF IInv, Chains, Wells
    <3>2. Digest(q.identity, q.sequence, q.event_id) = Digest(p.identity, p.sequence, p.event_id)
      BY <2>7, <3>1 DEF Well
    <3> QED BY <3>2, DigestTells DEF IInv, Chains, Unique
  <2> QED BY <2>2, <2>5, <2>6, <2>7, <2>8 DEF Of
<1> QED BY <1>1, <1>2, <1>3 DEF SealValid, RootValid

(* ... and so does the chain of every policy before it. *)
LEMMA SourceIsThere ==
  ASSUME IInv, VInv, NEW k \in Identity, NEW l \in SourceOf(k)
  PROVE  l \in Identity /\ Of(l) # {}
<1>1. Of(k) # {} /\ Root(k).kind = "MIGRATE_IN" /\ l = Root(k).cause.source
  BY DEF SourceOf
<1>2. PICK p \in Of(l) : TRUE
  BY <1>1, ChainsPass DEF RootValid
<1> QED BY <1>2 DEF Of, IInv, Chains, Wells, Well

LEMMA LineageIsThere ==
  ASSUME IInv, VInv, NEW i \in Identity, Of(i) # {}, NEW j \in Lineage(i)
  PROVE  j \in Identity /\ Of(j) # {}
<1> DEFINE S == {k \in Identity : Of(k) # {}}
<1>1. ASSUME NEW k \in S, NEW l \in SourceOf(k) PROVE l \in S
  BY SourceIsThere
<1>2. HandoffClosed(S)
  BY <1>1 DEF HandoffClosed
<1>3. S \in SUBSET Identity /\ i \in S
  OBVIOUS
<1> HIDE DEF S
<1>4. j \in S
  <2> SUFFICES ASSUME j \notin S PROVE FALSE
    OBVIOUS
  <2>1. S \in SUBSET (Identity \ {j})
    BY <1>3
  <2> QED BY <1>2, <1>3, <2>1 DEF Lineage
<1> QED BY <1>4 DEF S

LEMMA EverythingVerifies ==
  ASSUME IInv, VInv
  PROVE  NeverSelfBlocked
<1> SUFFICES ASSUME unreadable = {}, NEW i \in Identity, Of(i) # {}, NEW j \in Lineage(i)
             PROVE  /\ Readable(j) /\ Of(j) # {} /\ ~Cyclic(j)
                    /\ ValidStates(j) /\ SealValid(j) /\ RootValid(j)
  BY DEF NeverSelfBlocked, Verified
<1>1. j \in Identity /\ Of(j) # {}
  BY LineageIsThere
<1> QED BY <1>1, ChainsPass DEF Readable, VInv, NoCycle

-----------------------------------------------------------------------------
(* What a call has yet to append was made so when it began, and stays so:  *)
(* again one lemma per kind of step.                                       *)
LEMMA MadeGrows ==
  ASSUME NEW r, Made(r), committed \subseteq committed'
  PROVE  Made(r)'
BY DEF Made

LEMMA SameCycles ==
  ASSUME NoCycle, committed' = committed
  PROVE  NoCycle'
<1>1. ASSUME NEW i PROVE SourceOf(i)' = SourceOf(i)
  BY DEF SourceOf, Root, Of, IsRoot
<1>2. ASSUME NEW S PROVE HandoffClosed(S)' <=> HandoffClosed(S)
  BY <1>1 DEF HandoffClosed
<1>3. ASSUME NEW i PROVE Lineage(i)' = Lineage(i)
  BY <1>2 DEF Lineage
<1> QED BY <1>1, <1>3 DEF NoCycle, Cyclic

(* An append changes no root that is there: where an identity came from    *)
(* stays so.                                                               *)
LEMMA SourcesStay ==
  ASSUME Chains, Chains', committed \subseteq committed', NEW i \in Identity, Of(i) # {}
  PROVE  SourceOf(i)' = SourceOf(i)
<1>1. Root(i) \in Of(i) /\ IsRoot(Root(i)) /\ Of(i) \subseteq Of(i)'
  BY RootIsThere DEF Of
<1>2. ASSUME NEW r \in Of(i)', IsRoot(r) PROVE r = Root(i)
  <2>1. /\ r \in committed' /\ r.identity = i /\ Root(i) \in committed' /\ Root(i).identity = i
    BY <1>1 DEF Of
  <2>2. r.sequence = 0 /\ Root(i).sequence = 0
    BY <1>1, <1>2, <2>1 DEF Chains, Wells, Well, IsRoot
  <2> QED BY <2>1, <2>2 DEF Chains, Unique
<1>3. Root(i)' = Root(i)
  BY <1>1, <1>2 DEF Root, IsRoot
<1> QED BY <1>1, <1>3 DEF SourceOf

(* A lineage is closed itself, so it never grows. *)
LEMMA LineageStays ==
  ASSUME IInv, VInv, Chains', committed \subseteq committed',
         NEW i \in Identity, Of(i) # {}
  PROVE  Lineage(i)' \subseteq Lineage(i)
<1> DEFINE S == Lineage(i)
<1>1. i \in S /\ S \in SUBSET Identity
  BY DEF Lineage
<1>2. ASSUME NEW k \in S PROVE SourceOf(k) \subseteq S
  <2> SUFFICES ASSUME NEW l \in SourceOf(k) PROVE l \in S
    OBVIOUS
  <2>1. k \in Identity /\ Of(k) # {}
    BY LineageIsThere
  <2>2. l \in Identity
    BY <2>1, SourceIsThere
  <2>3. ASSUME NEW T \in SUBSET (Identity \ {l}), i \in T, HandoffClosed(T) PROVE FALSE
    <3>1. k \notin T
      BY <2>3 DEF HandoffClosed
    <3>2. T \in SUBSET (Identity \ {k})
      BY <2>3, <3>1
    <3> QED BY <2>3, <3>2 DEF Lineage
  <2> QED BY <2>2, <2>3 DEF Lineage
<1>3. ASSUME NEW k \in S PROVE SourceOf(k)' \subseteq S
  <2>1. k \in Identity /\ Of(k) # {}
    BY LineageIsThere
  <2>2. SourceOf(k)' = SourceOf(k)
    BY <2>1, SourcesStay DEF IInv
  <2> QED BY <1>2, <2>2
<1> SUFFICES ASSUME NEW j \in Lineage(i)' PROVE j \in S
  OBVIOUS
<1>4. PICK T : T = S
  OBVIOUS
<1>5. T \in SUBSET Identity /\ i \in T /\ HandoffClosed(T)'
  BY <1>1, <1>3, <1>4 DEF HandoffClosed
<1>6. j \in T
  BY <1>5 DEF Lineage
<1> QED BY <1>4, <1>6

(* An import starts a chain that no lineage knows yet. *)
LEMMA CommitMakesNoCycle ==
  ASSUME IInv, VInv, Chains', NEW r, Made(r), committed' = committed \union {r}
  PROVE  NoCycle'
<1> SUFFICES ASSUME NEW i \in Identity, NEW k \in SourceOf(i)', i \in Lineage(k)'
             PROVE  FALSE
  BY DEF NoCycle, Cyclic
<1>0. committed \subseteq committed'
  OBVIOUS
<1>1. ASSUME k \in Identity, Of(k) # {} PROVE i \in Lineage(k) /\ Of(i) # {}
  <2>1. i \in Lineage(k)
    BY <1>0, <1>1, LineageStays
  <2> QED BY <1>1, <2>1, LineageIsThere
<1>2. CASE Of(i) # {}
  <2>1. k \in SourceOf(i)
    BY <1>0, <1>2, SourcesStay DEF IInv
  <2>2. k \in Identity /\ Of(k) # {}
    BY <2>1, SourceIsThere
  <2> QED BY <1>1, <2>1, <2>2 DEF VInv, NoCycle, Cyclic
<1>3. CASE Of(i) = {}
  <2>1. Of(i)' # {} /\ Root(i)'.kind = "MIGRATE_IN" /\ k = Root(i)'.cause.source
    BY DEF SourceOf
  <2>2. Of(i)' = {r} /\ r.identity = i
    BY <1>3, <2>1 DEF Of
  <2>3. Well(r) /\ IsRoot(r)
    <3>1. PICK s \in committed' : s.identity = i /\ s.sequence = 0
      <4>1. 0 \in 0..r.sequence
        BY DEF Chains, Wells, Well
      <4> QED BY <2>2, <4>1 DEF Chains, Gapless, Of
    <3>2. s = r
      BY <2>2, <3>1 DEF Of
    <3> QED BY <3>1, <3>2 DEF Chains, Wells, Well, IsRoot
  <2>4. Root(i)' = r
    BY <2>2, <2>3 DEF Root, IsRoot
  <2>5. PICK p \in committed : r = Incoming(p, i)
    BY <2>1, <2>2, <2>4 DEF Made
  <2>6. r.cause.source = p.identity
    BY <2>5 DEF Incoming, RootRecord, Built, Handoff
  <2>7. k \in Identity /\ Of(k) # {}
    BY <2>1, <2>4, <2>6 DEF Of, IInv, Chains, Wells, Well
  <2> QED BY <1>1, <1>3, <2>7
<1> QED BY <1>2, <1>3

LEMMA BeginMakes ==
  ASSUME IInv, VInv, NEW c \in Call, NEW t, NEW ret, Begin(c, t, ret),
         Made(t[1]), Len(t) = 2 => Made(t[2])
  PROVE  VInv'
<1>1. committed' = committed /\ todo' = [todo EXCEPT ![c] = t] /\ pc' = [pc EXCEPT ![c] = "append"]
  BY DEF Begin, chainVars
<1>2. AllMade' /\ LinksKeep' /\ NoCycle'
  BY <1>1, SameCycles DEF VInv, AllMade, Made, LinksKeep
<1>3. CallsMade'
  BY <1>1 DEF VInv, CallsMade, Made, IInv, Shapes
<1> QED BY <1>2, <1>3 DEF VInv

LEMMA QuietMakes ==
  ASSUME VInv, committed' = committed,
         \A c \in Call : pc'[c] # "idle" => pc[c] # "idle" /\ todo'[c] = todo[c]
  PROVE  VInv'
<1>1. AllMade' /\ LinksKeep' /\ NoCycle'
  BY SameCycles DEF VInv, AllMade, Made, LinksKeep
<1>2. CallsMade'
  BY DEF VInv, CallsMade, Made
<1> QED BY <1>1, <1>2 DEF VInv

(* The record a handoff of a sealed source starts from is the one behind   *)
(* the seal.                                                               *)
LEMMA PriorBehindSeal ==
  ASSUME IInv, VInv, NEW i \in Identity, Sealed(i)
  PROVE  PriorOf(i) \in committed
<1>1. PICK s \in committed : s.identity = i /\ s.kind = "MIGRATE_OUT"
  BY DEF Sealed, Of
<1>2. PICK q \in committed : s = Outgoing(q, s.cause.destination)
  BY <1>1 DEF VInv, AllMade, Made
<1>3. q.identity = i /\ s.sequence = q.sequence + 1
  BY <1>1, <1>2 DEF Outgoing, After, Built
<1>4. IsLast(s) /\ Well(q) /\ Well(s)
  BY <1>1 DEF IInv, Chains, SealsLast, Wells
<1>5. q.kind # "MIGRATE_OUT"
  BY <1>1, <1>3, <1>4 DEF IInv, Chains, SealsLast, IsLast, Of, Well
<1>6. ASSUME NEW r \in Of(i), r.kind # "MIGRATE_OUT" PROVE r.sequence <= q.sequence
  <2>1. r \in committed /\ r.identity = i /\ Well(r) /\ r.sequence <= s.sequence
    BY <1>1, <1>4 DEF Of, IsLast, IInv, Chains, Wells
  <2>2. r.sequence # s.sequence
    BY <1>1, <1>6, <2>1 DEF IInv, Chains, Unique
  <2> QED BY <1>3, <1>4, <2>1, <2>2 DEF Well
<1>7. PriorOf(i) \in Of(i)
  BY <1>3, <1>5, <1>6 DEF PriorOf, Of
<1> QED BY <1>7 DEF Of

LEMMA MigrateMakes ==
  ASSUME IInv, VInv, NEW c \in Call, NEW i \in Identity, NEW j \in Identity, Migrate(c, i, j)
  PROVE  VInv'
<1> DEFINE p == PriorOf(i)
           o == Outgoing(p, j)
           r == Incoming(p, j)
<1>1. r.kind = "MIGRATE_IN" /\ r.identity = j
  BY DEF Incoming, RootRecord, Built
<1>2. o.kind = "MIGRATE_OUT" /\ o.identity = p.identity /\ o.cause.destination = j
      /\ o.cause = Handoff(p, j)
  BY DEF Outgoing, After, Built, Handoff
<1>3. ASSUME p \in committed PROVE Made(o) /\ Made(r)
  BY <1>1, <1>2, <1>3 DEF Made
<1>4. CASE Sealed(i)
  <2>1. p \in committed
    BY <1>4, PriorBehindSeal
  <2>2. Begin(c, <<r>>, "yes")
    BY <1>4 DEF Migrate
  <2> QED BY <1>3, <2>1, <2>2, BeginMakes
<1>5. CASE ~Sealed(i)
  <2>1. p \in committed
    BY <1>5, PriorIsThere DEF Migrate, Migratable, IInv
  <2>2. Begin(c, <<o, r>>, "unknown")
    BY <1>5 DEF Migrate
  <2> QED BY <1>3, <2>1, <2>2, BeginMakes
<1> QED BY <1>4, <1>5

LEMMA OtherBeginsMake ==
  ASSUME IInv, VInv, NEW c \in Call, NEW i, NEW x, Initialize(c, i, x) \/ Persist(c, i, x)
  PROVE  VInv'
<1>1. PICK r : Begin(c, <<r>>, "no") /\ r.kind \notin {"MIGRATE_OUT", "MIGRATE_IN"}
  <2>1. InitialRecord(i, x).kind = "INITIALIZE"
    BY DEF InitialRecord, RootRecord, Built
  <2>2. EventRecord(HeadOf(i), x).kind = "EVENT"
    BY DEF EventRecord, After, Built
  <2> QED BY <2>1, <2>2 DEF Initialize, Persist
<1>2. Made(<<r>>[1]) /\ Len(<<r>>) = 1
  BY <1>1 DEF Made
<1> QED BY <1>1, <1>2, BeginMakes

LEMMA ConfirmSealMakes ==
  ASSUME IInv, VInv, NEW c \in Call, ConfirmSeal(c)
  PROVE  VInv'
<1>1. /\ committed' = committed /\ Len(todo[c]) = 2 /\ pc[c] = "confirm"
      /\ todo' = [todo EXCEPT ![c] = Tail(todo[c])] /\ pc' = [pc EXCEPT ![c] = "append"]
  BY DEF ConfirmSeal, chainVars, IInv, Shapes
<1>2. Paired(todo[c])
  <2>1. Alone(todo[c]) \/ Paired(todo[c])
    BY <1>1 DEF IInv, CallsOK
  <2>2. ~Alone(todo[c])
    BY <1>1 DEF Alone
  <2> QED BY <2>1, <2>2
<1>3. Tail(todo[c]) = <<todo[c][2]>>
  <2>1. Tail(<<todo[c][1], todo[c][2]>>) = <<todo[c][2]>>
    OBVIOUS
  <2> QED BY <1>2, <2>1 DEF Paired
<1>4. Made(todo[c][2])
  BY <1>1 DEF VInv, CallsMade
<1>5. todo'[c] = <<todo[c][2]>>
  BY <1>1, <1>3 DEF IInv, Shapes
<1>6. todo'[c][1] = todo[c][2] /\ Len(todo'[c]) = 1
  BY <1>5
<1>7. CallsMade'
  BY <1>1, <1>4, <1>6 DEF VInv, CallsMade, Made, IInv, Shapes
<1>8. AllMade' /\ LinksKeep' /\ NoCycle'
  BY <1>1, SameCycles DEF VInv, AllMade, Made, LinksKeep
<1> QED BY <1>7, <1>8 DEF VInv

(* A record is appended behind the one it was built on, so that the new    *)
(* link keeps the protections; nothing is linked to it yet.                *)
LEMMA WriteMakes ==
  ASSUME IInv, VInv, NEW c \in Call, Write(c)
  PROVE  VInv'
<1> DEFINE r == todo[c][1]
<1>1. /\ pc[c] = "write" /\ Appendable(r) /\ committed' = committed \union {r}
      /\ committed \subseteq committed'
      /\ todo' = todo /\ pc' = [pc EXCEPT ![c] = "confirm"]
  BY DEF Write, Commit
<1>2. Ready(r)
  BY <1>1 DEF IInv, CallsOK, Alone, Paired
<1>3. Made(r)
  BY <1>1 DEF VInv, CallsMade
<1> HIDE DEF r
<1>4. AllMade'
  <2> SUFFICES ASSUME NEW q \in committed' PROVE Made(q)'
    BY DEF AllMade
  <2>1. Made(q)
    BY <1>1, <1>3 DEF VInv, AllMade
  <2> QED BY <1>1, <2>1, MadeGrows
<1>5. CallsMade'
  <2> SUFFICES ASSUME NEW e \in Call, pc'[e] # "idle"
               PROVE  (Made(todo[e][1]) /\ (Len(todo[e]) = 2 => Made(todo[e][2])))'
    BY DEF CallsMade
  <2>1. pc[e] # "idle"
    BY <1>1 DEF IInv, Shapes
  <2>2. Made(todo[e][1]) /\ (Len(todo[e]) = 2 => Made(todo[e][2]))
    BY <2>1 DEF VInv, CallsMade
  <2>3. \A x : Made(x) => Made(x)'
    BY <1>1, MadeGrows
  <2> QED BY <1>1, <2>2, <2>3 DEF Made
<1>6. LinksKeep'
  <2> SUFFICES ASSUME NEW p \in committed', NEW q \in committed', Linked(p, q)
               PROVE  ProtectionsKept(p.state, q.state)
    BY DEF LinksKeep
  <2>0. Well(p) /\ Well(q) /\ q.sequence = p.sequence + 1 /\ q.identity = p.identity
    BY <1>1, <1>2 DEF Ready, Linked, IInv, Chains, Wells
  <2>1. CASE p \in committed /\ q \in committed
    BY <2>1 DEF VInv, LinksKeep
  <2>2. CASE p \in committed /\ q = r
    <3>1. ~IsRoot(r)
      BY <2>0, <2>2 DEF Well
    <3>2. PICK h \in committed : /\ h.identity = r.identity /\ h.sha = r.previous
                                 /\ ProtectionsKept(h.state, r.state)
      BY <1>2, <3>1 DEF Ready
    <3>3. Digest(h.identity, h.sequence, h.event_id) = Digest(p.identity, p.sequence, p.event_id)
      BY <2>0, <2>2, <3>2 DEF IInv, Chains, Wells, Well, Linked
    <3>4. h = p
      BY <2>0, <2>2, <3>2, <3>3, DigestTells DEF IInv, Chains, Unique
    <3> QED BY <2>2, <3>2, <3>4
  <2>3. CASE p = r /\ q = r
    BY <2>0, <2>3 DEF Well
  <2>4. CASE p = r /\ q \in committed
    <3>1. CASE IsRoot(r)
      BY <1>1, <2>0, <2>4, <3>1 DEF Appendable, Of
    <3>2. CASE ~IsRoot(r)
      <4>1. PICK h \in Of(r.identity) : Linked(h, r) /\ \A s \in Of(r.identity) : s.previous # h.sha
        BY <1>1, <3>2 DEF Appendable
      <4>2. h \in committed /\ h.identity = r.identity /\ r.sequence = h.sequence + 1 /\ Well(h)
        BY <4>1 DEF Of, Linked, IInv, Chains, Wells
      <4>3. IsLast(h)
        BY <4>1, <4>2, NoSuccessorIsLast DEF IInv
      <4>4. q.sequence <= h.sequence
        BY <2>0, <2>4, <4>2, <4>3 DEF IsLast, Of
      <4> QED BY <2>0, <2>4, <4>2, <4>4 DEF Well
    <3> QED BY <3>1, <3>2
  <2> QED BY <1>1, <2>1, <2>2, <2>3, <2>4
<1>7. Chains'
  BY WriteKeeps DEF IInv
<1>8. NoCycle'
  BY <1>1, <1>3, <1>7, CommitMakesNoCycle
<1> QED BY <1>4, <1>5, <1>6, <1>8 DEF VInv

LEMMA StepMakes == IInv /\ VInv /\ [Next]_vars => VInv'
<1> SUFFICES ASSUME IInv, VInv, [Next]_vars PROVE VInv'
  OBVIOUS
<1>1. CASE UNCHANGED vars
  BY <1>1, QuietMakes DEF vars, calls, chainVars
<1>2. ASSUME NEW c \in Call, NEW i, NEW x,
             Initialize(c, i, x) \/ Persist(c, i, x) \/ Replay(c, i, x)
      PROVE  VInv'
  <2>1. CASE Replay(c, i, x)
    BY <2>1, QuietMakes DEF Replay, chainVars
  <2> QED BY <1>2, <2>1, OtherBeginsMake
<1>3. ASSUME NEW c \in Call,
             \/ Claim(c) \/ NothingWritten(c) \/ Confirm(c) \/ Unconfirmed(c) \/ Crash(c)
      PROVE  VInv'
  <2>1. /\ committed' = committed /\ pc[c] # "idle"
        /\ \A e \in Call \ {c} : todo'[e] = todo[e] /\ pc'[e] = pc[e]
        /\ todo'[c] = todo[c] \/ pc'[c] = "idle"
    BY <1>3 DEF Claim, NothingWritten, Confirm, Unconfirmed, Crash, End, chainVars, IInv, Shapes
  <2> QED BY <2>1, QuietMakes
<1> QED BY <1>1, <1>2, <1>3, MigrateMakes, ConfirmSealMakes, WriteMakes DEF Next

(* What racing and dying calls write, _verify_chain accepts: the scope is  *)
(* never blocked by its own records, through any number of handoffs.       *)
THEOREM NeverBlocked == Spec => []NeverSelfBlocked
<1>1. Init => VInv
  BY DEF Init, ChainInit, VInv, AllMade, LinksKeep, CallsMade, NoCycle, Cyclic, SourceOf, Of
<1>2. IInv /\ VInv /\ [Next]_vars => VInv'
  BY StepMakes
<1>3. IInv /\ VInv => NeverSelfBlocked
  BY EverythingVerifies
<1> QED BY <1>1, <1>2, <1>3, Inductive, PTL DEF Spec
-----------------------------------------------------------------------------
(* Types: what the calls build, append and report are records.             *)
LEMMA InitialOK ==
  ASSUME NEW i \in Identity, NEW state \in [open: BOOLEAN, peak: {1}]
  PROVE  RecordOK(InitialRecord(i, state))
<1>1. state \in State
  BY DEF State
<1> QED BY <1>1 DEF RecordOK, RecordNames, InitialRecord, RootRecord, Built, Kinds, RootKinds

LEMMA EventOK ==
  ASSUME NEW h, RecordOK(h), NEW d \in Delivery
  PROVE  RecordOK(EventRecord(h, d))
<1>1. d.at \in Nat /\ d.peak \in Nat
  BY IntradayAssumption DEF DeliveryFields
<1>2. (h.state.open \/ d.trip) \in BOOLEAN
  OBVIOUS
<1>3. [open |-> h.state.open \/ d.trip, peak |-> d.peak] \in State
  BY <1>1, <1>2 DEF State
<1> QED BY <1>1, <1>3 DEF RecordOK, RecordNames, EventRecord, After, Built, Kinds

LEMMA SealOK ==
  ASSUME NEW p, RecordOK(p), NEW j \in Identity
  PROVE  RecordOK(Outgoing(p, j))
BY DEF RecordOK, RecordNames, Outgoing, After, Built, Kinds

LEMMA ImportOK ==
  ASSUME NEW p, NEW j \in Identity, RecordOK(Outgoing(p, j))
  PROVE  RecordOK(Incoming(p, j))
<1>1. p.observed_at \in Nat /\ p.state \in State
  <2>1. Outgoing(p, j).observed_at = p.observed_at /\ Outgoing(p, j).state = p.state
    BY DEF Outgoing, After, Built
  <2> QED BY <2>1 DEF RecordOK
<1> QED BY <1>1 DEF RecordOK, RecordNames, Incoming, RootRecord, Built, Kinds, RootKinds

RecordsOK(t) == \A k \in 1..Len(t) : RecordOK(t[k])

LEMMA OneOK ==
  ASSUME NEW r, RecordOK(r) PROVE RecordsOK(<<r>>) /\ <<r>> # <<>> /\ Len(<<r>>) \in 1..2
BY DEF RecordsOK

LEMMA TwoOK ==
  ASSUME NEW r, NEW s, RecordOK(r), RecordOK(s)
  PROVE  RecordsOK(<<r, s>>) /\ <<r, s>> # <<>> /\ Len(<<r, s>>) \in 1..2
BY DEF RecordsOK

(* A call under way has one or two records left. *)
LEMMA LeftOK ==
  ASSUME IInv, TypeOK, NEW c \in Call, pc[c] # "idle"
  PROVE  RecordOK(todo[c][1])
<1>1. todo[c] = <<todo[c][1]>> \/ todo[c] = <<todo[c][1], todo[c][2]>>
  BY DEF IInv, CallsOK, Alone, Paired
<1>2. 1 \in 1..Len(todo[c])
  BY <1>1
<1> QED BY <1>2 DEF TypeOK

LEMMA BeginTyped ==
  ASSUME IInv, TypeOK, NEW c \in Call, NEW t, NEW ret \in {"no", "unknown", "yes"},
         Begin(c, t, ret), RecordsOK(t), t # <<>>, Len(t) \in 1..2
  PROVE  TypeOK'
<1>1. /\ committed' = committed /\ unreadable' = unreadable /\ issued' = issued
      /\ crashes' = crashes /\ pc' = [pc EXCEPT ![c] = "append"] /\ todo' = [todo EXCEPT ![c] = t]
      /\ out' = [out EXCEPT ![c] = [NoOutput EXCEPT !.record = t[1], !.retired = ret]]
  BY DEF Begin, chainVars
<1>2. RecordOK(t[1])
  BY DEF RecordsOK
<1>3. OutputOK([NoOutput EXCEPT !.record = t[1], !.retired = ret])
  BY <1>2 DEF OutputOK, NoOutput, MaybeRecord
<1>4. pc' \in [Call -> {"idle", "append", "write", "confirm"}]
  BY <1>1 DEF TypeOK
<1>5. ASSUME NEW e \in Call
      PROVE  /\ \A k \in 1..Len(todo'[e]) : RecordOK(todo'[e][k])
             /\ Len(todo'[e]) \in 0..2 /\ (pc'[e] = "idle" <=> todo'[e] = <<>>)
             /\ OutputOK(out'[e])
  <2>1. CASE e = c
    <3>1. todo'[e] = t /\ pc'[e] = "append"
          /\ out'[e] = [NoOutput EXCEPT !.record = t[1], !.retired = ret]
      BY <1>1, <2>1 DEF IInv, Shapes
    <3> QED BY <1>3, <3>1 DEF RecordsOK
  <2>2. CASE e # c
    <3>1. todo'[e] = todo[e] /\ pc'[e] = pc[e] /\ out'[e] = out[e]
      BY <1>1, <2>2 DEF IInv, Shapes
    <3> QED BY <3>1 DEF TypeOK
  <2> QED BY <2>1, <2>2
<1> QED BY <1>1, <1>4, <1>5 DEF TypeOK, RecordOK, OutputOK, MaybeRecord

(* A step that leaves to the calls what they have to append. *)
LEMMA QuietTyped ==
  ASSUME TypeOK, NEW c \in Call,
         \A r \in committed' : r \in committed \/ RecordOK(r),
         \A r \in issued' : r \in issued \/ RecordOK(r),
         unreadable' \subseteq Identity \union {Scope}, crashes' \in 0..MaxCrashes,
         NEW step \in {"idle", "append", "write", "confirm"}, pc' = [pc EXCEPT ![c] = step],
         NEW t, todo' = [todo EXCEPT ![c] = t], RecordsOK(t), Len(t) \in 0..2,
         step = "idle" <=> t = <<>>,
         NEW o, out' = [out EXCEPT ![c] = o], OutputOK(o),
         DOMAIN todo = Call, DOMAIN out = Call
  PROVE  TypeOK'
<1>1. pc' \in [Call -> {"idle", "append", "write", "confirm"}]
  BY DEF TypeOK
<1>2. ASSUME NEW e \in Call
      PROVE  /\ \A k \in 1..Len(todo'[e]) : RecordOK(todo'[e][k])
             /\ Len(todo'[e]) \in 0..2 /\ (pc'[e] = "idle" <=> todo'[e] = <<>>)
             /\ OutputOK(out'[e])
  <2>1. CASE e = c
    <3>1. todo'[e] = t /\ pc'[e] = step /\ out'[e] = o
      BY <2>1 DEF TypeOK
    <3> QED BY <3>1 DEF RecordsOK
  <2>2. CASE e # c
    <3>1. todo'[e] = todo[e] /\ pc'[e] = pc[e] /\ out'[e] = out[e]
      BY <2>2
    <3> QED BY <3>1 DEF TypeOK
  <2> QED BY <2>1, <2>2
<1>3. (\A r \in committed' : RecordOK(r)) /\ (\A r \in issued' : RecordOK(r))
  BY DEF TypeOK
<1> QED BY <1>1, <1>2, <1>3 DEF TypeOK, RecordOK, OutputOK, MaybeRecord

LEMMA InitializeTyped ==
  ASSUME IInv, TypeOK, NEW c \in Call, NEW i \in Identity,
         NEW state \in [open: BOOLEAN, peak: {1}], Initialize(c, i, state)
  PROVE  TypeOK'
<1>1. Begin(c, <<InitialRecord(i, state)>>, "no")
  BY DEF Initialize
<1> QED BY <1>1, InitialOK, OneOK, BeginTyped

LEMMA PersistTyped ==
  ASSUME IInv, TypeOK, NEW c \in Call, NEW i \in Identity, NEW d \in Delivery, Persist(c, i, d)
  PROVE  TypeOK'
<1>1. RecordOK(HeadOf(i))
  BY HeadIsLast DEF Persist, IInv, TypeOK
<1>2. Begin(c, <<EventRecord(HeadOf(i), d)>>, "no")
  BY DEF Persist
<1> QED BY <1>1, <1>2, EventOK, OneOK, BeginTyped

LEMMA MigrateTyped ==
  ASSUME IInv, TypeOK, NEW c \in Call, NEW i \in Identity, NEW j \in Identity, Migrate(c, i, j)
  PROVE  TypeOK'
<1> DEFINE o == Outgoing(PriorOf(i), j)
           r == Incoming(PriorOf(i), j)
<1>1. RecordOK(o)
  <2>1. CASE Sealed(i)
    BY <2>1, HeadIsLast DEF Migrate, Migratable, IInv, TypeOK
  <2>2. CASE ~Sealed(i)
    <3>1. PriorOf(i) \in committed
      BY <2>2, PriorIsThere DEF Migrate, Migratable, IInv
    <3> QED BY <3>1, SealOK DEF TypeOK
  <2> QED BY <2>1, <2>2
<1>2. RecordOK(r)
  BY <1>1, ImportOK
<1>3. Begin(c, <<r>>, "yes") \/ Begin(c, <<o, r>>, "unknown")
  BY DEF Migrate
<1> HIDE DEF o, r
<1>4. CASE Begin(c, <<r>>, "yes")
  BY <1>2, <1>4, OneOK, BeginTyped
<1>5. CASE Begin(c, <<o, r>>, "unknown")
  BY <1>1, <1>2, <1>5, TwoOK, BeginTyped
<1> QED BY <1>3, <1>4, <1>5

LEMMA ReplayTyped ==
  ASSUME IInv, TypeOK, NEW c \in Call, NEW i \in Identity, NEW d \in Delivery, Replay(c, i, d)
  PROVE  TypeOK'
<1> DEFINE o == [NoOutput EXCEPT !.status = "already", !.record = HeadOf(i)]
<1>1. RecordOK(HeadOf(i))
  BY HeadIsLast DEF Replay, IInv, TypeOK
<1>2. OutputOK(o)
  BY <1>1 DEF OutputOK, NoOutput, MaybeRecord
<1>3. /\ UNCHANGED <<committed, unreadable, pc, todo, issued, crashes>>
      /\ out' = [out EXCEPT ![c] = o]
  BY DEF Replay, chainVars
<1> HIDE DEF o
<1>4. ASSUME NEW e \in Call PROVE OutputOK(out'[e])
  BY <1>2, <1>3 DEF TypeOK, IInv, Shapes
<1> QED BY <1>3, <1>4 DEF TypeOK, RecordOK, OutputOK, MaybeRecord

(* Claim, Write and the appends that write nothing. *)
LEMMA AppendTyped ==
  ASSUME IInv, TypeOK, NEW c \in Call, Claim(c) \/ Write(c) \/ NothingWritten(c)
  PROVE  TypeOK'
<1>1. pc[c] # "idle" /\ todo' = todo /\ out' = out /\ issued' = issued /\ crashes' = crashes
  BY DEF Claim, Write, NothingWritten
<1>2. RecordOK(todo[c][1])
  BY <1>1, LeftOK
<1>3. Place(todo[c][1]) \in Identity \union {Scope}
  BY <1>2 DEF Place, RecordOK
<1>4. unreadable' \subseteq Identity \union {Scope}
  BY <1>3 DEF Claim, Write, NothingWritten, TypeOK
<1>5. \A r \in committed' : r \in committed \/ RecordOK(r)
  BY <1>2 DEF Claim, Write, NothingWritten, Commit, chainVars
<1>6. PICK step \in {"write", "confirm"} : pc' = [pc EXCEPT ![c] = step]
  BY DEF Claim, Write, NothingWritten
<1>7. pc' \in [Call -> {"idle", "append", "write", "confirm"}]
  BY <1>6 DEF TypeOK
<1>8. \A e \in Call : pc'[e] = "idle" <=> todo'[e] = <<>>
  BY <1>1, <1>6 DEF TypeOK
<1> QED BY <1>1, <1>4, <1>5, <1>7, <1>8 DEF TypeOK, RecordOK, OutputOK, MaybeRecord

LEMMA EndTyped ==
  ASSUME IInv, TypeOK, NEW c \in Call, NEW status \in {"confirmed", "gaps"},
         NEW draft \in BOOLEAN, End(c, status, draft),
         UNCHANGED <<committed, unreadable, crashes>>,
         \A r \in issued' : r \in issued \/ RecordOK(r)
  PROVE  TypeOK'
<1> DEFINE o == [[out[c] EXCEPT !.status = status] EXCEPT !.draft = draft]
<1>1. pc' = [pc EXCEPT ![c] = "idle"] /\ todo' = [todo EXCEPT ![c] = <<>>]
      /\ out' = [out EXCEPT ![c] = o]
  BY DEF End, IInv, Shapes
<1>2. /\ o.status = status /\ o.draft = draft /\ o.record = out[c].record
      /\ o.retired = out[c].retired
  BY DEF IInv, Shapes, Fields
<1>3. OutputOK(o)
  BY <1>2 DEF OutputOK, TypeOK
<1>4. RecordsOK(<<>>) /\ Len(<<>>) \in 0..2
  BY DEF RecordsOK
<1> HIDE DEF o
<1>5. crashes' \in 0..MaxCrashes /\ unreadable' \subseteq Identity \union {Scope}
  BY DEF TypeOK
<1> QED BY <1>1, <1>3, <1>4, <1>5, QuietTyped DEF IInv, Shapes

LEMMA ConfirmTyped ==
  ASSUME IInv, TypeOK, NEW c \in Call, Confirm(c) \/ Unconfirmed(c)
  PROVE  TypeOK'
<1>1. RecordOK(todo[c][1])
  BY LeftOK DEF Confirm, Unconfirmed
<1>2. CASE Confirm(c)
  <2>1. \A r \in issued' : r \in issued \/ RecordOK(r)
    BY <1>1, <1>2 DEF Confirm
  <2>2. PICK draft \in BOOLEAN : End(c, "confirmed", draft)
    <3>1. CASE HasDraft(todo[c][1])
      <4>1. HasDraft(todo[c][1]) = TRUE
        BY <3>1 DEF HasDraft
      <4> QED BY <1>2, <4>1 DEF Confirm
    <3>2. CASE ~HasDraft(todo[c][1])
      <4>1. HasDraft(todo[c][1]) = FALSE
        BY <3>2 DEF HasDraft
      <4> QED BY <1>2, <4>1 DEF Confirm
    <3> QED BY <3>1, <3>2
  <2> QED BY <1>2, <2>1, <2>2, EndTyped DEF Confirm, chainVars
<1>3. CASE Unconfirmed(c)
  BY <1>3, EndTyped DEF Unconfirmed, chainVars
<1> QED BY <1>2, <1>3

LEMMA CrashTyped ==
  ASSUME IInv, TypeOK, NEW c \in Call, Crash(c)
  PROVE  TypeOK'
<1>1. /\ pc' = [pc EXCEPT ![c] = "idle"] /\ todo' = [todo EXCEPT ![c] = <<>>]
      /\ out' = [out EXCEPT ![c] = NoOutput] /\ crashes' = crashes + 1 /\ crashes < MaxCrashes
      /\ UNCHANGED <<committed, unreadable, issued>>
  BY DEF Crash, chainVars
<1>2. crashes' \in 0..MaxCrashes /\ unreadable' \subseteq Identity \union {Scope}
  BY <1>1, IntradayAssumption DEF TypeOK
<1>3. OutputOK(NoOutput) /\ RecordsOK(<<>>) /\ Len(<<>>) \in 0..2
  BY DEF OutputOK, NoOutput, MaybeRecord, RecordsOK
<1> HIDE DEF NoOutput
<1> QED BY <1>1, <1>2, <1>3, QuietTyped DEF IInv, Shapes

LEMMA ConfirmSealTyped ==
  ASSUME IInv, TypeOK, NEW c \in Call, ConfirmSeal(c)
  PROVE  TypeOK'
<1> DEFINE t == todo[c]
           o == [[out[c] EXCEPT !.record = t[2]] EXCEPT !.retired = "yes"]
<1>1. /\ pc[c] = "confirm" /\ Len(t) = 2 /\ pc' = [pc EXCEPT ![c] = "append"]
      /\ todo' = [todo EXCEPT ![c] = Tail(t)] /\ out' = [out EXCEPT ![c] = o]
      /\ UNCHANGED <<committed, unreadable, issued, crashes>>
  BY DEF ConfirmSeal, chainVars, IInv, Shapes
<1>2. RecordOK(t[2])
  BY <1>1 DEF TypeOK
<1>3. Tail(t) = <<t[2]>>
  <2>1. Alone(t) \/ Paired(t)
    BY <1>1 DEF IInv, CallsOK
  <2>2. t = <<t[1], t[2]>>
    BY <1>1, <2>1 DEF Alone, Paired
  <2>3. Tail(<<t[1], t[2]>>) = <<t[2]>>
    OBVIOUS
  <2> QED BY <2>2, <2>3
<1>4. /\ o.record = t[2] /\ o.retired = "yes" /\ o.status = out[c].status
      /\ o.draft = out[c].draft
  BY DEF IInv, Shapes, Fields
<1>5. OutputOK(o)
  BY <1>2, <1>4 DEF OutputOK, MaybeRecord, TypeOK
<1>6. RecordsOK(<<t[2]>>) /\ <<t[2]>> # <<>> /\ Len(<<t[2]>>) \in 0..2
  BY <1>2, OneOK
<1>7. crashes' \in 0..MaxCrashes /\ unreadable' \subseteq Identity \union {Scope}
  BY <1>1 DEF TypeOK
<1> HIDE DEF o
<1>8. todo' = [todo EXCEPT ![c] = <<t[2]>>]
  BY <1>1, <1>3
<1> HIDE DEF t
<1> QED BY <1>1, <1>5, <1>6, <1>7, <1>8, QuietTyped DEF IInv, Shapes

LEMMA StepTyped == IInv /\ TypeOK /\ [Next]_vars => TypeOK'
<1> SUFFICES ASSUME IInv, TypeOK, [Next]_vars PROVE TypeOK'
  OBVIOUS
<1>1. CASE UNCHANGED vars
  BY <1>1 DEF vars, calls, chainVars, TypeOK, RecordOK, OutputOK, MaybeRecord
<1>2. CASE Next
  <2>1. PICK c \in Call :
          \/ \E i \in Identity, state \in [open: BOOLEAN, peak: {1}] : Initialize(c, i, state)
          \/ \E i \in Identity, d \in Delivery : Persist(c, i, d) \/ Replay(c, i, d)
          \/ \E i, j \in Identity : Migrate(c, i, j)
          \/ Claim(c) \/ Write(c) \/ NothingWritten(c)
          \/ ConfirmSeal(c) \/ Confirm(c) \/ Unconfirmed(c)
          \/ Crash(c)
    BY <1>2 DEF Next
  <2>2. CASE \E i \in Identity, state \in [open: BOOLEAN, peak: {1}] : Initialize(c, i, state)
    BY <2>2, InitializeTyped
  <2>3. CASE \E i \in Identity, d \in Delivery : Persist(c, i, d) \/ Replay(c, i, d)
    BY <2>3, PersistTyped, ReplayTyped
  <2>4. CASE \E i, j \in Identity : Migrate(c, i, j)
    BY <2>4, MigrateTyped
  <2>5. CASE Claim(c) \/ Write(c) \/ NothingWritten(c)
    BY <2>5, AppendTyped
  <2>6. CASE ConfirmSeal(c) \/ Confirm(c) \/ Unconfirmed(c) \/ Crash(c)
    BY <2>6, ConfirmSealTyped, ConfirmTyped, CrashTyped
  <2> QED BY <2>1, <2>2, <2>3, <2>4, <2>5, <2>6
<1> QED BY <1>1, <1>2

LEMMA InitTyped == Init => TypeOK
<1> SUFFICES ASSUME Init PROVE TypeOK
  OBVIOUS
<1>1. OutputOK(NoOutput)
  BY DEF OutputOK, NoOutput, MaybeRecord
<1> HIDE DEF NoOutput
<1> QED BY <1>1, IntradayAssumption DEF Init, ChainInit, TypeOK

(* Every record on the chains, still to be appended, reported or behind a  *)
(* draft is one build_event_record makes, under its own digest; a call     *)
(* that is idle has nothing left to append, any other one or two records.  *)
THEOREM TypeCorrect == Spec => []TypeOK
<1>1. Init => TypeOK
  BY InitTyped
<1>2. IInv /\ TypeOK /\ [Next]_vars => TypeOK'
  BY StepTyped
<1> QED BY <1>1, <1>2, Inductive, PTL DEF Spec
===============================================================================
