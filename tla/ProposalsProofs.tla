-------------------------- MODULE ProposalsProofs --------------------------
\* The properties of module Proposals for every number of proposals, reviews, edits,
\* restores and faults, and every limit on the store and the histories.
EXTENDS Proposals, SequenceTheorems, FiniteSetTheorems, TLAPS

JournalFold == INSTANCE FoldInduction WITH Op <- ReconciledOne
RefreshFold == INSTANCE FoldInduction WITH Op <- RefreshedOne

-----------------------------------------------------------------------------
\* The inductive invariant

Groups == Edits \cup UNION {Approvals[p] : p \in Ids}
Statuses == {"pending", "rejected", "stale", "expired", "applied", "restored"}
Proposal == [id : Ids, base : Nat, status : Statuses, group : Groups \cup {None}]
Store == [proposals : Seq(Proposal), audit : Seq(Ids \X Statuses)]
Ops == {<<>>} \cup {<<g>> : g \in Groups} \cup (Operations \X Nat)
Line == [op : Ops, group : Groups, proposal : Ids \cup {None}, state : Seq(Groups)]

\* The commits of p in journal j, and the state after its first r records.
CommitsIn(j, p) == {i \in DOMAIN j : j[i].proposal = p}
StateIn(j, r) == IF r = 0 THEN <<>> ELSE j[r].state

AppliedOnce(j) == \A p \in Ids : \A i, k \in CommitsIn(j, p) : i = k

\* What the store says of a proposal is what the journal says.
Agrees(j, x) ==
  /\ x.status \in {"applied", "restored"} => \E c \in CommitsIn(j, x.id) : x.group = j[c].group
  /\ x.status \in {"rejected", "stale", "expired"} => CommitsIn(j, x.id) = {}

UniqueIds(s) == \A a, b \in DOMAIN s.proposals : s.proposals[a].id = s.proposals[b].id => a = b

\* An application is told of once, of a proposal that is in the journal and not open.
AuditSound(j, s) ==
  /\ \A k \in DOMAIN s.audit : s.audit[k][2] = "applied" => CommitsIn(j, s.audit[k][1]) # {}
  /\ \A k, l \in DOMAIN s.audit : s.audit[k] = s.audit[l] /\ s.audit[k][2] = "applied" => k = l
  /\ \A a \in DOMAIN s.proposals : s.proposals[a].status = "pending" =>
       \A k \in DOMAIN s.audit : s.audit[k] # <<s.proposals[a].id, "applied">>

\* A store that is true of journal j, of proposals made for the revisions m.
Good(j, m, s) ==
  /\ s \in Store
  /\ UniqueIds(s)
  /\ \A a \in DOMAIN s.proposals :
       /\ Agrees(j, s.proposals[a])
       /\ m[s.proposals[a].id] # None
       /\ AuditTells(s.audit, s.proposals[a])
  /\ AuditSound(j, s)

\* What can be undone and redone: the present state, and behind it what was undone.
Full(present, re) ==
  [i \in 1 .. Len(present) + Len(re) |->
     IF i <= Len(present) THEN present[i] ELSE re[Len(present) + Len(re) + 1 - i]]

IsCommit(r) == r.op = <<r.group>>

\* Below each group stands the state it was committed to.
CommitsHold(j, full) ==
  \A c \in DOMAIN j : IsCommit(j[c]) =>
    \A i \in DOMAIN full : full[i] = j[c].group =>
      /\ Len(StateIn(j, c - 1)) = i - 1
      /\ \A k \in 1 .. i - 1 : StateIn(j, c - 1)[k] = full[k]

AllWereCommitted(j, full) == \A i \in DOMAIN full : \E c \in DOMAIN j : j[c].op = <<full[i]>>

UndoIsItsEnd(un, present) ==
  /\ Len(un) <= Len(present)
  /\ \A k \in 1 .. Len(un) : un[k] = present[Len(present) - Len(un) + k]

HistoryHolds(j, un, re) ==
  LET present == StateIn(j, Len(j)) IN
  /\ UndoIsItsEnd(un, present)
  /\ AllWereCommitted(j, Full(present, re))
  /\ CommitsHold(j, Full(present, re))
  /\ \A c \in DOMAIN j : j[c].proposal # None => IsCommit(j[c])

JournalSound == journal \in Seq(Line) /\ AppliedOnce(journal)

\* A proposal is made for a revision of the past, and committed after it.
MadeBefore ==
  \A p \in Ids : /\ made[p] # None => made[p] \in 0 .. Revision
                 /\ CommitsIn(journal, p) # {} => made[p] \in 0 .. Revision - 1

Lock == [kind : {"apply"}, store : Store]
          \cup [kind : {"restore"}, op : Operations, step : Nat, steps : Nat, store : Store]

\* The store that an operation will save is as true as the one in place.
StoresAreGood ==
  /\ Good(journal, made, store)
  /\ lock = None \/ (lock \in Lock /\ Good(journal, made, lock.store))

TypesHold ==
  /\ undo \in Seq(Groups) /\ redo \in Seq(Groups)
  /\ made \in [Ids -> Nat \cup {None}] /\ late \in SUBSET Ids
  /\ faults \in 0 .. MaxFaults

IInv ==
  /\ TypesHold /\ JournalSound /\ MadeBefore /\ StoresAreGood
  /\ HistoryHolds(journal, undo, redo)

-----------------------------------------------------------------------------
\* The audit

\* What one more entry changes in the newest about a proposal.
LEMMA AuditAppended ==
  ASSUME NEW audit \in Seq(Ids \X Statuses), NEW p \in Ids, NEW status \in Statuses
  PROVE  LET more == Append(audit, <<p, status>>)
             n == Len(audit)
         IN /\ more \in Seq(Ids \X Statuses) /\ Len(more) = n + 1 /\ n \in Nat
            /\ \A q \in Ids \ {p} : LastOf(more, n + 1, q) = LastOf(audit, n, q)
            /\ LastOf(more, n + 1, p) = {n + 1}
            /\ \A k \in 0 .. n, q \in Ids : LastOf(more, k, q) = LastOf(audit, k, q)
            /\ \A i \in 1 .. n : more[i] = audit[i]
            /\ more[n + 1] = <<p, status>>
<1> DEFINE more == Append(audit, <<p, status>>)
           n == Len(audit)
<1>1. /\ n \in Nat /\ Len(more) = n + 1 /\ more[n + 1] = <<p, status>>
      /\ \A i \in 1 .. n : more[i] = audit[i]
  OBVIOUS
<1>2. more[n + 1][1] = p
  BY <1>1
<1>3. more \in Seq(Ids \X Statuses)
  OBVIOUS
<1> HIDE DEF more, n
<1>4. \A k \in 0 .. n, q \in Ids : LastOf(more, k, q) = LastOf(audit, k, q)
  BY <1>1 DEF LastOf
<1>5. LastOf(more, n + 1, p) = {n + 1}
  BY <1>1, <1>2 DEF LastOf
<1>6. ASSUME NEW q \in Ids \ {p}
      PROVE  LastOf(more, n + 1, q) = LastOf(audit, n, q)
  BY <1>1, <1>2 DEF LastOf
<1> QED
  BY <1>1, <1>3, <1>4, <1>5, <1>6 DEF more, n

\* A verdict about p leaves what the audit tells of the others.
LEMMA AuditOfOthers ==
  ASSUME NEW audit \in Seq(Ids \X Statuses), NEW p \in Ids, NEW status \in Statuses,
         NEW x \in Proposal, x.id # p, AuditTells(audit, x),
         NEW more, more = Append(audit, <<p, status>>)
  PROVE  AuditTells(more, x)
<1> DEFINE n == Len(audit)
<1>1. /\ Len(more) = n + 1 /\ n \in Nat
      /\ LastOf(more, n + 1, x.id) = LastOf(audit, n, x.id)
      /\ \A k \in 0 .. n : LastOf(more, k, x.id) = LastOf(audit, k, x.id)
      /\ \A i \in 1 .. n : more[i] = audit[i]
  BY AuditAppended DEF Proposal
<1>2. \A i \in LastOf(audit, n, x.id) : i \in 1 .. n /\ i - 1 \in 0 .. n
  BY <1>1 DEF LastOf
<1>3. \A k \in 0 .. n : \A i \in LastOf(audit, k, x.id) : i \in 1 .. n
  BY <1>1 DEF LastOf
<1> HIDE DEF n
<1>4. \A st \in Statuses, k \in 0 .. n : Ends(audit, k, x.id, st) => Ends(more, k, x.id, st)
  BY <1>1, <1>3 DEF Ends
<1>5. \A st \in Statuses : Ends(audit, n, x.id, st) => Ends(more, n + 1, x.id, st)
  BY <1>1, <1>3 DEF Ends
<1> QED
  BY <1>1, <1>2, <1>4, <1>5 DEF AuditTells, n, Proposal, Statuses

\* A verdict about x itself, which is a restore only of what the audit tells as applied.
LEMMA AuditOfVerdict ==
  ASSUME NEW audit \in Seq(Ids \X Statuses), NEW x \in Proposal, x.status # "pending",
         x.status = "restored" => Ends(audit, Len(audit), x.id, "applied")
  PROVE  AuditTells(Append(audit, <<x.id, x.status>>), x)
<1> DEFINE more == Append(audit, <<x.id, x.status>>)
           n == Len(audit)
<1>0. x.id \in Ids /\ x.status \in Statuses
  BY DEF Proposal
<1>a. /\ Len(more) = n + 1 /\ n \in Nat
      /\ LastOf(more, n + 1, x.id) = {n + 1}
      /\ \A k \in 0 .. n, q \in Ids : LastOf(more, k, q) = LastOf(audit, k, q)
      /\ \A i \in 1 .. n : more[i] = audit[i]
      /\ more[n + 1] = <<x.id, x.status>>
  BY <1>0, AuditAppended
<1>1. /\ Len(more) = n + 1 /\ n \in Nat
      /\ LastOf(more, n + 1, x.id) = {n + 1}
      /\ LastOf(more, n, x.id) = LastOf(audit, n, x.id)
      /\ \A i \in 1 .. n : more[i] = audit[i]
      /\ more[n + 1] = <<x.id, x.status>>
  <2> HIDE DEF more, n
  <2> QED
    BY <1>0, <1>a
<1>2. \A i \in LastOf(audit, n, x.id) : i \in 1 .. n
  BY DEF LastOf
<1> HIDE DEF more, n
<1>3. Ends(more, n + 1, x.id, x.status)
  BY <1>1 DEF Ends
<1>4. x.status = "restored" => Ends(more, n, x.id, "applied")
  BY <1>1, <1>2 DEF Ends, n
<1>5. AuditTells(more, x)
  BY <1>1, <1>3, <1>4 DEF AuditTells
<1> QED
  BY <1>5 DEF more

-----------------------------------------------------------------------------
\* Verdicts

\* A verdict on p, which is open or, for a restore, applied.
LEMMA JudgedIsGood ==
  ASSUME NEW j, NEW m, NEW s, Good(j, m, s), NEW p \in Ids, NEW status \in Statuses \ {"pending"},
         NEW t \in Store, DOMAIN t.proposals = DOMAIN s.proposals,
         t.audit = Append(s.audit, <<p, status>>),
         \A a \in DOMAIN s.proposals :
            /\ t.proposals[a].id = s.proposals[a].id
            /\ s.proposals[a].id = p => t.proposals[a].status = status /\ Agrees(j, t.proposals[a])
            /\ s.proposals[a].id # p => t.proposals[a] = s.proposals[a],
         status = "restored" => HasStatus(s, p, "applied"),
         status = "applied" => HasStatus(s, p, "pending") /\ CommitsIn(j, p) # {}
  PROVE  Good(j, m, t)
<1>0. /\ s \in Store /\ UniqueIds(s) /\ AuditSound(j, s)
      /\ \A a \in DOMAIN s.proposals :
           /\ s.proposals[a] \in Proposal /\ t.proposals[a] \in Proposal
           /\ Agrees(j, s.proposals[a])
           /\ m[s.proposals[a].id] # None
           /\ AuditTells(s.audit, s.proposals[a])
  <2>1. s.proposals \in Seq(Proposal) /\ t.proposals \in Seq(Proposal)
    BY DEF Good, Store
  <2> QED
    BY <2>1 DEF Good
<1>1. UniqueIds(t)
  BY <1>0 DEF UniqueIds
<1>2. s.audit \in Seq(Ids \X Statuses)
  BY <1>0 DEF Store
<1>3. ASSUME NEW a \in DOMAIN t.proposals
      PROVE  /\ Agrees(j, t.proposals[a]) /\ m[t.proposals[a].id] # None
             /\ AuditTells(t.audit, t.proposals[a])
  <2>1. CASE s.proposals[a].id # p
    <3>0. /\ s.proposals[a] \in Proposal /\ AuditTells(s.audit, s.proposals[a])
          /\ status \in Statuses
      BY <1>0, <2>1
    <3>1. AuditTells(t.audit, s.proposals[a])
      BY <1>2, <2>1, <3>0, AuditOfOthers
    <3> QED
      BY <1>0, <2>1, <3>1
  <2>2. CASE s.proposals[a].id = p
    <3>1. status = "restored" => Ends(s.audit, Len(s.audit), p, "applied")
      <4>1. SUFFICES ASSUME status = "restored"
                     PROVE  Ends(s.audit, Len(s.audit), p, "applied")
        OBVIOUS
      <4>2. PICK b \in DOMAIN s.proposals : s.proposals[b].id = p /\ s.proposals[b].status = "applied"
        BY <4>1 DEF HasStatus, Places
      <4> QED
        BY <1>0, <4>2 DEF AuditTells
    <3>2. /\ t.proposals[a].id = p /\ t.proposals[a].status = status /\ t.proposals[a] \in Proposal
      BY <1>0, <2>2
    <3>3. AuditTells(t.audit, t.proposals[a])
      BY <1>2, <3>1, <3>2, AuditOfVerdict
    <3> QED
      BY <1>0, <2>2, <3>2, <3>3
  <2> QED
    BY <2>1, <2>2
<1>4. AuditSound(j, t)
  <2> DEFINE n == Len(s.audit)
  <2>1. /\ n \in Nat /\ DOMAIN s.audit = 1 .. n /\ DOMAIN t.audit = 1 .. n + 1
        /\ t.audit[n + 1] = <<p, status>>
        /\ \A k \in 1 .. n : t.audit[k] = s.audit[k]
    BY <1>2
  <2> HIDE DEF n
  <2>2. status = "applied" => \A k \in DOMAIN s.audit : s.audit[k] # <<p, "applied">>
    BY <1>0 DEF AuditSound, HasStatus, Places
  <2>3. t.audit[n + 1][1] = p /\ t.audit[n + 1][2] = status
    BY <2>1
  <2>4. \A k \in DOMAIN t.audit : t.audit[k][2] = "applied" => CommitsIn(j, t.audit[k][1]) # {}
    <3>1. SUFFICES ASSUME NEW k \in DOMAIN t.audit, t.audit[k][2] = "applied"
                   PROVE  CommitsIn(j, t.audit[k][1]) # {}
      OBVIOUS
    <3>2. CASE k \in 1 .. n
      BY <1>0, <2>1, <3>1, <3>2 DEF AuditSound
    <3>3. CASE k = n + 1
      BY <2>3, <3>1, <3>3
    <3>4. k \in 1 .. n \/ k = n + 1
      BY <2>1
    <3> QED
      BY <3>2, <3>3, <3>4
  <2>5. \A k, l \in DOMAIN t.audit : t.audit[k] = t.audit[l] /\ t.audit[k][2] = "applied" => k = l
    BY <1>0, <2>1, <2>2, <2>3 DEF AuditSound
  <2>6. \A a \in DOMAIN t.proposals : t.proposals[a].status = "pending" =>
          \A k \in DOMAIN t.audit : t.audit[k] # <<t.proposals[a].id, "applied">>
    BY <1>0, <2>1, <2>3 DEF AuditSound
  <2> QED
    BY <2>4, <2>5, <2>6 DEF AuditSound
<1> QED
  BY <1>1, <1>3, <1>4 DEF Good

\* A verdict, and what it leaves alone.
LEMMA ShapeOfVerdict ==
  ASSUME NEW s \in Store, NEW p \in Ids, NEW status \in Statuses
  PROVE  LET t == WithStatus(s, p, status) IN
         /\ t \in Store /\ DOMAIN t.proposals = DOMAIN s.proposals
         /\ t.audit = Append(s.audit, <<p, status>>)
         /\ \A a \in DOMAIN s.proposals :
                       t.proposals[a] = IF s.proposals[a].id = p
                                        THEN [s.proposals[a] EXCEPT !.status = status]
                                        ELSE s.proposals[a]
<1>0. /\ s.proposals \in Seq(Proposal) /\ s.audit \in Seq(Ids \X Statuses)
      /\ Len(s.proposals) \in Nat /\ DOMAIN s.proposals = 1 .. Len(s.proposals)
      /\ \A a \in DOMAIN s.proposals : s.proposals[a] \in Proposal
  BY DEF Store
<1> DEFINE t == WithStatus(s, p, status)
<1>1. /\ DOMAIN t.proposals = DOMAIN s.proposals /\ t.audit = Append(s.audit, <<p, status>>)
      /\ \A a \in DOMAIN s.proposals :
           t.proposals[a] = IF s.proposals[a].id = p
                            THEN [s.proposals[a] EXCEPT !.status = status]
                            ELSE s.proposals[a]
      /\ t = [proposals |-> t.proposals, audit |-> t.audit]
      /\ t.proposals = [a \in DOMAIN s.proposals |-> t.proposals[a]]
  BY DEF WithStatus, Places
<1>2. \A a \in DOMAIN s.proposals : t.proposals[a] \in Proposal
  <2> HIDE DEF t
  <2> QED
    BY <1>0, <1>1 DEF Proposal
<1>3. t.audit \in Seq(Ids \X Statuses)
  BY <1>0, <1>1
<1> HIDE DEF t
<1>4. t.proposals \in Seq(Proposal)
  <2>1. t.proposals \in [1 .. Len(s.proposals) -> Proposal]
    BY <1>0, <1>1, <1>2
  <2> QED
    BY <1>0, <2>1
<1>5. t \in Store
  BY <1>1, <1>3, <1>4 DEF Store
<1> QED
  BY <1>1, <1>5 DEF t

\* The two fields an application sets.
LEMMA FieldsOfApplied ==
  ASSUME NEW x \in Proposal, NEW g \in Groups
  PROVE  /\ [x EXCEPT !.status = "applied", !.group = g]
              = [id |-> x.id, base |-> x.base, status |-> "applied", group |-> g]
         /\ [id |-> x.id, base |-> x.base, status |-> "applied", group |-> g] \in Proposal
<1>1. x = [id |-> x.id, base |-> x.base, status |-> x.status, group |-> x.group]
  BY DEF Proposal
<1> DEFINE y == [x EXCEPT !.status = "applied"]
<1>2. y = [id |-> x.id, base |-> x.base, status |-> "applied", group |-> x.group]
  BY <1>1
<1> HIDE DEF y
<1>3. [y EXCEPT !.group = g]
        = [id |-> x.id, base |-> x.base, status |-> "applied", group |-> g]
  BY <1>2
<1> USE DEF y
<1>4. [id |-> x.id, base |-> x.base, status |-> "applied", group |-> g] \in Proposal
  BY DEF Proposal, Statuses
<1> QED
  BY <1>3, <1>4

\* An application, which also notes the group.
LEMMA ShapeOfApplied ==
  ASSUME NEW s \in Store, NEW p \in Ids, NEW g \in Groups
  PROVE  LET t == WithApplied(s, p, g) IN
         /\ t \in Store /\ DOMAIN t.proposals = DOMAIN s.proposals
         /\ t.audit = Append(s.audit, <<p, "applied">>)
         /\ \A a \in DOMAIN s.proposals :
                       t.proposals[a] = IF s.proposals[a].id = p
                                        THEN [id |-> p, base |-> s.proposals[a].base,
                                              status |-> "applied", group |-> g]
                                        ELSE s.proposals[a]
<1>0. /\ s.proposals \in Seq(Proposal) /\ s.audit \in Seq(Ids \X Statuses)
      /\ Len(s.proposals) \in Nat /\ DOMAIN s.proposals = 1 .. Len(s.proposals)
      /\ \A a \in DOMAIN s.proposals : s.proposals[a] \in Proposal
  BY DEF Store
<1> DEFINE t == WithApplied(s, p, g)
<1>1. /\ DOMAIN t.proposals = DOMAIN s.proposals /\ t.audit = Append(s.audit, <<p, "applied">>)
      /\ \A a \in DOMAIN s.proposals :
           t.proposals[a] = IF s.proposals[a].id = p
                            THEN [id |-> p, base |-> s.proposals[a].base,
                                  status |-> "applied", group |-> g]
                            ELSE s.proposals[a]
      /\ t = [proposals |-> t.proposals, audit |-> t.audit]
      /\ t.proposals = [a \in DOMAIN s.proposals |-> t.proposals[a]]
  <2>1. t = [proposals |-> [a \in DOMAIN s.proposals |->
                               IF a \in Places(s, p)
                               THEN [s.proposals[a] EXCEPT !.status = "applied", !.group = g]
                               ELSE s.proposals[a]],
             audit |-> Append(s.audit, <<p, "applied">>)]
    BY DEF WithApplied
  <2>2. \A a \in DOMAIN s.proposals :
           (IF a \in Places(s, p) THEN [s.proposals[a] EXCEPT !.status = "applied", !.group = g]
            ELSE s.proposals[a])
             = IF s.proposals[a].id = p
               THEN [id |-> p, base |-> s.proposals[a].base, status |-> "applied", group |-> g]
               ELSE s.proposals[a]
    BY <1>0, FieldsOfApplied DEF Places
  <2>3. t = [proposals |-> [a \in DOMAIN s.proposals |->
                               IF s.proposals[a].id = p
                               THEN [id |-> p, base |-> s.proposals[a].base,
                                     status |-> "applied", group |-> g]
                               ELSE s.proposals[a]],
             audit |-> Append(s.audit, <<p, "applied">>)]
    BY <2>1, <2>2, Zenon
  <2> HIDE DEF t
  <2> QED
    BY <2>3
<1>2. \A a \in DOMAIN s.proposals : t.proposals[a] \in Proposal
  <2> HIDE DEF t
  <2>1. ASSUME NEW a \in DOMAIN s.proposals
        PROVE  t.proposals[a] \in Proposal
    <3>1. s.proposals[a] \in Proposal
      BY <1>0
    <3>2. CASE s.proposals[a].id = p
      <4>1. t.proposals[a] = [id |-> s.proposals[a].id, base |-> s.proposals[a].base,
                              status |-> "applied", group |-> g]
        BY <1>1, <3>2
      <4> QED
        BY <3>1, <4>1, FieldsOfApplied
    <3>3. CASE s.proposals[a].id # p
      BY <1>1, <3>1, <3>3
    <3> QED
      BY <3>2, <3>3
  <2> QED
    BY <2>1
<1>3. t.audit \in Seq(Ids \X Statuses)
  <2>1. "applied" \in Statuses
    BY DEF Statuses
  <2>2. <<p, "applied">> \in Ids \X Statuses
    BY <2>1
  <2> HIDE DEF t
  <2> QED
    BY <1>0, <1>1, <2>2
<1> HIDE DEF t
<1>4. t.proposals \in Seq(Proposal)
  <2>1. t.proposals \in [1 .. Len(s.proposals) -> Proposal]
    BY <1>0, <1>1, <1>2
  <2> QED
    BY <1>0, <2>1
<1>5. t \in Store
  BY <1>1, <1>3, <1>4 DEF Store
<1> QED
  BY <1>1, <1>5 DEF t

\* reject_proposal, mark_proposal_stale and the expiry: of what the journal does not have.
LEMMA ResolvedIsGood ==
  ASSUME NEW j, NEW m, NEW s, Good(j, m, s), NEW p \in Ids, CommitsIn(j, p) = {},
         NEW status \in {"rejected", "stale", "expired"}
  PROVE  Good(j, m, WithStatus(s, p, status))
<1> DEFINE t == WithStatus(s, p, status)
<1>0. s \in Store /\ status \in Statuses
  BY DEF Good, Statuses
<1>1. /\ t \in Store /\ DOMAIN t.proposals = DOMAIN s.proposals
      /\ t.audit = Append(s.audit, <<p, status>>)
      /\ \A a \in DOMAIN s.proposals :
           t.proposals[a] = IF s.proposals[a].id = p
                            THEN [s.proposals[a] EXCEPT !.status = status] ELSE s.proposals[a]
  BY <1>0, ShapeOfVerdict
<1>2. \A a \in DOMAIN s.proposals : s.proposals[a] \in Proposal
  BY <1>0 DEF Store
<1> HIDE DEF t
<1>3. ASSUME NEW a \in DOMAIN s.proposals
      PROVE  /\ t.proposals[a].id = s.proposals[a].id
             /\ s.proposals[a].id = p => t.proposals[a].status = status /\ Agrees(j, t.proposals[a])
             /\ s.proposals[a].id # p => t.proposals[a] = s.proposals[a]
  BY <1>1, <1>2 DEF Proposal, Agrees
<1> QED
  BY <1>0, <1>1, <1>3, JudgedIsGood DEF t

\* apply_proposal, and the reconciliation: of what the journal has.
LEMMA AppliedIsGood ==
  ASSUME NEW j, NEW m, NEW s, Good(j, m, s), NEW p \in Ids, HasStatus(s, p, "pending"),
         NEW c \in CommitsIn(j, p), j[c].group \in Groups
  PROVE  Good(j, m, WithApplied(s, p, j[c].group))
<1>g. PICK g \in Groups : g = j[c].group
  OBVIOUS
<1> DEFINE t == WithApplied(s, p, g)
<1>0. s \in Store /\ "applied" \in Statuses
  BY DEF Good, Statuses
<1>1. /\ t \in Store /\ DOMAIN t.proposals = DOMAIN s.proposals
      /\ t.audit = Append(s.audit, <<p, "applied">>)
      /\ \A a \in DOMAIN s.proposals :
           t.proposals[a] = IF s.proposals[a].id = p
                            THEN [id |-> p, base |-> s.proposals[a].base, status |-> "applied", group |-> g]
                            ELSE s.proposals[a]
  BY <1>0, ShapeOfApplied
<1>2. \A a \in DOMAIN s.proposals : s.proposals[a] \in Proposal
  BY <1>0 DEF Store
<1> HIDE DEF t
<1>3. ASSUME NEW a \in DOMAIN s.proposals
      PROVE  /\ t.proposals[a].id = s.proposals[a].id
             /\ s.proposals[a].id = p => t.proposals[a].status = "applied" /\ Agrees(j, t.proposals[a])
             /\ s.proposals[a].id # p => t.proposals[a] = s.proposals[a]
  <2>1. s.proposals[a] \in Proposal
    BY <1>2
  <2>2. CASE s.proposals[a].id = p
    <3>1. /\ t.proposals[a].id = p /\ t.proposals[a].status = "applied"
          /\ t.proposals[a].group = j[c].group
      <4>1. t.proposals[a] = [id |-> p, base |-> s.proposals[a].base, status |-> "applied", group |-> g]
        BY <1>1, <2>2
      <4> QED
        BY <1>g, <4>1
    <3> QED
      BY <2>2, <3>1 DEF Agrees
  <2> QED
    BY <1>1, <2>2
<1>4. CommitsIn(j, p) # {}
  OBVIOUS
<1>5. Good(j, m, t)
  BY <1>0, <1>1, <1>3, <1>4, JudgedIsGood
<1> QED
  BY <1>g, <1>5 DEF t

\* restore_before_proposal.
LEMMA RestoredIsGood ==
  ASSUME NEW j, NEW m, NEW s, Good(j, m, s), NEW p \in Ids, HasStatus(s, p, "applied")
  PROVE  Good(j, m, WithStatus(s, p, "restored"))
<1> DEFINE t == WithStatus(s, p, "restored")
<1>0. s \in Store /\ "restored" \in Statuses
  BY DEF Good, Statuses
<1>1. /\ t \in Store /\ DOMAIN t.proposals = DOMAIN s.proposals
      /\ t.audit = Append(s.audit, <<p, "restored">>)
      /\ \A a \in DOMAIN s.proposals :
           t.proposals[a] = IF s.proposals[a].id = p
                            THEN [s.proposals[a] EXCEPT !.status = "restored"] ELSE s.proposals[a]
  BY <1>0, ShapeOfVerdict
<1>2. \A a \in DOMAIN s.proposals :
         /\ s.proposals[a] \in Proposal
         /\ s.proposals[a].id = p => Agrees(j, s.proposals[a]) /\ s.proposals[a].status = "applied"
  BY <1>0 DEF Store, Good, HasStatus, Places, UniqueIds
<1> HIDE DEF t
<1>3. ASSUME NEW a \in DOMAIN s.proposals
      PROVE  /\ t.proposals[a].id = s.proposals[a].id
             /\ s.proposals[a].id = p => t.proposals[a].status = "restored" /\ Agrees(j, t.proposals[a])
             /\ s.proposals[a].id # p => t.proposals[a] = s.proposals[a]
  <2>1. s.proposals[a] \in Proposal
    BY <1>2
  <2>2. CASE s.proposals[a].id = p
    <3>1. /\ t.proposals[a].id = p /\ t.proposals[a].status = "restored"
          /\ t.proposals[a].group = s.proposals[a].group
      BY <1>1, <2>1, <2>2 DEF Proposal
    <3> QED
      BY <1>2, <2>2, <3>1 DEF Agrees
  <2> QED
    BY <1>1, <2>2
<1> QED
  BY <1>0, <1>1, <1>3, JudgedIsGood DEF t

-----------------------------------------------------------------------------
\* The journal and the list

\* A record that is no commit of a proposal changes nothing of it.
LEMMA GoodUnderOtherRecord ==
  ASSUME NEW j \in Seq(Line), NEW m, NEW s, Good(j, m, s), NEW r \in Line, r.proposal = None
  PROVE  Good(Append(j, r), m, s)
<1> DEFINE k == Append(j, r)
           n == Len(j)
<1>1. /\ n \in Nat /\ DOMAIN j = 1 .. n /\ DOMAIN k = 1 .. n + 1 /\ k[n + 1] = r
      /\ \A i \in 1 .. n : k[i] = j[i]
  OBVIOUS
<1> HIDE DEF k, n
<1>2. \A p \in Ids : CommitsIn(k, p) = CommitsIn(j, p) /\ CommitsIn(j, p) \subseteq 1 .. n
  BY <1>1, ProposalsAssumption DEF CommitsIn
<1>3. \A a \in DOMAIN s.proposals : s.proposals[a] \in Proposal /\ s.proposals[a].id \in Ids
  <2>1. s.proposals \in Seq(Proposal)
    BY DEF Good, Store
  <2>2. \A a \in DOMAIN s.proposals : s.proposals[a] \in Proposal
    BY <2>1
  <2> QED
    BY <2>2 DEF Proposal
<1>4. \A l \in DOMAIN s.audit : s.audit[l][1] \in Ids
  BY DEF Good, Store
<1>5. ASSUME NEW a \in DOMAIN s.proposals
      PROVE  Agrees(k, s.proposals[a])
  <2>1. /\ CommitsIn(k, s.proposals[a].id) = CommitsIn(j, s.proposals[a].id)
        /\ \A c \in CommitsIn(j, s.proposals[a].id) : k[c].group = j[c].group
    BY <1>1, <1>2, <1>3
  <2>2. Agrees(j, s.proposals[a])
    BY DEF Good
  <2> QED
    BY <2>1, <2>2 DEF Agrees
<1>6. AuditSound(k, s)
  BY <1>2, <1>4 DEF AuditSound, Good
<1> QED
  BY <1>5, <1>6 DEF Good, k

\* A commit of p, while the store has it open.
LEMMA GoodUnderCommit ==
  ASSUME NEW j \in Seq(Line), NEW m, NEW s, Good(j, m, s), NEW p \in Ids, NEW r \in Line,
         r.proposal = p,
         \A a \in DOMAIN s.proposals : s.proposals[a].id = p => s.proposals[a].status = "pending"
  PROVE  Good(Append(j, r), m, s)
<1> DEFINE k == Append(j, r)
           n == Len(j)
<1>1. /\ n \in Nat /\ DOMAIN j = 1 .. n /\ DOMAIN k = 1 .. n + 1 /\ k[n + 1] = r
      /\ \A i \in 1 .. n : k[i] = j[i]
  OBVIOUS
<1> HIDE DEF k, n
<1>2. \A q \in Ids \ {p} : CommitsIn(k, q) = CommitsIn(j, q) /\ CommitsIn(j, q) \subseteq 1 .. n
  BY <1>1 DEF CommitsIn
<1>2a. CommitsIn(k, p) # {}
  BY <1>1 DEF CommitsIn
<1>3. \A a \in DOMAIN s.proposals : s.proposals[a] \in Proposal /\ s.proposals[a].id \in Ids
  <2>1. s.proposals \in Seq(Proposal)
    BY DEF Good, Store
  <2>2. \A a \in DOMAIN s.proposals : s.proposals[a] \in Proposal
    BY <2>1
  <2> QED
    BY <2>2 DEF Proposal
<1>4. \A l \in DOMAIN s.audit : s.audit[l][1] \in Ids
  BY DEF Good, Store
<1>5. ASSUME NEW a \in DOMAIN s.proposals
      PROVE  Agrees(k, s.proposals[a])
  <2>1. CASE s.proposals[a].id = p
    BY <2>1 DEF Agrees
  <2>2. CASE s.proposals[a].id # p
    <3>1. /\ CommitsIn(k, s.proposals[a].id) = CommitsIn(j, s.proposals[a].id)
          /\ \A c \in CommitsIn(j, s.proposals[a].id) : k[c].group = j[c].group
      BY <1>1, <1>2, <1>3, <2>2
    <3>2. Agrees(j, s.proposals[a])
      BY DEF Good
    <3> QED
      BY <3>1, <3>2 DEF Agrees
  <2> QED
    BY <2>1, <2>2
<1>6. AuditSound(k, s)
  BY <1>2, <1>2a, <1>4 DEF AuditSound, Good
<1> QED
  BY <1>5, <1>6 DEF Good, k

\* What is listed may be dropped, and the remainder is as true.
LEMMA SublistIsGood ==
  ASSUME NEW j, NEW m, NEW s, Good(j, m, s), NEW t \in Store, t.audit = s.audit,
         \A a \in DOMAIN t.proposals : \E b \in DOMAIN s.proposals : t.proposals[a] = s.proposals[b],
         UniqueIds(t)
  PROVE  Good(j, m, t)
<1>1. \A a \in DOMAIN t.proposals :
          Agrees(j, t.proposals[a]) /\ m[t.proposals[a].id] # None /\ AuditTells(t.audit, t.proposals[a])
  BY DEF Good
<1>2. AuditSound(j, t)
  BY DEF Good, AuditSound
<1> QED
  BY <1>1, <1>2 DEF Good

\* One more that is open, for the revision it was made for.
LEMMA SubmittedIsGood ==
  ASSUME NEW j, NEW m, NEW n, NEW s, Good(j, m, s), NEW p \in Ids, Places(s, p) = {},
         CommitsIn(j, p) = {}, NEW base \in Nat,
         n[p] # None, \A q \in Ids \ {p} : n[q] = m[q]
  PROVE  Good(j, n, [s EXCEPT !.proposals = Append(@, [id |-> p, base |-> base, status |-> "pending",
                                                       group |-> None])])
<1> DEFINE x == [id |-> p, base |-> base, status |-> "pending", group |-> None]
           t == [s EXCEPT !.proposals = Append(@, x)]
           l == Len(s.proposals)
<1>1. x \in Proposal /\ x.id = p /\ x.status = "pending"
  BY DEF Proposal, Statuses
<1> HIDE DEF x
<1>2. /\ s.proposals \in Seq(Proposal) /\ s.audit \in Seq(Ids \X Statuses) /\ l \in Nat
      /\ DOMAIN s.proposals = 1 .. l /\ \A a \in 1 .. l : s.proposals[a] \in Proposal
  BY DEF Good, Store
<1>3. t = [proposals |-> Append(s.proposals, x), audit |-> s.audit]
  <2>1. s = [proposals |-> s.proposals, audit |-> s.audit]
    BY DEF Good, Store
  <2> QED
    BY <2>1
<1>4. t \in Store
  <2>1. Append(s.proposals, x) \in Seq(Proposal)
    BY <1>1, <1>2
  <2> QED
    BY <1>2, <1>3, <2>1 DEF Store
<1>5. /\ DOMAIN t.proposals = 1 .. l + 1 /\ t.audit = s.audit /\ t.proposals[l + 1] = x
      /\ \A a \in 1 .. l : t.proposals[a] = s.proposals[a]
  BY <1>1, <1>2, <1>3
<1> HIDE DEF t, l
<1>6. \A a \in 1 .. l : s.proposals[a].id # p /\ s.proposals[a].id \in Ids
  BY <1>2 DEF Places, Proposal
<1>7. UniqueIds(t)
  BY <1>1, <1>2, <1>5, <1>6 DEF UniqueIds, Good
<1>8. ASSUME NEW a \in DOMAIN t.proposals
      PROVE  Agrees(j, t.proposals[a]) /\ n[t.proposals[a].id] # None /\ AuditTells(t.audit, t.proposals[a])
  <2>1. CASE a \in 1 .. l
    BY <1>2, <1>5, <1>6, <2>1 DEF Good
  <2>2. CASE a = l + 1
    BY <1>1, <1>5, <2>2 DEF Agrees, AuditTells
  <2> QED
    BY <1>5, <2>1, <2>2, <1>2
<1>9. AuditSound(j, t)
  <2>1. \A k \in DOMAIN s.audit : s.audit[k] # <<p, "applied">>
    <3>1. <<p, "applied">>[1] = p /\ <<p, "applied">>[2] = "applied"
      OBVIOUS
    <3> QED
      BY <3>1 DEF Good, AuditSound
  <2>2. AuditSound(j, s)
    BY DEF Good
  <2>3. \A a \in DOMAIN t.proposals : t.proposals[a].status = "pending" =>
          \A k \in DOMAIN t.audit : t.audit[k] # <<t.proposals[a].id, "applied">>
    <3>1. SUFFICES ASSUME NEW a \in DOMAIN t.proposals, t.proposals[a].status = "pending"
                   PROVE  \A k \in DOMAIN t.audit : t.audit[k] # <<t.proposals[a].id, "applied">>
      OBVIOUS
    <3>2. CASE a \in 1 .. l
      BY <1>2, <1>5, <2>2, <3>1, <3>2 DEF AuditSound
    <3>3. CASE a = l + 1
      BY <1>1, <1>5, <2>1, <3>3
    <3>4. a \in 1 .. l \/ a = l + 1
      BY <1>2, <1>5
    <3> QED
      BY <3>2, <3>3, <3>4
  <2> QED
    BY <1>5, <2>2, <2>3 DEF AuditSound
<1> QED
  BY <1>4, <1>7, <1>8, <1>9 DEF Good, t, x

-----------------------------------------------------------------------------
\* The pruning

\* The number of elements of a finite set up to its n-th.
LEMMA NthElement ==
  ASSUME NEW m \in Nat, NEW K \in SUBSET (1 .. m), NEW n \in 1 .. Cardinality(K)
  PROVE  \E i \in K : Cardinality({k \in K : k <= i}) = n
<1> DEFINE Upto(i) == {k \in K : k <= i}
           T == {i \in Nat : Cardinality(Upto(i)) >= n => \E e \in K : Cardinality(Upto(e)) = n}
<1>a. \A k \in K : k \in Int /\ 1 <= k /\ k <= m
  OBVIOUS
<1>0. /\ IsFiniteSet(K) /\ n \in Nat /\ n >= 1
      /\ \A i \in Nat : IsFiniteSet(Upto(i)) /\ Cardinality(Upto(i)) \in Nat
  <2>1. IsFiniteSet(1 .. m)
    BY FS_Interval
  <2>2. IsFiniteSet(K)
    BY <2>1, FS_Subset
  <2>3. \A i \in Nat : IsFiniteSet(Upto(i))
    BY <2>2, FS_Subset
  <2> HIDE DEF Upto
  <2> QED
    BY <2>2, <2>3, FS_CardinalityType
<1>1. 0 \in T
  <2>0. \A k \in K : ~(k <= 0)
    BY <1>a
  <2>1. Upto(0) = {}
    BY <2>0
  <2> QED
    BY <1>0, <2>1, FS_EmptySet
<1>2. ASSUME NEW i \in Nat, i \in T
      PROVE  i + 1 \in T
  <2>1. CASE Cardinality(Upto(i)) >= n
    BY <1>2, <2>1
  <2>2. CASE ~(Cardinality(Upto(i)) >= n) /\ i + 1 \notin K
    <3>0. \A k \in K : k <= i + 1 <=> k <= i
      BY <1>a, <2>2
    <3>1. Upto(i + 1) = Upto(i)
      BY <3>0
    <3> HIDE DEF Upto
    <3> QED
      BY <2>2, <3>1
  <2>3. CASE ~(Cardinality(Upto(i)) >= n) /\ i + 1 \in K
    <3>0. \A k \in K : k <= i + 1 <=> k <= i \/ k = i + 1
      BY <1>a
    <3>a. i + 1 \in K
      BY <2>3
    <3>b. Upto(i + 1) = Upto(i) \cup {i + 1}
      BY <3>0, <3>a
    <3>c. i + 1 \notin Upto(i)
      OBVIOUS
    <3>1. Upto(i + 1) = Upto(i) \cup {i + 1} /\ i + 1 \notin Upto(i)
      BY <3>b, <3>c
    <3> HIDE DEF Upto
    <3>2. Cardinality(Upto(i + 1)) = Cardinality(Upto(i)) + 1
      BY <1>0, <3>1, FS_AddElement
    <3>3. Cardinality(Upto(i + 1)) >= n => Cardinality(Upto(i + 1)) = n
      BY <1>0, <2>3, <3>2
    <3> QED
      BY <2>3, <3>3
  <2> QED
    BY <2>1, <2>2, <2>3
<1> HIDE DEF T
<1>3. \A i \in Nat : i \in T
  BY <1>1, <1>2, JournalFold!NaturalSetInduction
<1>4. Upto(m) = K
  BY <1>a
<1>5. m \in T
  BY <1>3
<1> QED
  BY <1>0, <1>4, <1>5 DEF T

\* save_proposal_store keeps a list whose entries were in it, each once.
LEMMA PrunedIsGood ==
  ASSUME NEW j, NEW m, NEW s, Good(j, m, s)
  PROVE  Good(j, m, Pruned(s))
<1> DEFINE resolved == {i \in DOMAIN s.proposals : ~Open(s.proposals[i])}
           excess == {i \in resolved : Cardinality({k \in resolved : k >= i}) > MaxResolved}
           K == {i \in DOMAIN s.proposals : i \notin excess}
           Nth(n) == CHOOSE i \in K : Cardinality({k \in K : k <= i}) = n
           t == Pruned(s)
<1>1. /\ s \in Store /\ s.proposals \in Seq(Proposal) /\ s.audit \in Seq(Ids \X Statuses)
      /\ Len(s.proposals) \in Nat /\ DOMAIN s.proposals = 1 .. Len(s.proposals)
      /\ \A a \in DOMAIN s.proposals : s.proposals[a] \in Proposal
  BY DEF Good, Store
<1>2. t = [s EXCEPT !.proposals = [n \in 1 .. Cardinality(K) |-> s.proposals[Nth(n)]]]
  BY DEF Pruned
<1>3. K \in SUBSET (1 .. Len(s.proposals)) /\ Cardinality(K) \in Nat
  <2>1. K \in SUBSET (1 .. Len(s.proposals))
    BY <1>1
  <2> HIDE DEF K
  <2>2. IsFiniteSet(1 .. Len(s.proposals))
    BY <1>1, FS_Interval
  <2>3. IsFiniteSet(K)
    BY <2>1, <2>2, FS_Subset
  <2> QED
    BY <2>1, <2>3, FS_CardinalityType
<1> HIDE DEF K, t
<1>4. \A n \in 1 .. Cardinality(K) : Nth(n) \in K /\ Cardinality({k \in K : k <= Nth(n)}) = n
  <2>1. \A n \in 1 .. Cardinality(K) : \E i \in K : Cardinality({k \in K : k <= i}) = n
    BY <1>1, <1>3, NthElement
  <2> QED
    BY <2>1
<1> HIDE DEF Nth
<1>5. /\ t.audit = s.audit /\ DOMAIN t.proposals = 1 .. Cardinality(K)
      /\ t.proposals = [n \in 1 .. Cardinality(K) |-> s.proposals[Nth(n)]]
      /\ t = [proposals |-> t.proposals, audit |-> t.audit]
      /\ \A n \in 1 .. Cardinality(K) : t.proposals[n] = s.proposals[Nth(n)]
  BY <1>1, <1>2 DEF Store
<1>6. \A n \in 1 .. Cardinality(K) : Nth(n) \in DOMAIN s.proposals
  BY <1>1, <1>3, <1>4
<1>7. t \in Store
  <2>1. t.proposals \in [1 .. Cardinality(K) -> Proposal]
    BY <1>1, <1>5, <1>6
  <2>2. t.proposals \in Seq(Proposal)
    BY <1>3, <2>1
  <2> QED
    BY <1>1, <1>5, <2>2 DEF Store
<1>8. UniqueIds(t)
  <2>1. SUFFICES ASSUME NEW a \in 1 .. Cardinality(K), NEW b \in 1 .. Cardinality(K),
                        t.proposals[a].id = t.proposals[b].id
                 PROVE  a = b
    BY <1>5 DEF UniqueIds
  <2>2. Nth(a) = Nth(b)
    BY <1>5, <1>6, <2>1 DEF Good, UniqueIds
  <2> QED
    BY <1>4, <2>2
<1> QED
  BY <1>5, <1>6, <1>7, <1>8, SublistIsGood DEF t

-----------------------------------------------------------------------------
\* load_settled_store

\* The list of t is the list of s, with more of it settled.
Follows(s, t) ==
  /\ DOMAIN t.proposals = DOMAIN s.proposals
  /\ \A a \in DOMAIN s.proposals :
       /\ t.proposals[a].id = s.proposals[a].id
       /\ t.proposals[a].status = "pending" => s.proposals[a].status = "pending"

\* One record: its proposal is not open afterwards, and nothing that was settled is opened.
LEMMA ReconciledOneIsGood ==
  ASSUME JournalSound, NEW s, Good(journal, made, s), NEW c \in DOMAIN journal
  PROVE  LET t == ReconciledOne(s, journal[c]) IN
         /\ Good(journal, made, t) /\ Follows(s, t)
         /\ ~HasStatus(t, journal[c].proposal, "pending")
<1> DEFINE r == journal[c]
           p == r.proposal
<1>1. r \in Line /\ s \in Store
  BY DEF JournalSound, Good
<1>2. CASE ~HasStatus(s, p, "pending")
  <2>1. ReconciledOne(s, r) = s
    BY <1>2 DEF ReconciledOne
  <2> QED
    BY <1>2, <2>1 DEF Follows
<1>3. CASE HasStatus(s, p, "pending")
  <2>1. PICK b \in DOMAIN s.proposals : s.proposals[b].id = p /\ s.proposals[b].status = "pending"
    BY <1>3 DEF HasStatus, Places
  <2>2. /\ s.proposals \in Seq(Proposal) /\ s.proposals[b] \in Proposal
        /\ s.audit \in Seq(Ids \X Statuses)
    BY <1>1 DEF Store
  <2>3. p \in Ids /\ r.group \in Groups
    BY <1>1, <2>1, <2>2 DEF Line, Proposal
  <2>4. ~Contains(s.audit, <<p, "applied">>)
    <3>1. \A k \in DOMAIN s.audit : s.audit[k] # <<p, "applied">>
      BY <2>1 DEF Good, AuditSound
    <3> QED
      BY <2>2, <3>1 DEF Contains
  <2>5. ReconciledOne(s, r) = WithApplied(s, p, r.group)
    BY <1>3, <2>4 DEF ReconciledOne
  <2>6. Good(journal, made, WithApplied(s, p, r.group))
    <3>1. c \in CommitsIn(journal, p)
      BY DEF CommitsIn
    <3> QED
      BY <1>3, <2>3, <3>1, AppliedIsGood
  <2>a. PICK q \in Ids, h \in Groups : q = p /\ h = r.group
    BY <2>3
  <2> DEFINE t == WithApplied(s, q, h)
  <2>7. /\ DOMAIN t.proposals = DOMAIN s.proposals
        /\ \A a \in DOMAIN s.proposals :
             t.proposals[a] = IF s.proposals[a].id = q
                              THEN [id |-> q, base |-> s.proposals[a].base,
                                    status |-> "applied", group |-> h]
                              ELSE s.proposals[a]
    BY <1>1, ShapeOfApplied
  <2> HIDE DEF t
  <2>8. ASSUME NEW a \in DOMAIN s.proposals
        PROVE  /\ t.proposals[a].id = s.proposals[a].id
               /\ s.proposals[a].id = q => t.proposals[a].status = "applied"
               /\ s.proposals[a].id # q => t.proposals[a] = s.proposals[a]
    <3>1. CASE s.proposals[a].id = q
      <4>1. t.proposals[a] = [id |-> q, base |-> s.proposals[a].base,
                              status |-> "applied", group |-> h]
        BY <2>7, <3>1
      <4> QED
        BY <3>1, <4>1
    <3>2. CASE s.proposals[a].id # q
      BY <2>7, <3>2
    <3> QED
      BY <3>1, <3>2
  <2>9. Follows(s, t) /\ ~HasStatus(t, q, "pending")
    BY <2>7, <2>8 DEF Follows, HasStatus, Places
  <2> QED
    BY <2>5, <2>6, <2>9, <2>a DEF t
<1> QED
  BY <1>2, <1>3

\* The whole journal.
LEMMA ReconciledIsGood ==
  ASSUME JournalSound, NEW s, Good(journal, made, s)
  PROVE  /\ Good(journal, made, Reconciled(s)) /\ Follows(s, Reconciled(s))
         /\ \A a \in DOMAIN Reconciled(s).proposals :
               Reconciled(s).proposals[a].status = "pending"
                 => CommitsIn(journal, Reconciled(s).proposals[a].id) = {}
<1> DEFINE n == Len(journal)
<1>1. n \in Nat /\ DOMAIN journal = 1 .. n
  BY DEF JournalSound
<1>2. Reconciled(s) = JournalFold!Fold(s, journal)
  BY Zenon DEF Reconciled, JournalFold!Fold, FoldLeft, JournalFold!FoldLeft, MapThenFoldSet,
    JournalFold!MapThenFoldSet, Max, JournalFold!Max
<1> HIDE DEF n
<1>3. PICK g : JournalFold!IsTrace(g, s, journal, n)
  BY <1>1, JournalFold!TraceExists, Zenon
<1>4. Reconciled(s) = g[n]
  BY <1>1, <1>2, <1>3, JournalFold!FoldIsTrace, Zenon
<1>5. g[0] = s /\ \A i \in 1 .. n : g[i] = ReconciledOne(g[i - 1], journal[i])
  BY <1>3 DEF JournalFold!IsTrace
<1> DEFINE Reached(k) ==
             /\ Good(journal, made, g[k]) /\ Follows(s, g[k])
             /\ \A c \in 1 .. k : ~HasStatus(g[k], journal[c].proposal, "pending")
           T == {k \in Nat : k <= n => Reached(k)}
<1>6. 0 \in T
  BY <1>5 DEF Follows
<1>7. ASSUME NEW k \in Nat, k \in T
      PROVE  k + 1 \in T
  <2>1. SUFFICES ASSUME k + 1 <= n
                 PROVE  Reached(k + 1)
    OBVIOUS
  <2>2. Reached(k) /\ k + 1 \in DOMAIN journal
    BY <1>1, <1>7, <2>1
  <2>3. g[k + 1] = ReconciledOne(g[k], journal[k + 1])
    BY <1>5, <2>1, <1>1
  <2>4. /\ Good(journal, made, g[k + 1]) /\ Follows(g[k], g[k + 1])
        /\ ~HasStatus(g[k + 1], journal[k + 1].proposal, "pending")
    BY <2>2, <2>3, ReconciledOneIsGood
  <2>5. Follows(s, g[k + 1])
    BY <2>2, <2>4 DEF Follows
  <2>6. ASSUME NEW c \in 1 .. k
        PROVE  ~HasStatus(g[k + 1], journal[c].proposal, "pending")
    <3>1. ~HasStatus(g[k], journal[c].proposal, "pending")
      BY <2>2
    <3> QED
      BY <2>4, <3>1 DEF HasStatus, Places, Follows
  <2>7. \A c \in 1 .. k + 1 : c \in 1 .. k \/ c = k + 1
    OBVIOUS
  <2> QED
    BY <2>4, <2>5, <2>6, <2>7
<1> HIDE DEF T
<1>8. \A k \in Nat : k \in T
  BY <1>6, <1>7, JournalFold!NaturalSetInduction
<1>9. Reached(n)
  BY <1>1, <1>8 DEF T
<1>10. ASSUME NEW a \in DOMAIN g[n].proposals, g[n].proposals[a].status = "pending"
       PROVE  CommitsIn(journal, g[n].proposals[a].id) = {}
  <2>1. HasStatus(g[n], g[n].proposals[a].id, "pending")
    BY <1>10 DEF HasStatus, Places
  <2> QED
    BY <1>1, <1>9, <2>1 DEF CommitsIn
<1> QED
  BY <1>4, <1>9, <1>10

\* The expiry of the open proposals, none of which is in the journal.
LEMMA RefreshedIsGood ==
  ASSUME NEW s, Good(journal, made, s),
         \A a \in DOMAIN s.proposals : s.proposals[a].status = "pending"
                                         => CommitsIn(journal, s.proposals[a].id) = {}
  PROVE  Good(journal, made, Refreshed(s)) /\ Follows(s, Refreshed(s))
<1> DEFINE n == Len(s.proposals)
<1>1. /\ n \in Nat /\ DOMAIN s.proposals = 1 .. n /\ UniqueIds(s)
      /\ \A a \in 1 .. n : s.proposals[a] \in Proposal
  BY DEF Good, Store
<1>2. Refreshed(s) = RefreshFold!Fold(s, s.proposals)
  BY Zenon DEF Refreshed, RefreshFold!Fold, FoldLeft, RefreshFold!FoldLeft, MapThenFoldSet,
    RefreshFold!MapThenFoldSet, Max, RefreshFold!Max
<1> HIDE DEF n
<1>3. PICK g : RefreshFold!IsTrace(g, s, s.proposals, n)
  BY <1>1, RefreshFold!TraceExists, Zenon
<1>4. Refreshed(s) = g[n]
  BY <1>1, <1>2, <1>3, RefreshFold!FoldIsTrace, Zenon
<1>5. g[0] = s /\ \A i \in 1 .. n : g[i] = RefreshedOne(g[i - 1], s.proposals[i])
  BY <1>3 DEF RefreshFold!IsTrace
<1> DEFINE Reached(k) ==
             /\ Good(journal, made, g[k]) /\ Follows(s, g[k])
             /\ \A a \in k + 1 .. n : g[k].proposals[a] = s.proposals[a]
           T == {k \in Nat : k <= n => Reached(k)}
<1>6. 0 \in T
  BY <1>5 DEF Follows
<1>7. ASSUME NEW k \in Nat, k \in T
      PROVE  k + 1 \in T
  <2>1. SUFFICES ASSUME k + 1 <= n
                 PROVE  Reached(k + 1)
    OBVIOUS
  <2> DEFINE x == s.proposals[k + 1]
             t == g[k]
  <2>2. Reached(k) /\ k + 1 \in 1 .. n /\ x \in Proposal
    BY <1>1, <1>7, <2>1
  <2>3. g[k + 1] = RefreshedOne(t, x)
    BY <1>5, <2>1, <1>1
  <2>4. CASE g[k + 1] = t
    BY <1>1, <2>2, <2>4
  <2>5. CASE g[k + 1] # t
    <3>1. Open(x) /\ g[k + 1] = WithStatus(t, x.id, "expired")
      BY <2>3, <2>5 DEF RefreshedOne
    <3>2. x.id \in Ids /\ CommitsIn(journal, x.id) = {}
      BY <1>1, <2>2, <3>1 DEF Open, Proposal
    <3>3. Good(journal, made, g[k + 1])
      BY <2>2, <3>1, <3>2, ResolvedIsGood
    <3>4. t \in Store /\ "expired" \in Statuses
      BY <2>2 DEF Good, Statuses
    <3>5. /\ DOMAIN g[k + 1].proposals = DOMAIN t.proposals
          /\ \A a \in DOMAIN t.proposals :
               g[k + 1].proposals[a] = IF t.proposals[a].id = x.id
                                       THEN [t.proposals[a] EXCEPT !.status = "expired"]
                                       ELSE t.proposals[a]
      <4> HIDE DEF t, x
      <4>1. PICK q \in Ids, st \in Statuses : q = x.id /\ st = "expired"
        BY <3>2, <3>4
      <4>2. /\ DOMAIN WithStatus(t, q, st).proposals = DOMAIN t.proposals
            /\ \A a \in DOMAIN t.proposals :
                 WithStatus(t, q, st).proposals[a] = IF t.proposals[a].id = q
                                                     THEN [t.proposals[a] EXCEPT !.status = st]
                                                     ELSE t.proposals[a]
        BY <3>4, ShapeOfVerdict
      <4>3. g[k + 1] = WithStatus(t, q, st)
        BY <3>1, <4>1
      <4> QED
        BY <4>1, <4>2, <4>3
    <3>6. /\ DOMAIN t.proposals = 1 .. n
          /\ \A a \in 1 .. n : t.proposals[a] \in Proposal /\ t.proposals[a].id = s.proposals[a].id
      <4>1. t.proposals \in Seq(Proposal)
        BY <3>4 DEF Store
      <4> QED
        BY <1>1, <2>2, <4>1 DEF Follows
    <3>7. \A a \in 1 .. n : t.proposals[a].id = x.id <=> a = k + 1
      BY <1>1, <2>2, <3>6 DEF UniqueIds
    <3> HIDE DEF t, x
    <3>8. \A a \in 1 .. n : /\ g[k + 1].proposals[a].id = t.proposals[a].id
                            /\ a # k + 1 => g[k + 1].proposals[a] = t.proposals[a]
                            /\ a = k + 1 => g[k + 1].proposals[a].status = "expired"
      BY <3>5, <3>6, <3>7 DEF Proposal
    <3>9. Follows(s, g[k + 1])
      BY <1>1, <2>2, <3>5, <3>6, <3>8 DEF Follows, t
    <3>10. \A a \in k + 1 + 1 .. n : g[k + 1].proposals[a] = s.proposals[a]
      BY <1>1, <2>2, <3>8 DEF t
    <3> QED
      BY <3>3, <3>9, <3>10
  <2> QED
    BY <2>4, <2>5
<1> HIDE DEF T
<1>8. \A k \in Nat : k \in T
  BY <1>6, <1>7, RefreshFold!NaturalSetInduction
<1>9. Reached(n)
  BY <1>1, <1>8 DEF T
<1> QED
  BY <1>4, <1>9

\* The settled store is true of the journal, and what it has open is not in it.
LEMMA SettledIsGood ==
  ASSUME JournalSound, NEW s, Good(journal, made, s)
  PROVE  /\ Good(journal, made, Settled(s)) /\ Follows(s, Settled(s))
         /\ \A p \in Ids : HasStatus(Settled(s), p, "pending") =>
              /\ CommitsIn(journal, p) = {}
              /\ \A a \in DOMAIN s.proposals :
                   s.proposals[a].id = p => s.proposals[a].status = "pending"
              /\ made[p] # None
<1> DEFINE r == Reconciled(s)
           t == Settled(s)
<1>1. /\ Good(journal, made, r) /\ Follows(s, r)
      /\ \A a \in DOMAIN r.proposals :
            r.proposals[a].status = "pending" => CommitsIn(journal, r.proposals[a].id) = {}
  BY ReconciledIsGood
<1>2. t = Refreshed(r)
  BY DEF Settled
<1> HIDE DEF r, t
<1>3. Good(journal, made, t) /\ Follows(r, t)
  BY <1>1, <1>2, RefreshedIsGood
<1>4. Follows(s, t)
  BY <1>1, <1>3 DEF Follows
<1>5. ASSUME NEW p \in Ids, HasStatus(t, p, "pending")
      PROVE  /\ CommitsIn(journal, p) = {}
             /\ \A a \in DOMAIN s.proposals :
                  s.proposals[a].id = p => s.proposals[a].status = "pending"
             /\ made[p] # None
  <2>1. PICK a \in DOMAIN t.proposals : t.proposals[a].id = p /\ t.proposals[a].status = "pending"
    BY <1>5 DEF HasStatus, Places
  <2>2. r.proposals[a].status = "pending" /\ r.proposals[a].id = p /\ a \in DOMAIN r.proposals
    BY <1>3, <2>1 DEF Follows
  <2>3. s.proposals[a].status = "pending" /\ s.proposals[a].id = p /\ a \in DOMAIN s.proposals
    BY <1>4, <2>1 DEF Follows
  <2>4. \A b \in DOMAIN s.proposals : s.proposals[b].id = p => b = a
    BY <2>3 DEF Good, UniqueIds
  <2>5. made[p] # None
    BY <2>3 DEF Good
  <2> QED
    BY <1>1, <2>2, <2>3, <2>4, <2>5
<1> QED
  BY <1>3, <1>4, <1>5 DEF t

-----------------------------------------------------------------------------
\* The journal and the history

\* The journal's states are lists of groups.
LEMMA StatesAreTyped ==
  ASSUME NEW j \in Seq(Line), NEW i \in 0 .. Len(j)
  PROVE  StateIn(j, i) \in Seq(Groups)
<1>1. CASE i = 0
  BY <1>1 DEF StateIn
<1>2. CASE i # 0
  <2>1. j[i] \in Line
    BY <1>2
  <2> QED
    BY <1>2, <2>1 DEF StateIn, Line
<1> QED
  BY <1>1, <1>2

\* One more record.
LEMMA OneMoreRecord ==
  ASSUME NEW j \in Seq(Line), NEW r \in Line
  PROVE  LET k == Append(j, r) IN
         /\ k \in Seq(Line) /\ Len(k) = Len(j) + 1 /\ Len(j) \in Nat
         /\ DOMAIN j = 1 .. Len(j) /\ DOMAIN k = 1 .. Len(j) + 1
         /\ k[Len(j) + 1] = r /\ \A i \in 1 .. Len(j) : k[i] = j[i]
         /\ \A i \in 0 .. Len(j) : StateIn(k, i) = StateIn(j, i) /\ StateIn(j, i) \in Seq(Groups)
         /\ StateIn(k, Len(j) + 1) = r.state
<1> DEFINE k == Append(j, r)
<1>1. /\ k \in Seq(Line) /\ Len(k) = Len(j) + 1 /\ Len(j) \in Nat
      /\ DOMAIN j = 1 .. Len(j) /\ DOMAIN k = 1 .. Len(j) + 1
      /\ k[Len(j) + 1] = r /\ \A i \in 1 .. Len(j) : k[i] = j[i]
      /\ \A i \in 1 .. Len(j) : j[i] \in Line
  OBVIOUS
<1> HIDE DEF k
<1>2. ASSUME NEW i \in 0 .. Len(j)
      PROVE  StateIn(k, i) = StateIn(j, i) /\ StateIn(j, i) \in Seq(Groups)
  <2>1. CASE i = 0
    BY <2>1 DEF StateIn
  <2>2. CASE i \in 1 .. Len(j)
    BY <1>1, <2>2 DEF StateIn, Line
  <2> QED
    BY <1>1, <2>1, <2>2
<1>3. StateIn(k, Len(j) + 1) = r.state
  BY <1>1 DEF StateIn
<1> QED
  BY <1>1, <1>2, <1>3 DEF k

\* A commit of a proposal that has none yet, or a record that is none.
LEMMA OnceUnderRecord ==
  ASSUME NEW j \in Seq(Line), NEW r \in Line, AppliedOnce(j),
         r.proposal \in Ids => CommitsIn(j, r.proposal) = {}
  PROVE  /\ AppliedOnce(Append(j, r))
         /\ \A p \in Ids : CommitsIn(Append(j, r), p) # {} => CommitsIn(j, p) # {} \/ p = r.proposal
<1> DEFINE k == Append(j, r)
<1>1. /\ Len(j) \in Nat /\ DOMAIN j = 1 .. Len(j) /\ DOMAIN k = 1 .. Len(j) + 1
      /\ k[Len(j) + 1] = r /\ \A i \in 1 .. Len(j) : k[i] = j[i]
  OBVIOUS
<1> HIDE DEF k
<1>2. ASSUME NEW p \in Ids
      PROVE  /\ p # r.proposal => CommitsIn(k, p) = CommitsIn(j, p)
             /\ p = r.proposal => CommitsIn(k, p) = {Len(j) + 1}
  <2>1. CASE p # r.proposal
    BY <1>1, <2>1 DEF CommitsIn
  <2>2. CASE p = r.proposal
    BY <1>1, <2>2 DEF CommitsIn
  <2> QED
    BY <2>1, <2>2
<1>3. AppliedOnce(k)
  BY <1>2 DEF AppliedOnce
<1> QED
  BY <1>2, <1>3 DEF k

\* An undo or a redo moves along the groups, or forgets the last of them.
LEMMA HoldsUnderMove ==
  ASSUME NEW j \in Seq(Line), NEW r \in Line, ~IsCommit(r),
         NEW full, NEW n \in Nat, DOMAIN full = 1 .. n, NEW less, NEW m \in 0 .. n,
         DOMAIN less = 1 .. m, \A i \in 1 .. m : less[i] = full[i],
         CommitsHold(j, full), AllWereCommitted(j, full)
  PROVE  CommitsHold(Append(j, r), less) /\ AllWereCommitted(Append(j, r), less)
<1> DEFINE k == Append(j, r)
<1>1. /\ Len(j) \in Nat /\ DOMAIN j = 1 .. Len(j) /\ DOMAIN k = 1 .. Len(j) + 1
      /\ k[Len(j) + 1] = r /\ \A i \in 1 .. Len(j) : k[i] = j[i]
      /\ \A i \in 0 .. Len(j) : StateIn(k, i) = StateIn(j, i)
  BY OneMoreRecord
<1> HIDE DEF k
<1>2. ASSUME NEW c \in DOMAIN k, IsCommit(k[c]), NEW i \in DOMAIN less, less[i] = k[c].group
      PROVE  /\ Len(StateIn(k, c - 1)) = i - 1
             /\ \A l \in 1 .. i - 1 : StateIn(k, c - 1)[l] = less[l]
  <2>1. c \in 1 .. Len(j) /\ k[c] = j[c] /\ c - 1 \in 0 .. Len(j)
    BY <1>1, <1>2
  <2>2. i \in DOMAIN full /\ full[i] = j[c].group /\ IsCommit(j[c]) /\ c \in DOMAIN j
    BY <1>1, <1>2, <2>1
  <2>3. /\ Len(StateIn(j, c - 1)) = i - 1
        /\ \A l \in 1 .. i - 1 : StateIn(j, c - 1)[l] = full[l]
    BY <2>2 DEF CommitsHold
  <2>4. \A l \in 1 .. i - 1 : l \in 1 .. m
    BY <1>2
  <2> QED
    BY <1>1, <2>1, <2>3, <2>4
<1>3. CommitsHold(k, less)
  BY <1>2 DEF CommitsHold
<1>4. AllWereCommitted(k, less)
  <2>1. SUFFICES ASSUME NEW i \in DOMAIN less
                 PROVE  \E c \in DOMAIN k : k[c].op = <<less[i]>>
    BY DEF AllWereCommitted
  <2>1a. i \in DOMAIN full /\ less[i] = full[i]
    OBVIOUS
  <2>2. PICK c \in DOMAIN j : j[c].op = <<full[i]>>
    BY <2>1a DEF AllWereCommitted
  <2> QED
    BY <1>1, <2>1a, <2>2
<1> QED
  BY <1>3, <1>4 DEF k

\* The undo stack stays the end of the present, though it may forget its oldest group.
LEMMA PushedIsItsEnd ==
  ASSUME NEW present \in Seq(Groups), NEW un \in Seq(Groups), UndoIsItsEnd(un, present),
         NEW g \in Groups
  PROVE  /\ PushBounded(un, g) \in Seq(Groups)
         /\ UndoIsItsEnd(PushBounded(un, g), Append(present, g))
<1> DEFINE n == Len(present)
           over == Append(present, g)
<1>n. n \in Nat
  OBVIOUS
<1>o. /\ over \in Seq(Groups) /\ Len(over) = n + 1 /\ over[n + 1] = g
      /\ \A i \in 1 .. n : over[i] = present[i]
  OBVIOUS
<1> HIDE DEF n, over
<1>1. Len(un) \in Nat /\ Len(un) <= n /\ \A i \in 1 .. Len(un) : un[i] = present[n - Len(un) + i]
  BY <1>o DEF UndoIsItsEnd, n
<1>2. CASE Len(un) # MaxHistory
  <2>1. PushBounded(un, g) = Append(un, g)
    BY <1>2 DEF PushBounded
  <2> DEFINE q == Append(un, g)
  <2>2. /\ Len(q) = Len(un) + 1 /\ q[Len(un) + 1] = g /\ \A i \in 1 .. Len(un) : q[i] = un[i]
        /\ q \in Seq(Groups)
    OBVIOUS
  <2> HIDE DEF q
  <2>3. ASSUME NEW i \in 1 .. Len(q)
        PROVE  q[i] = over[Len(over) - Len(q) + i]
    <3>1. CASE i = Len(un) + 1
      BY <1>n, <1>o, <1>1, <2>2, <3>1
    <3>2. CASE i \in 1 .. Len(un)
      <4>1. n - Len(un) + i \in 1 .. n /\ Len(over) - Len(q) + i = n - Len(un) + i
        BY <1>n, <1>o, <1>1, <2>2, <3>2
      <4> QED
        BY <1>o, <1>1, <2>2, <3>2, <4>1
    <3> QED
      BY <1>1, <2>2, <3>1, <3>2
  <2>4. Len(q) <= Len(over)
    BY <1>n, <1>o, <1>1, <2>2
  <2>5. UndoIsItsEnd(q, over)
    BY <2>3, <2>4 DEF UndoIsItsEnd
  <2> QED
    BY <2>1, <2>2, <2>5 DEF q, over
<1>3. CASE Len(un) = MaxHistory
  <2>0. un # <<>>
    BY <1>3, ProposalsAssumption
  <2>1. PushBounded(un, g) = Append(Tail(un), g)
    BY <1>3 DEF PushBounded
  <2> DEFINE q == Append(Tail(un), g)
  <2>2. /\ Len(q) = Len(un) /\ q[Len(un)] = g /\ \A i \in 1 .. Len(un) - 1 : q[i] = un[i + 1]
        /\ q \in Seq(Groups)
    BY <2>0
  <2> HIDE DEF q
  <2>3. ASSUME NEW i \in 1 .. Len(q)
        PROVE  q[i] = over[Len(over) - Len(q) + i]
    <3>1. CASE i = Len(un)
      BY <1>n, <1>o, <1>1, <2>2, <3>1
    <3>2. CASE i \in 1 .. Len(un) - 1
      <4>1. i + 1 \in 1 .. Len(un) /\ n - Len(un) + (i + 1) \in 1 .. n
        BY <1>n, <1>1, <3>2
      <4>2. Len(over) - Len(q) + i = n - Len(un) + (i + 1)
        BY <1>n, <1>o, <1>1, <2>2, <3>2
      <4> QED
        BY <1>o, <1>1, <2>2, <3>2, <4>1, <4>2
    <3> QED
      BY <1>1, <2>2, <3>1, <3>2
  <2>4. Len(q) <= Len(over)
    BY <1>n, <1>o, <1>1, <2>2
  <2>5. UndoIsItsEnd(q, over)
    BY <2>3, <2>4 DEF UndoIsItsEnd
  <2> QED
    BY <2>1, <2>2, <2>5 DEF q, over
<1> QED
  BY <1>1, <1>2, <1>3 DEF over

\* execute and apply_proposal: a group that was never committed is put on top.
LEMMA CommitKeepsHistory ==
  ASSUME NEW j \in Seq(Line), NEW un \in Seq(Groups), NEW re \in Seq(Groups),
         HistoryHolds(j, un, re), NEW g \in Groups, NEW p \in Ids \cup {None},
         ~\E c \in DOMAIN j : j[c].op = <<g>>,
         NEW r, r = Record(<<g>>, g, p, Append(StateIn(j, Len(j)), g))
  PROVE  /\ r \in Line /\ PushBounded(un, g) \in Seq(Groups)
         /\ HistoryHolds(Append(j, r), PushBounded(un, g), <<>>)
<1> DEFINE k == Append(j, r)
           present == StateIn(j, Len(j))
           n == Len(present)
           over == Append(present, g)
<1>1. present \in Seq(Groups) /\ n \in Nat
  <2>1. Len(j) \in 0 .. Len(j)
    OBVIOUS
  <2>2. present \in Seq(Groups)
    BY <2>1, StatesAreTyped
  <2> QED
    BY <2>2
<1>2. /\ over \in Seq(Groups) /\ Len(over) = n + 1 /\ over[n + 1] = g
      /\ \A i \in 1 .. n : over[i] = present[i]
  <2> HIDE DEF present
  <2> QED
    BY <1>1
<1>3. /\ r = [op |-> <<g>>, group |-> g, proposal |-> p, state |-> over]
      /\ r \in Line
  BY <1>2 DEF Record, Line, Ops
<1>4. /\ Len(j) \in Nat /\ DOMAIN j = 1 .. Len(j) /\ DOMAIN k = 1 .. Len(j) + 1
      /\ k[Len(j) + 1] = r /\ \A i \in 1 .. Len(j) : k[i] = j[i]
      /\ \A i \in 0 .. Len(j) : StateIn(k, i) = StateIn(j, i)
      /\ StateIn(k, Len(j) + 1) = over /\ Len(k) = Len(j) + 1
  <2> HIDE DEF over
  <2>1. /\ Len(j) \in Nat /\ DOMAIN j = 1 .. Len(j) /\ DOMAIN k = 1 .. Len(j) + 1
        /\ k[Len(j) + 1] = r /\ \A i \in 1 .. Len(j) : k[i] = j[i]
        /\ \A i \in 0 .. Len(j) : StateIn(k, i) = StateIn(j, i)
        /\ StateIn(k, Len(j) + 1) = r.state /\ Len(k) = Len(j) + 1
    BY <1>3, OneMoreRecord
  <2>2. r.state = over
    BY <1>3
  <2> QED
    BY <2>1, <2>2
<1>5. /\ UndoIsItsEnd(un, present) /\ AllWereCommitted(j, Full(present, re))
      /\ CommitsHold(j, Full(present, re))
      /\ \A c \in DOMAIN j : j[c].proposal # None => IsCommit(j[c])
  BY DEF HistoryHolds
<1> HIDE DEF k, present, n, over
<1>6. PushBounded(un, g) \in Seq(Groups) /\ UndoIsItsEnd(PushBounded(un, g), over)
  BY <1>1, <1>5, PushedIsItsEnd DEF over
<1> DEFINE full == Full(present, re)
           now == Full(over, <<>>)
<1>7. /\ DOMAIN now = 1 .. n + 1 /\ now[n + 1] = g /\ \A i \in 1 .. n : now[i] = present[i]
      /\ \A i \in 1 .. n : i \in DOMAIN full /\ full[i] = present[i]
  <2>1. Len(re) \in Nat /\ Len(<<>>) = 0
    OBVIOUS
  <2> QED
    BY <1>1, <1>2, <2>1 DEF Full, n
<1> HIDE DEF full, now
<1>8. \A i \in 1 .. n : present[i] # g
  <2>1. SUFFICES ASSUME NEW i \in 1 .. n, present[i] = g
                 PROVE  FALSE
    OBVIOUS
  <2>2. PICK c \in DOMAIN j : j[c].op = <<full[i]>>
    BY <1>5, <1>7 DEF AllWereCommitted, full
  <2> QED
    BY <1>7, <2>1, <2>2
<1>9. AllWereCommitted(k, now)
  <2>1. ASSUME NEW i \in 1 .. n
        PROVE  \E c \in DOMAIN k : k[c].op = <<now[i]>>
    <3>1. PICK c \in DOMAIN j : j[c].op = <<full[i]>>
      BY <1>5, <1>7 DEF AllWereCommitted, full
    <3> QED
      BY <1>4, <1>7, <3>1
  <2>2. k[Len(j) + 1].op = <<now[n + 1]>>
    BY <1>3, <1>4, <1>7
  <2>3. ASSUME NEW i \in DOMAIN now
        PROVE  \E c \in DOMAIN k : k[c].op = <<now[i]>>
    <3>1. CASE i \in 1 .. n
      BY <2>1, <3>1
    <3>2. CASE i = n + 1
      <4>1. Len(j) + 1 \in DOMAIN k
        BY <1>4
      <4> QED
        BY <2>2, <3>2, <4>1
    <3> QED
      BY <1>1, <1>7, <3>1, <3>2
  <2> QED
    BY <2>3 DEF AllWereCommitted
<1>10. ASSUME NEW c \in DOMAIN k, IsCommit(k[c]), NEW i \in DOMAIN now, now[i] = k[c].group
       PROVE  /\ Len(StateIn(k, c - 1)) = i - 1
              /\ \A l \in 1 .. i - 1 : StateIn(k, c - 1)[l] = now[l]
  <2>1. CASE c = Len(j) + 1
    <3>1. i = n + 1
      BY <1>1, <1>3, <1>4, <1>7, <1>8, <1>10, <2>1
    <3>2. StateIn(k, c - 1) = present
      BY <1>4, <2>1 DEF present
    <3> QED
      BY <1>1, <1>7, <3>1, <3>2 DEF n
  <2>2. CASE c \in 1 .. Len(j)
    <3>1. k[c] = j[c] /\ c - 1 \in 0 .. Len(j) /\ j[c].group # g
      BY <1>4, <1>10, <2>2 DEF IsCommit
    <3>2. i \in 1 .. n /\ full[i] = j[c].group /\ i \in DOMAIN full
      BY <1>1, <1>7, <1>10, <3>1
    <3>3. /\ Len(StateIn(j, c - 1)) = i - 1
          /\ \A l \in 1 .. i - 1 : StateIn(j, c - 1)[l] = full[l]
      BY <1>4, <1>5, <1>10, <2>2, <3>1, <3>2 DEF CommitsHold, full
    <3>4. \A l \in 1 .. i - 1 : l \in 1 .. n
      BY <1>1, <3>2
    <3> QED
      BY <1>4, <1>7, <3>1, <3>3, <3>4
  <2> QED
    BY <1>4, <2>1, <2>2
<1>11. \A c \in DOMAIN k : k[c].proposal # None => IsCommit(k[c])
  BY <1>3, <1>4, <1>5 DEF IsCommit
<1>12. CommitsHold(k, now)
  BY <1>10 DEF CommitsHold
<1>13. HistoryHolds(k, PushBounded(un, g), <<>>)
  BY <1>4, <1>6, <1>9, <1>11, <1>12 DEF HistoryHolds, now
<1> QED
  BY <1>3, <1>6, <1>13 DEF k

\* The elements of a sequence without its last one, and without its first.
LEMMA FrontAndTail ==
  ASSUME NEW S, NEW s \in Seq(S), s # <<>>
  PROVE  /\ Len(s) \in Nat \ {0} /\ Last(s) = s[Len(s)] /\ Last(s) \in S
         /\ Front(s) \in Seq(S) /\ Len(Front(s)) = Len(s) - 1
         /\ \A i \in 1 .. Len(s) - 1 : Front(s)[i] = s[i]
         /\ Tail(s) \in Seq(S) /\ Len(Tail(s)) = Len(s) - 1
         /\ \A i \in 1 .. Len(s) - 1 : Tail(s)[i] = s[i + 1]
<1>1. Len(s) \in Nat \ {0}
  OBVIOUS
<1>2. Last(s) = s[Len(s)] /\ Last(s) \in S
  BY <1>1 DEF Last
<1>3. \A i \in 1 .. Len(s) - 1 : s[i] \in S
  BY <1>1
<1> DEFINE m == 1
           n == Len(s) - 1
<1>4. m \in Int /\ n \in Int /\ \A i \in m .. n : s[i] \in S
  BY <1>1, <1>3
<1>5. /\ SubSeq(s, m, n) \in Seq(S)
      /\ Len(SubSeq(s, m, n)) = IF m <= n THEN n - m + 1 ELSE 0
      /\ \A i \in 1 .. n - m + 1 : SubSeq(s, m, n)[i] = s[m + i - 1]
  <2> HIDE DEF m, n
  <2>1. m \in Int /\ n \in Int /\ \A i \in m .. n : s[i] \in S
    BY <1>4
  <2>2. SubSeq(s, m, n) \in Seq(S)
    BY <2>1, SubSeqProperties, Zenon
  <2>3. Len(SubSeq(s, m, n)) = IF m <= n THEN n - m + 1 ELSE 0
    BY <2>1, SubSeqProperties
  <2>4. \A i \in 1 .. n - m + 1 : SubSeq(s, m, n)[i] = s[m + i - 1]
    BY <2>1, SubSeqProperties
  <2> QED
    BY <2>2, <2>3, <2>4
<1>6. /\ SubSeq(s, 1, Len(s) - 1) \in Seq(S)
      /\ Len(SubSeq(s, 1, Len(s) - 1)) = Len(s) - 1
      /\ \A i \in 1 .. Len(s) - 1 : SubSeq(s, 1, Len(s) - 1)[i] = s[i]
  <2>0. m = 1 /\ n \in Nat
    BY <1>1
  <2> DEFINE front == SubSeq(s, m, n)
  <2> HIDE DEF m, n
  <2>1. Len(front) = IF m <= n THEN n - m + 1 ELSE 0
    BY <1>5
  <2>2. \A i \in 1 .. n - m + 1 : front[i] = s[m + i - 1]
    BY <1>5
  <2>3. front \in Seq(S)
    BY <1>5
  <2> HIDE DEF front
  <2>4. Len(front) = n
    BY <2>0, <2>1
  <2>5. \A i \in 1 .. n : front[i] = s[i]
    BY <2>0, <2>2
  <2> QED
    BY <2>3, <2>4, <2>5, Zenon DEF front, m, n
<1>7. Front(s) = SubSeq(s, 1, Len(s) - 1)
  BY DEF Front
<1>8. /\ Tail(s) \in Seq(S) /\ Len(Tail(s)) = Len(s) - 1
      /\ \A i \in 1 .. Len(s) - 1 : Tail(s)[i] = s[i + 1]
  BY <1>1
<1> QED
  BY <1>1, <1>2, <1>5, <1>6, <1>7, <1>8

\* undo_transition, alone or as a step of a restore: the last group becomes the first that
\* can be redone, and the farthest of these may be forgotten.
LEMMA UndoKeepsHistory ==
  ASSUME NEW j \in Seq(Line), NEW un \in Seq(Groups), NEW re \in Seq(Groups), un # <<>>,
         HistoryHolds(j, un, re), NEW op \in {<<>>} \cup (Operations \X Nat),
         NEW r, r = Record(op, Last(un), None, Front(StateIn(j, Len(j))))
  PROVE  /\ r \in Line /\ Front(un) \in Seq(Groups) /\ PushBounded(re, Last(un)) \in Seq(Groups)
         /\ HistoryHolds(Append(j, r), Front(un), PushBounded(re, Last(un)))
<1> DEFINE k == Append(j, r)
           present == StateIn(j, Len(j))
           n == Len(present)
           under == Front(present)
           back == PushBounded(re, Last(un))
<1>1. present \in Seq(Groups) /\ n \in Nat
  <2>1. Len(j) \in 0 .. Len(j)
    OBVIOUS
  <2>2. present \in Seq(Groups)
    BY <2>1, StatesAreTyped
  <2> QED
    BY <2>2
<1>2. /\ UndoIsItsEnd(un, present) /\ AllWereCommitted(j, Full(present, re))
      /\ CommitsHold(j, Full(present, re))
      /\ \A c \in DOMAIN j : j[c].proposal # None => IsCommit(j[c])
  BY DEF HistoryHolds
<1>3. /\ Len(un) \in Nat \ {0} /\ Last(un) = un[Len(un)] /\ Last(un) \in Groups
      /\ Front(un) \in Seq(Groups) /\ Len(Front(un)) = Len(un) - 1
      /\ \A i \in 1 .. Len(un) - 1 : Front(un)[i] = un[i]
  BY FrontAndTail
<1> HIDE DEF present, under, n
<1>4. Len(un) <= n /\ \A i \in 1 .. Len(un) : un[i] = present[n - Len(un) + i]
  BY <1>2 DEF UndoIsItsEnd, n
<1>5. /\ under \in Seq(Groups) /\ Len(under) = n - 1 /\ n > 0
      /\ \A i \in 1 .. n - 1 : under[i] = present[i]
  <2>1. n > 0
    BY <1>1, <1>3, <1>4
  <2>2. present # <<>>
    BY <1>1, <2>1 DEF n
  <2> QED
    BY <1>1, <2>1, <2>2, FrontAndTail DEF n, under
<1>6. Last(un) = present[n]
  <2>1. n - Len(un) + Len(un) = n /\ Len(un) \in 1 .. Len(un)
    BY <1>1, <1>3
  <2> QED
    BY <1>3, <1>4, <2>1
<1>7. /\ r = [op |-> op, group |-> Last(un), proposal |-> None, state |-> under]
      /\ r \in Line
  BY <1>3, <1>5 DEF Record, Line, Ops, under, present
<1>8. /\ Len(j) \in Nat /\ DOMAIN j = 1 .. Len(j) /\ DOMAIN k = 1 .. Len(j) + 1
      /\ k[Len(j) + 1] = r /\ \A i \in 1 .. Len(j) : k[i] = j[i]
      /\ StateIn(k, Len(j) + 1) = under /\ Len(k) = Len(j) + 1
  <2>1. /\ Len(j) \in Nat /\ DOMAIN j = 1 .. Len(j) /\ DOMAIN k = 1 .. Len(j) + 1
        /\ k[Len(j) + 1] = r /\ \A i \in 1 .. Len(j) : k[i] = j[i]
        /\ StateIn(k, Len(j) + 1) = r.state /\ Len(k) = Len(j) + 1
    BY <1>7, OneMoreRecord
  <2>2. r.state = under
    BY <1>7
  <2> QED
    BY <2>1, <2>2
<1> HIDE DEF k
<1>9. UndoIsItsEnd(Front(un), under)
  <2>1. ASSUME NEW i \in 1 .. Len(Front(un))
        PROVE  Front(un)[i] = under[Len(under) - Len(Front(un)) + i]
    <3>1. Len(under) - Len(Front(un)) + i = n - Len(un) + i /\ i \in 1 .. Len(un) - 1
      BY <1>1, <1>3, <1>5
    <3>2. n - Len(un) + i \in 1 .. n - 1
      BY <1>1, <1>3, <1>4, <3>1
    <3> QED
      BY <1>3, <1>4, <1>5, <3>1, <3>2
  <2>2. Len(Front(un)) <= Len(under)
    BY <1>1, <1>3, <1>4, <1>5
  <2> QED
    BY <2>1, <2>2 DEF UndoIsItsEnd
<1>10. /\ back \in Seq(Groups) /\ Len(back) \in 1 .. Len(re) + 1 /\ back[Len(back)] = Last(un)
       /\ \A i \in 0 .. Len(back) - 2 : back[Len(back) - 1 - i] = re[Len(re) - i]
       /\ Len(re) \in Nat /\ Len(back) <= Len(re) + 1
  <2>1. CASE Len(re) # MaxHistory
    <3>1. back = Append(re, Last(un))
      BY <2>1 DEF PushBounded
    <3>2. /\ back \in Seq(Groups) /\ Len(back) = Len(re) + 1 /\ back[Len(re) + 1] = Last(un)
          /\ \A i \in 1 .. Len(re) : back[i] = re[i]
          /\ Len(re) \in Nat
      BY <1>3, <3>1
    <3> HIDE DEF back
    <3>3. \A i \in 0 .. Len(back) - 2 : Len(back) - 1 - i = Len(re) - i /\ Len(re) - i \in 1 .. Len(re)
      BY <3>2
    <3> QED
      BY <3>2, <3>3
  <2>2. CASE Len(re) = MaxHistory
    <3>0. re # <<>>
      BY <2>2, ProposalsAssumption
    <3>1. back = Append(Tail(re), Last(un))
      BY <2>2 DEF PushBounded
    <3>2. /\ Tail(re) \in Seq(Groups) /\ Len(Tail(re)) = Len(re) - 1 /\ Len(re) \in Nat \ {0}
          /\ \A i \in 1 .. Len(re) - 1 : Tail(re)[i] = re[i + 1]
      BY <3>0, FrontAndTail
    <3>3. /\ back \in Seq(Groups) /\ Len(back) = Len(re) /\ back[Len(re)] = Last(un)
          /\ \A i \in 1 .. Len(re) - 1 : back[i] = re[i + 1]
      BY <1>3, <3>1, <3>2
    <3> HIDE DEF back
    <3>4. ASSUME NEW i \in 0 .. Len(back) - 2
          PROVE  back[Len(back) - 1 - i] = re[Len(re) - i]
      <4>1. Len(re) - 1 - i \in 1 .. Len(re) - 1 /\ (Len(re) - 1 - i) + 1 = Len(re) - i
        BY <3>2, <3>3
      <4> QED
        BY <3>3, <4>1
    <3> QED
      BY <3>2, <3>3, <3>4
  <2> QED
    BY <2>1, <2>2
<1> HIDE DEF back
<1> DEFINE full == Full(present, re)
           now == Full(under, back)
           l == n + Len(re)
           m == n - 1 + Len(back)
<1>11. /\ DOMAIN full = 1 .. l /\ l \in Nat /\ DOMAIN now = 1 .. m /\ m \in 0 .. l
       /\ \A i \in 1 .. m : now[i] = full[i]
  <2>1. /\ DOMAIN full = 1 .. l /\ l \in Nat /\ DOMAIN now = 1 .. m /\ m \in 0 .. l
    BY <1>1, <1>5, <1>10 DEF Full, n
  <2>2. ASSUME NEW i \in 1 .. m
        PROVE  now[i] = full[i]
    <3>1. CASE i < n
      <4>1. now[i] = under[i]
        BY <1>1, <1>5, <1>10, <3>1 DEF Full
      <4>2. full[i] = present[i]
        BY <1>1, <1>10, <2>1, <3>1 DEF Full, n
      <4> QED
        BY <1>1, <1>5, <3>1, <4>1, <4>2
    <3>2. CASE i = n
      <4>1. now[i] = back[Len(back)]
        <5>1. now[i] = back[Len(under) + Len(back) + 1 - i]
          BY <1>1, <1>5, <1>10, <3>2 DEF Full
        <5>2. Len(under) + Len(back) + 1 - i = Len(back)
          BY <1>1, <1>5, <1>10, <3>2
        <5> QED
          BY <5>1, <5>2
      <4>2. full[i] = present[n]
        BY <1>1, <1>5, <1>10, <2>1, <3>2 DEF Full, n
      <4> QED
        BY <1>6, <1>10, <4>1, <4>2
    <3>3. CASE i > n
      <4>1. now[i] = back[Len(under) + Len(back) + 1 - i]
        BY <1>1, <1>5, <1>10, <3>3 DEF Full
      <4>2. full[i] = re[n + Len(re) + 1 - i]
        BY <1>1, <1>5, <1>10, <2>1, <3>3 DEF Full, n
      <4> DEFINE d == i - n - 1
      <4>3. /\ d \in 0 .. Len(back) - 2
            /\ Len(under) + Len(back) + 1 - i = Len(back) - 1 - d
            /\ n + Len(re) + 1 - i = Len(re) - d
        <5>1. Len(under) = n - 1 /\ Len(back) \in Nat /\ Len(re) \in Nat /\ n \in Nat
          BY <1>1, <1>5, <1>10
        <5>2. i \in Nat /\ i > n /\ i <= n - 1 + Len(back)
          BY <3>3, <5>1
        <5> QED
          BY <5>1, <5>2
      <4> HIDE DEF d
      <4>4. back[Len(back) - 1 - d] = re[Len(re) - d]
        BY <1>10, <4>3
      <4> QED
        BY <4>1, <4>2, <4>3, <4>4
    <3> QED
      BY <1>1, <3>1, <3>2, <3>3
  <2> QED
    BY <2>1, <2>2
<1>12. ~IsCommit(r)
  <2>1. r.op = op /\ r.group = Last(un)
    BY <1>7
  <2>2. op # <<Last(un)>>
    <3>1. CASE op = <<>>
      BY <3>1
    <3>2. CASE op \in Operations \X Nat
      <4>1. PICK o \in Operations, i \in Nat : op = <<o, i>>
        BY <3>2
      <4>2. <<o, i>> # <<Last(un)>>
        OBVIOUS
      <4> QED
        BY <4>1, <4>2
    <3> QED
      BY <3>1, <3>2
  <2> QED
    BY <2>1, <2>2 DEF IsCommit
<1> HIDE DEF full, now, l, m
<1>13. CommitsHold(k, now) /\ AllWereCommitted(k, now)
  BY <1>2, <1>7, <1>11, <1>12, HoldsUnderMove DEF full, k
<1>14. \A c \in DOMAIN k : k[c].proposal # None => IsCommit(k[c])
  <2>1. r.proposal = None
    BY <1>7
  <2> QED
    BY <1>2, <1>8, <2>1
<1>15. HistoryHolds(k, Front(un), back)
  BY <1>8, <1>9, <1>13, <1>14 DEF HistoryHolds, now
<1> QED
  BY <1>3, <1>7, <1>10, <1>15 DEF k, back

\* redo_transition.
LEMMA RedoKeepsHistory ==
  ASSUME NEW j \in Seq(Line), NEW un \in Seq(Groups), NEW re \in Seq(Groups), re # <<>>,
         HistoryHolds(j, un, re),
         NEW r, r = Record(<<>>, Last(re), None, Append(StateIn(j, Len(j)), Last(re)))
  PROVE  /\ r \in Line /\ PushBounded(un, Last(re)) \in Seq(Groups) /\ Front(re) \in Seq(Groups)
         /\ HistoryHolds(Append(j, r), PushBounded(un, Last(re)), Front(re))
<1> DEFINE k == Append(j, r)
           present == StateIn(j, Len(j))
           n == Len(present)
           g == Last(re)
           over == Append(present, g)
<1>1. present \in Seq(Groups) /\ n \in Nat
  <2>1. Len(j) \in 0 .. Len(j)
    OBVIOUS
  <2>2. present \in Seq(Groups)
    BY <2>1, StatesAreTyped
  <2> QED
    BY <2>2
<1>2. /\ UndoIsItsEnd(un, present) /\ AllWereCommitted(j, Full(present, re))
      /\ CommitsHold(j, Full(present, re))
      /\ \A c \in DOMAIN j : j[c].proposal # None => IsCommit(j[c])
  BY DEF HistoryHolds
<1>3. /\ Len(re) \in Nat \ {0} /\ g = re[Len(re)] /\ g \in Groups
      /\ Front(re) \in Seq(Groups) /\ Len(Front(re)) = Len(re) - 1
      /\ \A i \in 1 .. Len(re) - 1 : Front(re)[i] = re[i]
  BY FrontAndTail
<1> HIDE DEF g, present, n
<1>4. /\ over \in Seq(Groups) /\ Len(over) = n + 1 /\ over[n + 1] = g
      /\ \A i \in 1 .. n : over[i] = present[i]
  BY <1>1, <1>3 DEF n
<1> HIDE DEF over
<1>5. /\ r = [op |-> <<>>, group |-> g, proposal |-> None, state |-> over]
      /\ r \in Line
  BY <1>3, <1>4 DEF Record, Line, Ops, over, present, g
<1>6. /\ Len(j) \in Nat /\ DOMAIN j = 1 .. Len(j) /\ DOMAIN k = 1 .. Len(j) + 1
      /\ k[Len(j) + 1] = r /\ \A i \in 1 .. Len(j) : k[i] = j[i]
      /\ StateIn(k, Len(j) + 1) = over /\ Len(k) = Len(j) + 1
  <2>1. /\ Len(j) \in Nat /\ DOMAIN j = 1 .. Len(j) /\ DOMAIN k = 1 .. Len(j) + 1
        /\ k[Len(j) + 1] = r /\ \A i \in 1 .. Len(j) : k[i] = j[i]
        /\ StateIn(k, Len(j) + 1) = r.state /\ Len(k) = Len(j) + 1
    BY <1>5, OneMoreRecord
  <2>2. r.state = over
    BY <1>5
  <2> QED
    BY <2>1, <2>2
<1> HIDE DEF k
<1>7. PushBounded(un, g) \in Seq(Groups) /\ UndoIsItsEnd(PushBounded(un, g), over)
  BY <1>1, <1>2, <1>3, PushedIsItsEnd DEF over
<1> DEFINE full == Full(present, re)
           now == Full(over, Front(re))
           l == n + Len(re)
<1>8. /\ DOMAIN full = 1 .. l /\ l \in Nat /\ DOMAIN now = 1 .. l
      /\ \A i \in 1 .. l : now[i] = full[i]
  <2>1. DOMAIN full = 1 .. l /\ l \in Nat /\ DOMAIN now = 1 .. l
    BY <1>1, <1>3, <1>4 DEF Full, n
  <2>2. ASSUME NEW i \in 1 .. l
        PROVE  now[i] = full[i]
    <3>1. CASE i <= n
      <4>1. now[i] = over[i]
        BY <1>1, <1>3, <1>4, <2>1, <3>1 DEF Full
      <4>2. full[i] = present[i]
        BY <1>1, <1>3, <2>1, <3>1 DEF Full, n
      <4> QED
        BY <1>1, <1>4, <3>1, <4>1, <4>2
    <3>2. CASE i = n + 1
      <4>1. now[i] = over[n + 1]
        BY <1>1, <1>3, <1>4, <2>1, <3>2 DEF Full
      <4>2. full[i] = re[Len(re)]
        <5>1. full[i] = re[n + Len(re) + 1 - i]
          BY <1>1, <1>3, <2>1, <3>2 DEF Full, n
        <5>2. n + Len(re) + 1 - i = Len(re)
          BY <1>1, <1>3, <3>2
        <5> QED
          BY <5>1, <5>2
      <4> QED
        BY <1>3, <1>4, <4>1, <4>2
    <3>3. CASE i > n + 1
      <4>1. now[i] = Front(re)[Len(over) + Len(Front(re)) + 1 - i]
        BY <1>1, <1>3, <1>4, <2>1, <3>3 DEF Full
      <4>2. full[i] = re[n + Len(re) + 1 - i]
        BY <1>1, <1>3, <2>1, <3>3 DEF Full, n
      <4>3. /\ Len(over) + Len(Front(re)) + 1 - i = n + Len(re) + 1 - i
            /\ n + Len(re) + 1 - i \in 1 .. Len(re) - 1
        BY <1>1, <1>3, <1>4, <3>3
      <4> QED
        BY <1>3, <4>1, <4>2, <4>3
    <3> QED
      BY <1>1, <3>1, <3>2, <3>3
  <2> QED
    BY <2>1, <2>2
<1>9. ~IsCommit(r)
  <2>1. r.op = <<>> /\ r.group = g
    BY <1>5
  <2>2. <<>> # <<g>>
    OBVIOUS
  <2> QED
    BY <2>1, <2>2 DEF IsCommit
<1> HIDE DEF full, now, l
<1>10. l \in 0 .. l
  BY <1>8
<1>11. CommitsHold(k, now) /\ AllWereCommitted(k, now)
  BY <1>2, <1>5, <1>8, <1>9, <1>10, HoldsUnderMove DEF full, k
<1>12. \A c \in DOMAIN k : k[c].proposal # None => IsCommit(k[c])
  <2>1. r.proposal = None
    BY <1>5
  <2> QED
    BY <1>2, <1>6, <2>1
<1>13. HistoryHolds(k, PushBounded(un, g), Front(re))
  BY <1>6, <1>7, <1>11, <1>12 DEF HistoryHolds, now
<1> QED
  BY <1>3, <1>5, <1>7, <1>13 DEF k, g
-----------------------------------------------------------------------------
\* The steps

\* Of the proposals only which were made for some revision matters.
LEMMA GoodUnderMade ==
  ASSUME NEW j, NEW m, NEW n, NEW s, Good(j, m, s), \A p \in Ids : m[p] # None => n[p] # None
  PROVE  Good(j, n, s)
<1>1. ASSUME NEW a \in DOMAIN s.proposals
      PROVE  s.proposals[a].id \in Ids
  <2>1. s.proposals \in Seq(Proposal)
    BY DEF Good, Store
  <2>2. s.proposals[a] \in Proposal
    BY <2>1
  <2> QED
    BY <2>2 DEF Proposal
<1>2. \A a \in DOMAIN s.proposals : n[s.proposals[a].id] # None
  BY <1>1 DEF Good
<1> QED
  BY <1>2, Zenon DEF Good

\* A write of the store leaves it, or leaves it as true as what was to be saved.
LEMMA SaveIsGood ==
  ASSUME NEW j, NEW m, NEW s, Good(j, m, s), Good(j, m, store), faults \in 0 .. MaxFaults, Save(s)
  PROVE  Good(j, m, store') /\ faults' \in 0 .. MaxFaults
<1>1. CASE store' = Pruned(s) /\ UNCHANGED faults
  BY <1>1, PrunedIsGood
<1>2. CASE Fault /\ UNCHANGED store
  BY <1>2, ProposalsAssumption DEF Fault
<1> QED
  BY <1>1, <1>2 DEF Save

\* A store of nothing is true of every journal.
LEMMA EmptyIsGood ==
  ASSUME NEW j, NEW m
  PROVE  Good(j, m, Empty)
<1>1. Empty.proposals = <<>> /\ Empty.audit = <<>> /\ Empty \in Store
  BY DEF Empty, Store
<1>2. DOMAIN Empty.proposals = {} /\ DOMAIN Empty.audit = {}
  BY <1>1
<1>3. UniqueIds(Empty) /\ AuditSound(j, Empty)
  BY <1>2 DEF UniqueIds, AuditSound
<1> QED
  BY <1>1, <1>2, <1>3 DEF Good

\* A step of the history that is no commit of a proposal.
LEMMA HistoryStepKeeps ==
  ASSUME IInv, NEW r \in Line, r.proposal = None, journal' = Append(journal, r),
         undo' \in Seq(Groups), redo' \in Seq(Groups), HistoryHolds(journal', undo', redo'),
         UNCHANGED <<store, made, late, faults>>,
         lock' = None \/ (lock' \in Lock /\ Good(journal, made, lock'.store))
  PROVE  IInv'
<1>1. /\ journal \in Seq(Line) /\ AppliedOnce(journal) /\ Good(journal, made, store)
  BY DEF IInv, JournalSound, StoresAreGood
<1>2. journal' \in Seq(Line) /\ Len(journal') = Len(journal) + 1 /\ Len(journal) \in Nat
  BY <1>1
<1>3. r.proposal \notin Ids
  BY ProposalsAssumption
<1>4. /\ AppliedOnce(journal')
      /\ \A p \in Ids : CommitsIn(journal', p) # {} => CommitsIn(journal, p) # {}
  BY <1>1, <1>3, OnceUnderRecord
<1>5. Good(journal', made', store')
  BY <1>1, GoodUnderOtherRecord
<1>6. lock' = None \/ (lock' \in Lock /\ Good(journal', made', lock'.store))
  BY <1>1, GoodUnderOtherRecord
<1>7. MadeBefore'
  <2> SUFFICES ASSUME NEW p \in Ids
               PROVE  /\ made'[p] # None => made'[p] \in 0 .. Len(journal')
                      /\ CommitsIn(journal', p) # {} => made'[p] \in 0 .. Len(journal') - 1
    BY DEF MadeBefore, Revision
  <2>1. /\ made[p] # None => made[p] \in 0 .. Len(journal)
        /\ CommitsIn(journal, p) # {} => made[p] \in 0 .. Len(journal) - 1
    BY DEF IInv, MadeBefore, Revision
  <2> QED
    BY <1>2, <1>4, <2>1
<1>8. TypesHold'
  BY DEF IInv, TypesHold
<1> QED
  BY <1>2, <1>4, <1>5, <1>6, <1>7, <1>8 DEF IInv, JournalSound, StoresAreGood

\* A step that leaves the project alone.
LEMMA StoreStepKeeps ==
  ASSUME IInv, UNCHANGED <<journal, undo, redo, made>>, late' \in SUBSET Ids,
         faults' \in 0 .. MaxFaults, Good(journal, made, store'),
         lock' = None \/ (lock' \in Lock /\ Good(journal, made, lock'.store))
  PROVE  IInv'
<1>1. TypesHold' /\ JournalSound' /\ HistoryHolds(journal, undo, redo)'
  BY DEF IInv, TypesHold, JournalSound
<1>2. MadeBefore'
  BY DEF IInv, MadeBefore, Revision
<1>3. StoresAreGood'
  BY DEF StoresAreGood
<1> QED
  BY <1>1, <1>2, <1>3 DEF IInv

\* A command of the user's: a group that was never committed.
LEMMA ExecuteKeeps ==
  ASSUME IInv, NEW g \in Edits, Execute(g)
  PROVE  IInv'
<1>1. /\ journal \in Seq(Line) /\ undo \in Seq(Groups) /\ redo \in Seq(Groups)
      /\ HistoryHolds(journal, undo, redo)
  BY DEF IInv, JournalSound, TypesHold
<1>2. PICK r : r = Record(<<g>>, g, None, Append(StateIn(journal, Len(journal)), g))
  OBVIOUS
<1>3. /\ journal' = Append(journal, r) /\ undo' = PushBounded(undo, g) /\ redo' = <<>>
      /\ lock' = None /\ UNCHANGED <<store, made, late, faults>>
  BY <1>2 DEF Execute, Commit, Present, StateAt, StateIn, Revision
<1>4. ~\E c \in DOMAIN journal : journal[c].op = <<g>>
  BY DEF Execute, Answered
<1>5. g \in Groups /\ r.proposal = None
  BY <1>2 DEF Groups, Record
<1>6. /\ r \in Line /\ PushBounded(undo, g) \in Seq(Groups)
      /\ HistoryHolds(Append(journal, r), PushBounded(undo, g), <<>>)
  BY <1>1, <1>2, <1>4, <1>5, CommitKeepsHistory
<1> QED
  BY <1>3, <1>5, <1>6, HistoryStepKeeps

\* undo_transition on its own or within a restore.
LEMMA UndoStepKeeps ==
  ASSUME IInv, NEW op \in {<<>>} \cup (Operations \X Nat), UndoStep(op),
         UNCHANGED <<store, made, late, faults>>,
         lock' = None \/ (lock' \in Lock /\ Good(journal, made, lock'.store))
  PROVE  IInv'
<1>1. /\ journal \in Seq(Line) /\ undo \in Seq(Groups) /\ redo \in Seq(Groups)
      /\ HistoryHolds(journal, undo, redo) /\ undo # <<>>
  BY DEF IInv, JournalSound, TypesHold, UndoStep
<1>2. PICK r : r = Record(op, Last(undo), None, Front(StateIn(journal, Len(journal))))
  OBVIOUS
<1>3. /\ journal' = Append(journal, r) /\ undo' = Front(undo)
      /\ redo' = PushBounded(redo, Last(undo))
  BY <1>2 DEF UndoStep, Present, StateAt, StateIn, Revision
<1>4. r.proposal = None
  BY <1>2 DEF Record
<1>5. /\ r \in Line /\ Front(undo) \in Seq(Groups) /\ PushBounded(redo, Last(undo)) \in Seq(Groups)
      /\ HistoryHolds(Append(journal, r), Front(undo), PushBounded(redo, Last(undo)))
  BY <1>1, <1>2, UndoKeepsHistory
<1> QED
  BY <1>3, <1>4, <1>5, HistoryStepKeeps

\* The user's undo.
LEMMA UndoKeeps ==
  ASSUME IInv, Undo
  PROVE  IInv'
BY UndoStepKeeps DEF Undo

\* The user's redo.
LEMMA RedoKeeps ==
  ASSUME IInv, Redo
  PROVE  IInv'
<1>1. /\ journal \in Seq(Line) /\ undo \in Seq(Groups) /\ redo \in Seq(Groups)
      /\ HistoryHolds(journal, undo, redo) /\ redo # <<>>
  BY DEF IInv, JournalSound, TypesHold, Redo
<1>2. PICK r : r = Record(<<>>, Last(redo), None, Append(StateIn(journal, Len(journal)), Last(redo)))
  OBVIOUS
<1>3. /\ journal' = Append(journal, r) /\ undo' = PushBounded(undo, Last(redo))
      /\ redo' = Front(redo) /\ lock' = None /\ UNCHANGED <<store, made, late, faults>>
  BY <1>2 DEF Redo, Present, StateAt, StateIn, Revision
<1>4. r.proposal = None
  BY <1>2 DEF Record
<1>5. /\ r \in Line /\ PushBounded(undo, Last(redo)) \in Seq(Groups) /\ Front(redo) \in Seq(Groups)
      /\ HistoryHolds(Append(journal, r), PushBounded(undo, Last(redo)), Front(redo))
  BY <1>1, <1>2, RedoKeepsHistory
<1> QED
  BY <1>3, <1>4, <1>5, HistoryStepKeeps

\* One of the undo steps of a restore, under its lock.
LEMMA RestoreStepKeeps ==
  ASSUME IInv, RestoreStep
  PROVE  IInv'
<1>1. lock # None /\ lock.kind = "restore" /\ lock \in Lock /\ Good(journal, made, lock.store)
  BY DEF IInv, StoresAreGood, RestoreStep, Restoring
<1>2. /\ lock \in [kind : {"restore"}, op : Operations, step : Nat, steps : Nat, store : Store]
      /\ lock.step \in Nat /\ lock.op \in Operations
  BY <1>1 DEF Lock
<1>3. lock' = [lock EXCEPT !.step = lock.step + 1]
  BY DEF RestoreStep
<1>4. lock' \in Lock /\ lock'.store = lock.store
  BY <1>2, <1>3 DEF Lock
<1>5. PICK op : op = <<lock.op, lock.step>>
  OBVIOUS
<1>6. op \in {<<>>} \cup (Operations \X Nat)
  BY <1>2, <1>5
<1>7. UndoStep(op) /\ UNCHANGED <<store, made, late, faults>>
  BY <1>5 DEF RestoreStep
<1>8. lock' \in Lock /\ Good(journal, made, lock'.store)
  BY <1>1, <1>4
<1> QED
  BY <1>6, <1>7, <1>8, UndoStepKeeps

\* A load that settles something, and the write that follows it.
LEMMA ListKeeps ==
  ASSUME IInv, List
  PROVE  IInv'
<1>1. JournalSound /\ Good(journal, made, store) /\ late \in SUBSET Ids /\ faults \in 0 .. MaxFaults
  BY DEF IInv, StoresAreGood, TypesHold
<1>2. PICK s : s = Settled(store)
  OBVIOUS
<1>3. Good(journal, made, s)
  BY <1>1, <1>2, SettledIsGood
<1>4. Save(s) /\ lock' = None /\ UNCHANGED <<journal, undo, redo, made, late>>
  BY <1>2 DEF List
<1>5. Good(journal, made, store') /\ faults' \in 0 .. MaxFaults
  BY <1>1, <1>3, <1>4, SaveIsGood
<1> QED
  BY <1>1, <1>4, <1>5, StoreStepKeeps

\* A rejection or a proposal marked stale: the settled store has it open, so the journal has no commit of it.
LEMMA ResolveKeeps ==
  ASSUME IInv, NEW p \in Ids, NEW status \in {"rejected", "stale"}, Resolve(p, status)
  PROVE  IInv'
<1>1. JournalSound /\ Good(journal, made, store) /\ late \in SUBSET Ids /\ faults \in 0 .. MaxFaults
  BY DEF IInv, StoresAreGood, TypesHold
<1>2. PICK s : s = Settled(store)
  OBVIOUS
<1>3. HasStatus(s, p, "pending") /\ lock' = None /\ UNCHANGED <<journal, undo, redo, made, late>>
  BY <1>2 DEF Resolve
<1>4. Good(journal, made, s) /\ CommitsIn(journal, p) = {}
  BY <1>1, <1>2, <1>3, SettledIsGood
<1>5. PICK t : t = WithStatus(s, p, status)
  OBVIOUS
<1>6. Good(journal, made, t)
  BY <1>4, <1>5, ResolvedIsGood
<1>7. Save(t)
  BY <1>2, <1>5 DEF Resolve
<1>8. Good(journal, made, store') /\ faults' \in 0 .. MaxFaults
  BY <1>1, <1>6, <1>7, SaveIsGood
<1> QED
  BY <1>1, <1>3, <1>8, StoreStepKeeps

\* A new proposal, or a dropped one submitted once more: what was made for this revision is not committed.
LEMMA SubmitKeeps ==
  ASSUME IInv, NEW p \in Ids, Submit(p)
  PROVE  IInv'
<1>1. /\ JournalSound /\ Good(journal, made, store) /\ faults \in 0 .. MaxFaults
      /\ TypesHold /\ MadeBefore /\ journal \in Seq(Line)
  BY DEF IInv, StoresAreGood, TypesHold, JournalSound
<1>2. PICK s : s = Settled(store)
  OBVIOUS
<1>3. PICK now : now = Len(journal) /\ now \in Nat
  BY <1>1
<1>4. Good(journal, made, s)
  BY <1>1, <1>2, SettledIsGood
<1>5. /\ Places(s, p) = {} /\ made[p] \in {None, now} /\ made' = [made EXCEPT ![p] = now]
      /\ lock = None /\ lock' = None /\ late' = late \ {p} /\ UNCHANGED <<journal, undo, redo>>
  BY <1>2, <1>3, Zenon DEF Submit, Revision
<1>6. None \notin Nat
  BY ProposalsAssumption
<1>7. CommitsIn(journal, p) = {}
  <2>1. CommitsIn(journal, p) # {} => made[p] \in 0 .. now - 1
    BY <1>1, <1>3 DEF MadeBefore, Revision
  <2> QED
    BY <1>3, <1>5, <1>6, <2>1
<1>8. made \in [Ids -> Nat \cup {None}]
  BY <1>1 DEF TypesHold
<1>9. made'[p] = now /\ \A q \in Ids \ {p} : made'[q] = made[q]
  BY <1>5, <1>8
<1>10. made'[p] # None
  BY <1>3, <1>6, <1>9
<1>11. PICK t : t = [s EXCEPT !.proposals = Append(@, [id |-> p, base |-> now, status |-> "pending",
                                                        group |-> None])]
  OBVIOUS
<1>12. Good(journal, made', t)
  <2>1. PICK m : m = made'
    OBVIOUS
  <2>2. m[p] # None /\ \A q \in Ids \ {p} : m[q] = made[q]
    BY <1>9, <1>10, <2>1
  <2>3. Good(journal, m, [s EXCEPT !.proposals = Append(@, [id |-> p, base |-> now,
                                                          status |-> "pending", group |-> None])])
    BY <1>3, <1>4, <1>5, <1>7, <2>2, SubmittedIsGood
  <2> QED
    BY <1>11, <2>1, <2>3
<1>13. Save(t)
  BY <1>2, <1>3, <1>11 DEF Submit, Revision
<1>14. Good(journal, made', store)
  <2>1. \A q \in Ids : made[q] # None => made'[q] # None
    BY <1>9, <1>10
  <2> QED
    BY <1>1, <2>1, GoodUnderMade
<1>15. Good(journal, made', store') /\ faults' \in 0 .. MaxFaults
  BY <1>1, <1>12, <1>13, <1>14, SaveIsGood
<1>16. StoresAreGood' /\ JournalSound' /\ HistoryHolds(journal, undo, redo)'
  BY <1>5, <1>15 DEF IInv, StoresAreGood, JournalSound
<1>17. TypesHold'
  <2>1. made' \in [Ids -> Nat \cup {None}]
    BY <1>3, <1>5, <1>8
  <2> QED
    BY <1>1, <1>5, <1>15, <2>1 DEF TypesHold
<1>18. MadeBefore'
  <2> SUFFICES ASSUME NEW q \in Ids
               PROVE  /\ made'[q] # None => made'[q] \in 0 .. Len(journal)
                      /\ CommitsIn(journal, q) # {} => made'[q] \in 0 .. Len(journal) - 1
    BY <1>5 DEF MadeBefore, Revision
  <2>1. /\ made[q] # None => made[q] \in 0 .. Len(journal)
        /\ CommitsIn(journal, q) # {} => made[q] \in 0 .. Len(journal) - 1
    BY <1>1 DEF MadeBefore, Revision
  <2>2. CASE q = p
    BY <1>3, <1>7, <1>9, <2>2
  <2>3. CASE q # p
    BY <1>9, <2>1, <2>3
  <2> QED
    BY <2>2, <2>3
<1> QED
  BY <1>16, <1>17, <1>18 DEF IInv

\* The commit of a proposal, which the store may miss: it has the proposal open, and so it may be made good later.
LEMMA ApplyKeeps ==
  ASSUME IInv, NEW p \in Ids, NEW g \in Approvals[p], Apply(p, g)
  PROVE  IInv'
<1>1. /\ JournalSound /\ Good(journal, made, store) /\ TypesHold /\ MadeBefore
      /\ journal \in Seq(Line) /\ AppliedOnce(journal)
      /\ undo \in Seq(Groups) /\ redo \in Seq(Groups) /\ HistoryHolds(journal, undo, redo)
  BY DEF IInv, StoresAreGood, TypesHold, JournalSound
<1>2. PICK s : s = Settled(store)
  OBVIOUS
<1>3. /\ Good(journal, made, s) /\ HasStatus(s, p, "pending")
      /\ UNCHANGED <<store, made, late, faults>>
  BY <1>1, <1>2, SettledIsGood DEF Apply
<1>4. /\ CommitsIn(journal, p) = {} /\ made[p] # None
      /\ \A a \in DOMAIN store.proposals :
            store.proposals[a].id = p => store.proposals[a].status = "pending"
  BY <1>1, <1>2, <1>3, SettledIsGood
<1>5. PICK r : r = Record(<<g>>, g, p, Append(StateIn(journal, Len(journal)), g))
  OBVIOUS
<1>6. PICK j : j = Append(journal, r)
  OBVIOUS
<1>7. /\ journal' = j /\ undo' = PushBounded(undo, g) /\ redo' = <<>>
  BY <1>5, <1>6 DEF Apply, Commit, Present, StateAt, StateIn, Revision
<1>8. ~\E c \in DOMAIN journal : journal[c].op = <<g>>
  BY DEF Apply, Answered
<1>9. g \in Groups /\ r.proposal = p /\ r.group = g
  BY <1>5 DEF Groups, Record
<1>10. /\ r \in Line /\ PushBounded(undo, g) \in Seq(Groups)
       /\ HistoryHolds(j, PushBounded(undo, g), <<>>)
  BY <1>1, <1>5, <1>6, <1>8, <1>9, CommitKeepsHistory
<1>11. /\ j \in Seq(Line) /\ Len(j) = Len(journal) + 1 /\ Len(journal) \in Nat
       /\ Len(j) \in DOMAIN j /\ j[Len(j)] = r
  BY <1>1, <1>6, <1>10
<1>12. /\ AppliedOnce(j)
       /\ \A q \in Ids : CommitsIn(j, q) # {} => CommitsIn(journal, q) # {} \/ q = p
  BY <1>1, <1>4, <1>6, <1>9, <1>10, OnceUnderRecord
<1>13. Good(j, made, store)
  BY <1>1, <1>4, <1>6, <1>9, <1>10, GoodUnderCommit
<1>14. \A a \in DOMAIN s.proposals : s.proposals[a].id = p => s.proposals[a].status = "pending"
  BY <1>3 DEF HasStatus, Places, Good, UniqueIds
<1>15. Good(j, made, s)
  BY <1>1, <1>3, <1>6, <1>9, <1>10, <1>14, GoodUnderCommit
<1>16. PICK c : c = Len(j) /\ c \in CommitsIn(j, p) /\ j[c].group = g
  BY <1>9, <1>11 DEF CommitsIn
<1>17. Good(j, made, WithApplied(s, p, g))
  BY <1>3, <1>9, <1>15, <1>16, AppliedIsGood
<1>18. PICK t : t = WithApplied(s, p, g)
  OBVIOUS
<1>19. lock' = [kind |-> "apply", store |-> t]
  BY <1>2, <1>18 DEF Apply
<1>20. lock' \in Lock /\ lock'.store = t
  <2>1. t \in Store
    BY <1>17, <1>18 DEF Good
  <2> QED
    BY <1>19, <2>1 DEF Lock
<1>21. StoresAreGood'
  BY <1>3, <1>7, <1>13, <1>17, <1>18, <1>20 DEF StoresAreGood
<1>22. MadeBefore'
  <2> SUFFICES ASSUME NEW q \in Ids
               PROVE  /\ made[q] # None => made[q] \in 0 .. Len(j)
                      /\ CommitsIn(j, q) # {} => made[q] \in 0 .. Len(j) - 1
    BY <1>3, <1>7 DEF MadeBefore, Revision
  <2>1. /\ made[q] # None => made[q] \in 0 .. Len(journal)
        /\ CommitsIn(journal, q) # {} => made[q] \in 0 .. Len(journal) - 1
    BY <1>1 DEF MadeBefore, Revision
  <2>2. CommitsIn(j, q) # {} => CommitsIn(journal, q) # {} \/ q = p
    BY <1>12
  <2> QED
    BY <1>4, <1>11, <2>1, <2>2
<1>23. TypesHold'
  BY <1>1, <1>3, <1>7, <1>10 DEF TypesHold
<1>24. JournalSound' /\ HistoryHolds(journal, undo, redo)'
  BY <1>7, <1>10, <1>11, <1>12 DEF JournalSound
<1> QED
  BY <1>21, <1>22, <1>23, <1>24 DEF IInv

\* The restore of a proposal that the settled store has as applied.
LEMMA StartRestoreKeeps ==
  ASSUME IInv, NEW p \in Ids, NEW op \in Operations, StartRestore(p, op)
  PROVE  IInv'
<1>1. /\ JournalSound /\ Good(journal, made, store) /\ late \in SUBSET Ids
      /\ faults \in 0 .. MaxFaults /\ undo \in Seq(Groups)
  BY DEF IInv, StoresAreGood, TypesHold
<1>2. PICK s : s = Settled(store)
  OBVIOUS
<1>3. Good(journal, made, s)
  BY <1>1, <1>2, SettledIsGood
<1>4. PICK i \in Places(s, p) :
        /\ s.proposals[i].status = "applied"
        /\ \E k \in DOMAIN undo :
             lock' = [kind |-> "restore", op |-> op, step |-> 0, steps |-> Steps(k),
                      store |-> WithStatus(s, p, "restored")]
  BY <1>2 DEF StartRestore
<1>5. HasStatus(s, p, "applied")
  BY <1>2, <1>4 DEF HasStatus
<1>6. PICK t : t = WithStatus(s, p, "restored")
  OBVIOUS
<1>7. Good(journal, made, t) /\ t \in Store
  <2>1. Good(journal, made, t)
    BY <1>3, <1>5, <1>6, RestoredIsGood
  <2> QED
    BY <2>1 DEF Good
<1>8. PICK k \in DOMAIN undo : lock' = [kind |-> "restore", op |-> op, step |-> 0,
                                        steps |-> Steps(k), store |-> t]
  BY <1>2, <1>4, <1>6
<1>9. Steps(k) \in Nat
  BY <1>1, <1>8 DEF Steps
<1>10. lock' \in Lock /\ lock'.store = t
  BY <1>7, <1>8, <1>9 DEF Lock
<1>11. UNCHANGED <<journal, undo, redo, store, made, late, faults>>
  BY DEF StartRestore
<1> QED
  BY <1>1, <1>7, <1>10, <1>11, StoreStepKeeps

\* The write that ends an apply or a restore.
LEMMA SaveOutcomeKeeps ==
  ASSUME IInv, SaveOutcome
  PROVE  IInv'
<1>1. /\ Good(journal, made, store) /\ late \in SUBSET Ids /\ faults \in 0 .. MaxFaults
      /\ lock # None => Good(journal, made, lock.store)
  BY DEF IInv, StoresAreGood, TypesHold
<1>2. PICK s : s = lock.store
  OBVIOUS
<1>3. /\ Save(s) /\ Good(journal, made, s) /\ lock' = None
      /\ UNCHANGED <<journal, undo, redo, made, late>>
  BY <1>1, <1>2 DEF SaveOutcome
<1>4. Good(journal, made, store') /\ faults' \in 0 .. MaxFaults
  BY <1>1, <1>3, SaveIsGood
<1> QED
  BY <1>1, <1>3, <1>4, StoreStepKeeps

\* A deadline that passes, a step of a restore that fails, a crash.
LEMMA WorldKeeps ==
  ASSUME IInv, RestoreStepFails \/ Crash \/ \E p \in Ids : TimePasses(p)
  PROVE  IInv'
<1>1. /\ Good(journal, made, store) /\ late \in SUBSET Ids /\ faults \in 0 .. MaxFaults
      /\ lock = None \/ (lock \in Lock /\ Good(journal, made, lock.store))
  BY DEF IInv, StoresAreGood, TypesHold
<1>2. /\ UNCHANGED <<journal, undo, redo, made, store>> /\ late' \in SUBSET Ids
      /\ faults' \in 0 .. MaxFaults /\ lock' \in {None, lock}
  BY <1>1, ProposalsAssumption DEF RestoreStepFails, Crash, TimePasses, Fault
<1> QED
  BY <1>1, <1>2, StoreStepKeeps

\* A store that cannot be read starts afresh.
LEMMA LoseStoreKeeps ==
  ASSUME IInv, LoseStore
  PROVE  IInv'
<1>1. /\ late \in SUBSET Ids /\ faults \in 0 .. MaxFaults
      /\ lock = None \/ (lock \in Lock /\ Good(journal, made, lock.store))
  BY DEF IInv, StoresAreGood, TypesHold
<1>2. /\ UNCHANGED <<journal, undo, redo, made, late, lock>>
      /\ faults' \in 0 .. MaxFaults /\ store' = Empty
  BY <1>1, ProposalsAssumption DEF LoseStore, Fault
<1>3. Good(journal, made, store')
  BY <1>2, EmptyIsGood
<1> QED
  BY <1>1, <1>2, <1>3, StoreStepKeeps

\* The invariant holds of a new project.
LEMMA InitIInv == Init => IInv
<1> SUFFICES ASSUME Init
             PROVE  IInv
  OBVIOUS
<1>1. /\ journal = <<>> /\ undo = <<>> /\ redo = <<>> /\ store = Empty /\ late = {} /\ lock = None
      /\ faults = 0 /\ made = [p \in Ids |-> None]
  BY DEF Init
<1>2. DOMAIN journal = {} /\ Len(journal) = 0 /\ journal \in Seq(Line)
  BY <1>1
<1>3. \A p \in Ids : CommitsIn(journal, p) = {}
  BY <1>2 DEF CommitsIn
<1>4. TypesHold
  BY <1>1, ProposalsAssumption DEF TypesHold
<1>5. JournalSound
  BY <1>2, <1>3 DEF JournalSound, AppliedOnce
<1>6. MadeBefore
  BY <1>1, <1>3 DEF MadeBefore
<1>7. StoresAreGood
  BY <1>1, EmptyIsGood DEF StoresAreGood
<1>8. HistoryHolds(journal, undo, redo)
  <2>1. StateIn(journal, Len(journal)) = <<>>
    BY <1>2 DEF StateIn
  <2>2. DOMAIN Full(<<>>, redo) = {}
    BY <1>1 DEF Full
  <2>3. UndoIsItsEnd(undo, <<>>)
    BY <1>1 DEF UndoIsItsEnd
  <2>4. AllWereCommitted(journal, Full(<<>>, redo)) /\ CommitsHold(journal, Full(<<>>, redo))
    BY <1>2, <2>2 DEF AllWereCommitted, CommitsHold
  <2> QED
    BY <1>2, <2>1, <2>3, <2>4 DEF HistoryHolds
<1> QED
  BY <1>4, <1>5, <1>6, <1>7, <1>8 DEF IInv

\* The inductive invariant holds in every reachable state.
THEOREM Invariance == Spec => []IInv
<1>1. IInv /\ [Next]_vars => IInv'
  <2> SUFFICES ASSUME IInv, [Next]_vars
               PROVE  IInv'
    OBVIOUS
  <2>1. CASE \E g \in Edits : Execute(g)
    BY <2>1, ExecuteKeeps
  <2>2. CASE Undo \/ Redo
    BY <2>2, UndoKeeps, RedoKeeps
  <2>3. CASE List
    BY <2>3, ListKeeps
  <2>4. CASE \E p \in Ids : Submit(p) \/ TimePasses(p) \/ \E s \in {"rejected", "stale"} : Resolve(p, s)
    BY <2>4, SubmitKeeps, WorldKeeps, ResolveKeeps
  <2>5. CASE \E p \in Ids : \E g \in Approvals[p] : Apply(p, g)
    BY <2>5, ApplyKeeps
  <2>6. CASE \E p \in Ids, op \in Operations : StartRestore(p, op)
    BY <2>6, StartRestoreKeeps
  <2>7. CASE RestoreStep
    BY <2>7, RestoreStepKeeps
  <2>8. CASE SaveOutcome
    BY <2>8, SaveOutcomeKeeps
  <2>9. CASE RestoreStepFails \/ Crash
    BY <2>9, WorldKeeps
  <2>10. CASE LoseStore
    BY <2>10, LoseStoreKeeps
  <2>11. CASE UNCHANGED vars
    <3>1. UNCHANGED <<journal, undo, redo, made, store, late, lock, faults>>
      BY <2>11 DEF vars
    <3>2. /\ Good(journal, made, store) /\ late \in SUBSET Ids /\ faults \in 0 .. MaxFaults
          /\ lock = None \/ (lock \in Lock /\ Good(journal, made, lock.store))
      BY DEF IInv, StoresAreGood, TypesHold
    <3> QED
      BY <3>1, <3>2, StoreStepKeeps
  <2> QED
    BY <2>1, <2>2, <2>3, <2>4, <2>5, <2>6, <2>7, <2>8, <2>9, <2>10, <2>11 DEF Next
<1> QED
  BY InitIInv, <1>1, PTL DEF Spec

-----------------------------------------------------------------------------
\* What follows from it

\* The commits the properties speak of.
LEMMA CommitsAreOfTheJournal ==
  ASSUME NEW p
  PROVE  CommitsOf(p) = CommitsIn(journal, p)
BY DEF CommitsOf, CommitsIn

\* A set whose elements are all one has at most one.
LEMMA AtMostOne ==
  ASSUME NEW S, \A a, b \in S : a = b
  PROVE  Cardinality(S) <= 1
<1>1. CASE S = {}
  BY <1>1, FS_EmptySet
<1>2. CASE S # {}
  <2>1. PICK a \in S : TRUE
    BY <1>2
  <2>2. S = {a}
    BY <2>1
  <2> QED
    BY <2>2, FS_Singleton
<1> QED
  BY <1>1, <1>2

\* The commands of a proposal enter the project at most once.
THEOREM AppliedOnceEach == Spec => []AppliedAtMostOnce
<1>1. IInv => AppliedAtMostOnce
  <2> SUFFICES ASSUME IInv, NEW p \in Ids
               PROVE  Cardinality(CommitsOf(p)) <= 1
    BY DEF AppliedAtMostOnce
  <2>1. \A a, b \in CommitsOf(p) : a = b
    BY CommitsAreOfTheJournal DEF IInv, JournalSound, AppliedOnce
  <2> QED
    BY <2>1, AtMostOne
<1> QED
  BY Invariance, <1>1, PTL

\* What the store says of a proposal is what the journal has of it.
THEOREM VerdictsAgree == Spec => []VerdictsAgreeWithJournal
<1>1. IInv => VerdictsAgreeWithJournal
  <2> SUFFICES ASSUME IInv, NEW i \in DOMAIN store.proposals
               PROVE  LET x == store.proposals[i] IN
                      /\ x.status \in {"applied", "restored"}
                           => CommitsOf(x.id) # {} /\ x.group = GroupOf(x.id)
                      /\ x.status \in {"rejected", "stale", "expired"} => CommitsOf(x.id) = {}
    BY DEF VerdictsAgreeWithJournal
  <2>1. PICK x : x = store.proposals[i]
    OBVIOUS
  <2>2. Agrees(journal, x) /\ x \in Proposal /\ AppliedOnce(journal)
    <3>1. Good(journal, made, store) /\ AppliedOnce(journal)
      BY DEF IInv, StoresAreGood, JournalSound
    <3>2. store.proposals \in Seq(Proposal)
      BY <3>1 DEF Good, Store
    <3> QED
      BY <2>1, <3>1, <3>2 DEF Good
  <2>3. CommitsOf(x.id) = CommitsIn(journal, x.id)
    BY CommitsAreOfTheJournal
  <2>4. ASSUME x.status \in {"applied", "restored"}
        PROVE  CommitsOf(x.id) # {} /\ x.group = GroupOf(x.id)
    <3>1. PICK c \in CommitsIn(journal, x.id) : x.group = journal[c].group
      BY <2>2, <2>4 DEF Agrees
    <3>2. x.id \in Ids
      BY <2>2 DEF Proposal
    <3>3. \A d \in CommitsOf(x.id) : d = c
      BY <2>2, <2>3, <3>1, <3>2 DEF AppliedOnce
    <3>4. (CHOOSE d \in CommitsOf(x.id) : TRUE) = c
      BY <2>3, <3>1, <3>3
    <3> QED
      BY <2>3, <3>1, <3>4 DEF GroupOf
  <2>5. x.status \in {"rejected", "stale", "expired"} => CommitsOf(x.id) = {}
    BY <2>2, <2>3 DEF Agrees
  <2> QED
    BY <2>1, <2>4, <2>5
<1> QED
  BY Invariance, <1>1, PTL

\* The audit tells of every listed proposal how it came to its status, and of an application
\* only once.
THEOREM AuditTellsOnce == Spec => []AuditTellsVerdicts
<1>1. IInv => AuditTellsVerdicts
  <2> SUFFICES ASSUME IInv
               PROVE  AuditTellsVerdicts
    OBVIOUS
  <2>1. Good(journal, made, store)
    BY DEF IInv, StoresAreGood
  <2>2. \A i \in DOMAIN store.proposals : AuditTells(store.audit, store.proposals[i])
    BY <2>1 DEF Good
  <2>3. ASSUME NEW p \in Ids
        PROVE  Cardinality({n \in DOMAIN store.audit : store.audit[n] = <<p, "applied">>}) <= 1
    <3>1. \A a, b \in {n \in DOMAIN store.audit : store.audit[n] = <<p, "applied">>} : a = b
      BY <2>1 DEF Good, AuditSound
    <3> QED
      BY <3>1, AtMostOne
  <2> QED
    BY <2>2, <2>3 DEF AuditTellsVerdicts
<1> QED
  BY Invariance, <1>1, PTL

\* Undoing an applied group and all above it leads to the state the group was applied to.
THEOREM RestorePointsStay == Spec => []RestorePointsHold
<1>1. IInv => RestorePointsHold
  <2> SUFFICES ASSUME IInv, NEW i \in DOMAIN store.proposals, store.proposals[i].status = "applied",
                      NEW k \in DOMAIN undo, undo[k] = store.proposals[i].group,
                      NEW c \in CommitsOf(store.proposals[i].id)
               PROVE  Before(k) = StateAt(c - 1)
    BY DEF RestorePointsHold
  <2>1. PICK x : x = store.proposals[i]
    OBVIOUS
  <2>2. PICK present : present = StateIn(journal, Len(journal))
    OBVIOUS
  <2>3. /\ journal \in Seq(Line) /\ AppliedOnce(journal) /\ Good(journal, made, store)
        /\ undo \in Seq(Groups) /\ redo \in Seq(Groups)
    BY DEF IInv, JournalSound, StoresAreGood, TypesHold
  <2>4. /\ UndoIsItsEnd(undo, present) /\ CommitsHold(journal, Full(present, redo))
        /\ \A d \in DOMAIN journal : journal[d].proposal # None => IsCommit(journal[d])
    BY <2>2 DEF IInv, HistoryHolds
  <2>5. x \in Proposal /\ Agrees(journal, x)
    <3>1. store.proposals \in Seq(Proposal)
      BY <2>3 DEF Good, Store
    <3> QED
      BY <2>1, <2>3, <3>1 DEF Good
  <2>6. c \in DOMAIN journal /\ journal[c].proposal = x.id /\ journal[c].group = x.group
    <3>1. PICK d \in CommitsIn(journal, x.id) : x.group = journal[d].group
      BY <2>1, <2>5 DEF Agrees
    <3>2. x.id \in Ids /\ c \in CommitsIn(journal, x.id)
      BY <2>1, <2>5, CommitsAreOfTheJournal DEF Proposal
    <3>3. d = c
      BY <2>3, <3>1, <3>2 DEF AppliedOnce
    <3> QED
      BY <3>1, <3>2, <3>3 DEF CommitsIn
  <2>7. x.id # None
    BY <2>5, ProposalsAssumption DEF Proposal
  <2>8. IsCommit(journal[c])
    BY <2>4, <2>6, <2>7
  <2>9. Len(journal) \in Nat /\ c \in 1 .. Len(journal) /\ c - 1 \in 0 .. Len(journal)
    BY <2>3, <2>6
  <2>10. present \in Seq(Groups) /\ StateIn(journal, c - 1) \in Seq(Groups)
    <3>1. Len(journal) \in 0 .. Len(journal)
      BY <2>9
    <3> QED
      BY <2>2, <2>3, <2>9, <3>1, StatesAreTyped
  <2>11. PICK n : n = Len(present) - Len(undo) + k
    OBVIOUS
  <2>12. /\ Len(present) \in Nat /\ Len(undo) \in Nat /\ k \in 1 .. Len(undo)
         /\ Len(undo) <= Len(present) /\ undo[k] = present[n]
    BY <2>3, <2>4, <2>10, <2>11 DEF UndoIsItsEnd
  <2>13. n \in 1 .. Len(present) /\ Len(present) - Steps(k) = n - 1
    BY <2>11, <2>12 DEF Steps
  <2>14. PICK full : full = Full(present, redo)
    OBVIOUS
  <2>15. \A m \in 1 .. Len(present) : m \in DOMAIN full /\ full[m] = present[m]
    <3>1. Len(redo) \in Nat
      BY <2>3
    <3> QED
      BY <2>12, <2>14, <3>1 DEF Full
  <2>16. full[n] = journal[c].group /\ n \in DOMAIN full
    BY <2>1, <2>6, <2>12, <2>13, <2>15
  <2>17. PICK old : old = StateIn(journal, c - 1)
    OBVIOUS
  <2>18. Len(old) = n - 1 /\ \A m \in 1 .. n - 1 : old[m] = full[m]
    BY <2>4, <2>6, <2>8, <2>14, <2>16, <2>17 DEF CommitsHold
  <2>19. \A m \in 1 .. n - 1 : old[m] = present[m]
    BY <2>12, <2>13, <2>15, <2>18
  <2>20. PICK under : under = Before(k)
    OBVIOUS
  <2>21. under = SubSeq(present, 1, n - 1)
    BY <2>2, <2>13, <2>20, Zenon DEF Before, Present, StateAt, StateIn, Revision
  <2>22. /\ under \in Seq(Groups) /\ Len(under) = n - 1
         /\ \A m \in 1 .. n - 1 : under[m] = present[m]
    BY <2>10, <2>12, <2>13, <2>21
  <2>23. under = old
    BY <2>10, <2>13, <2>17, <2>18, <2>19, <2>22
  <2>24. StateIn(journal, c - 1) = StateAt(c - 1)
    BY DEF StateIn, StateAt
  <2> QED
    BY <2>17, <2>20, <2>23, <2>24
<1> QED
  BY Invariance, <1>1, PTL
=============================================================================
