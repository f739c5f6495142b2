------------------------- MODULE SearchIndexProofs -------------------------
(***************************************************************************)
(* Every commit finds in the search index what it changes, while           *)
(* transactions do not overlap and outside the test environment.           *)
(*                                                                         *)
(* Whatever a transaction has changed in the projection of a reference is  *)
(* indexed, or is visited from the references still to be projected        *)
(* (IndexOwed).  The two ends of a changed duplicate are: the new          *)
(* canonical is where sql_to_es goes on to, and the old one is projected   *)
(* by the manual endpoint alone, so a worker must never leave one          *)
(* (PlanLeaves).  It does not, because a duplicate of the system has a     *)
(* trusted identifier and what is found unsearchable has none (TrustInv).  *)
(***************************************************************************)
EXTENDS SerialProofs, WellFoundedInduction

-----------------------------------------------------------------------------
(* Commits find their documents indexed *)

\* Duplicates by the system's own decision have a trusted identifier.
TrustedDuplicates(T) ==
    \A d \in Decision :
        T[d].active /\ T[d].det = "DUPLICATE" /\ T[d].auth = "SYSTEM"
            => TrustedIds[T[d].ref] # {}

\* Outside the test environment the shortcut alone proposes duplicates, and
\* what it leaves UNSEARCHABLE has no trusted identifier.
PlanTrusted ==
    \A w \in Process :
        /\ Mapping(w) /\ plan[w].row.auth = "SYSTEM" /\ plan[w].row.det = "DUPLICATE"
              => TrustedIds[plan[w].row.ref] # {}
        /\ Mapping(w) /\ plan[w].row.det = "UNSEARCHABLE"
              => TrustedIds[plan[w].row.ref] = {}
        /\ \A c \in undecided[w] : TrustedIds[c] # {}

TrustInv ==
    /\ PlanTrusted
    /\ TrustedDuplicates(decisions)
    /\ \A w \in Process : TrustedDuplicates(View(w))

\* A worker moves no duplicate away from its canonical.
PlanLeaves ==
    \A w \in Worker : stage[w] = "write" /\ plan[w].row.active /\ old[w] # NoDecision =>
        View(w)[old[w]].canon \in {NoRef, plan[w].row.canon}

\* The references that sql_to_es visits from those touched.
Reached(w) == touched[w] \cup {ActiveCanon(View(w), t) : t \in touched[w]}

\* What the transaction changes in the projection of a reference is in the
\* index, or is reached from what is still to be projected.
IndexOwed ==
    \A w \in Process, r \in Reference :
        ExpectedDoc(View(w), r) # ExpectedDoc(decisions, r) =>
            \/ es[r] = ExpectedDoc(View(w), r)
            \/ r \in Reached(w) /\ stage[w] # "commit"

\* What a mapped proposal keeps: all but a determination it decouples.
LEMMA OutcomeKeeps ==
    ASSUME IInv, NEW w \in Process, MapDecision(w)
    PROVE  /\ plan'[w].row.ref = plan[w].row.ref
           /\ plan'[w].row.canon = plan[w].row.canon
           /\ plan'[w].row.auth = plan[w].row.auth
           /\ plan'[w].row.det \in {"DECOUPLED", plan[w].row.det}
           /\ plan'[w].row.active => ~Decouples(w) /\ plan'[w].row.det = plan[w].row.det
           /\ Mapping(w) /\ stage[w] = "map" /\ View(w)' = View(w)
           /\ old'[w] = ActiveDecision(View(w), plan[w].row.ref)
  <1>1. /\ stage[w] = "map"
        /\ plan'[w] = [id |-> plan[w].id, row |-> Outcome(w)]
        /\ old'[w] = ActiveDecision(View(w), plan[w].row.ref)
        /\ UNCHANGED <<decisions, writes>>
    BY Zenon DEF MapDecision, sqlVars, IInv, TypeOK
  <1>2. plan[w].row \in Row
    BY Zenon DEF IInv, TypeOK, Plan
  <1>3. plan'[w].row = Outcome(w)
    BY <1>1
  <1>4. /\ Outcome(w).ref = plan[w].row.ref /\ Outcome(w).canon = plan[w].row.canon
        /\ Outcome(w).auth = plan[w].row.auth
        /\ Outcome(w).det \in {"DECOUPLED", plan[w].row.det}
        /\ Outcome(w).active => ~Decouples(w) /\ Outcome(w).det = plan[w].row.det
    BY <1>2 DEF Outcome, Row
  <1> QED BY <1>1, <1>3, <1>4, Zenon DEF View, Mapping

\* Plans and collected matches go on to be trusted.
LEMMA PlanTrustedStep ==
    ASSUME ~TestEnv, IInv, IInv', RowsInv, TerminalInv, PlanTrusted, [Next]_vars
    PROVE  PlanTrusted'
  <1> USE DEF IInv, RowsInv
  <1>1. ASSUME NEW w \in Process, Mapping(w)'
        PROVE  /\ plan'[w].row.auth = "SYSTEM" /\ plan'[w].row.det = "DUPLICATE"
                     => TrustedIds[plan'[w].row.ref] # {}
               /\ plan'[w].row.det = "UNSEARCHABLE" => TrustedIds[plan'[w].row.ref] = {}
    <2>1. CASE plan'[w] = plan[w] /\ Mapping(w)
      BY <2>1, Zenon DEF PlanTrusted
    <2>2. CASE MapDecision(w)
      <3>1. /\ plan'[w].row.ref = plan[w].row.ref
            /\ plan'[w].row.auth = plan[w].row.auth
            /\ plan'[w].row.det \in {"DECOUPLED", plan[w].row.det}
            /\ Mapping(w)
        BY <2>2, OutcomeKeeps, Zenon
      <3>2. /\ plan[w].row.auth = "SYSTEM" /\ plan[w].row.det = "DUPLICATE"
                  => TrustedIds[plan[w].row.ref] # {}
            /\ plan[w].row.det = "UNSEARCHABLE" => TrustedIds[plan[w].row.ref] = {}
        BY <3>1, Zenon DEF PlanTrusted
      <3> QED BY <3>1, <3>2
    <2>3. CASE w \in Worker /\ (Shortcut(w) \/ CandidateSearch(w))
      <3>1. PICK det, canon :
              /\ plan'[w] = Proposal(w, det, canon)
              /\ det = "UNSEARCHABLE" => TrustedIds[Subject(w)] = {}
              /\ det = "DUPLICATE" => TestEnv \/ TrustedIds[Subject(w)] # {}
        BY <2>3, OwnProposal DEF TerminalInv
      <3>2. plan'[w].row.ref = Subject(w) /\ plan'[w].row.det = det
        BY <3>1 DEF Proposal
      <3> QED BY <3>1, <3>2, Zenon
    <2>4. CASE MapProxied(w)
      <3>1. PICK c \in undecided[w] :
              plan' = [plan EXCEPT ![w] =
                        [id |-> FreshId,
                         row |-> [ref |-> c, det |-> "DUPLICATE",
                                  canon |-> TreeCanonical(w),
                                  auth |-> "SYSTEM", active |-> FALSE]]]
        BY <2>4, Zenon DEF MapProxied
      <3>2. plan'[w].row.ref = c /\ plan'[w].row.det = "DUPLICATE"
        BY <3>1, SMT DEF TypeOK
      <3>3. TrustedIds[c] # {}
        BY Zenon DEF PlanTrusted
      <3> QED BY <3>2, <3>3
    <2>5. CASE Manual(w)
      <3>1. PICK r \in imported, canon \in imported \cup {NoRef},
                 det \in {"CANONICAL", "DUPLICATE"} : ManualDecision(w, r, det, canon)
        BY <2>5, Zenon DEF Manual
      <3>2. plan' = [plan EXCEPT ![w] =
                   [id |-> FreshId,
                    row |-> [ref |-> r, det |-> det, canon |-> canon,
                             auth |-> "PERSON", active |-> FALSE]]]
        BY <3>1, Zenon DEF ManualDecision
      <3>3. plan'[w].row.auth = "PERSON" /\ plan'[w].row.det = det
        BY <3>2, SMT DEF TypeOK
      <3> QED BY <3>3
    <2> QED BY <1>1, <2>1, <2>2, <2>3, <2>4, <2>5, PlanOrigin, Zenon
  <1>2. ASSUME NEW w \in Process, NEW c \in undecided'[w] PROVE TrustedIds[c] # {}
    <2>1. CASE c \in undecided[w]
      BY <2>1, Zenon DEF PlanTrusted
    <2>2. CASE c \in MatchesOf(Subject(w), TrustedIds)
      <3>1. TrustedIds[c] \cap TrustedIds[Subject(w)] # {}
        BY <2>2, Zenon DEF MatchesOf
      <3> QED BY <3>1
    <2> QED BY <2>1, <2>2, UndecidedMoves, Zenon
  <1> QED BY <1>1, <1>2, Zenon DEF PlanTrusted

\* Every step keeps the system's duplicates trusted, where processes take turns.
LEMMA TrustStep ==
    ASSUME ~TestEnv, IInv, IInv', RowsInv, RowsInv', TaskPending, TerminalInv, PlanRead,
           TrustInv, OneBusy, [Next]_vars
    PROVE  TrustInv'
  <1> USE DEF RowsInv, TrustInv
  <1>1. ASSUME NEW T, NEW U, SameActive(T, U), TrustedDuplicates(T)
        PROVE  TrustedDuplicates(U)
    BY <1>1, Zenon DEF SameActive, TrustedDuplicates
  <1>2. TrustedDuplicates(decisions')
    BY <1>1, Tables, Zenon
  <1>3. ASSUME NEW w \in Process, WriteDecision(w) PROVE TrustedDuplicates(View(w)')
    <2>1. Mapping(w)
      BY <1>3 DEF WriteDecision, Mapping
    <2>2. CASE ~plan[w].row.active
      BY <1>1, <1>3, <2>2, WriteReads, Zenon
    <2>3. CASE plan[w].row.active
      <3>1. /\ View(w)'[plan[w].id] = plan[w].row
            /\ \A d \in Decision : View(w)'[d].active =>
                  d = plan[w].id \/ View(w)'[d] = View(w)[d]
        BY <1>3, <2>3, WriteReads, Zenon
      <3>2. plan[w].row.det = "DUPLICATE" /\ plan[w].row.auth = "SYSTEM"
               => TrustedIds[plan[w].row.ref] # {}
        BY <2>1, Zenon DEF PlanTrusted
      <3> QED BY <3>1, <3>2, Zenon DEF TrustedDuplicates
    <2> QED BY <2>2, <2>3, Zenon
  <1>4. ASSUME NEW v \in Process PROVE TrustedDuplicates(View(v)')
    <2>1. CASE SameActive(View(v), View(v)')
      BY <1>1, <2>1, Zenon
    <2>2. CASE View(v)' = decisions'
      BY <1>2, <2>2, Zenon
    <2> QED BY <1>3, <2>1, <2>2, Tables, Zenon
  <1> QED BY <1>2, <1>4, PlanTrustedStep, Zenon

\* A worker that maps a proposal leaves no canonical.
LEMMA LeavesStep ==
    ASSUME IInv, IInv', AuthInv', RowsInv, TerminalInv, PlanRead, TrustInv, PlanLeaves,
           OneBusy, [Next]_vars
    PROVE  PlanLeaves'
  <1> USE DEF IInv, RowsInv
  <1> SUFFICES ASSUME NEW w \in Worker, stage'[w] = "write", plan'[w].row.active,
                      old'[w] # NoDecision
               PROVE  View(w)'[old'[w]].canon \in {NoRef, plan'[w].row.canon}
    BY Zenon DEF PlanLeaves
  <1>0. w \in Process /\ w \notin Handler /\ View(w) \in [Decision -> Row]
    BY ConstantsAssumption, ViewType, Zenon DEF Process, TypeOK
  <1>1. CASE /\ stage'[w] = stage[w] /\ plan'[w] = plan[w] /\ old'[w] = old[w]
             /\ ~WriteDecision(w) /\ ~Release(w)
    <2>1. stage[w] # "idle" /\ stage[w] = "write"
      BY <1>1
    <2>2. SameActive(View(w), View(w)')
      BY <1>0, <1>1, <2>1, ViewKept, Zenon
    <2>3. old[w] = ActiveDecision(View(w), plan[w].row.ref)
      BY <1>0, <1>1, <2>1, Zenon DEF PlanRead
    <2>4. old[w] \in Decision /\ View(w)[old[w]].active
      BY <1>0, <1>1, <2>3, ActiveTypes
    <2>5. View(w)'[old[w]] = View(w)[old[w]]
      BY <2>2, <2>4, Zenon DEF SameActive
    <2> QED BY <1>1, <2>1, <2>5, Zenon DEF PlanLeaves
  <1>2. CASE MapDecision(w)
    <2> DEFINE p == plan[w].row
               a == ActiveDecision(View(w), p.ref)
    <2>1. /\ p.det = plan'[w].row.det /\ p.canon = plan'[w].row.canon
          /\ ~Decouples(w) /\ stage[w] = "map" /\ View(w)' = View(w) /\ old'[w] = a
          /\ Mapping(w)
      BY <1>0, <1>2, OutcomeKeeps, Zenon
    <2>2. a \in Decision /\ View(w)[a].active /\ View(w)[a].ref = p.ref
      BY <1>0, <2>1, ActiveTypes
    <2>3. View(w)[a].auth = "SYSTEM"
      BY <2>1, Zenon DEF AuthInv, OldSystem
    <2>4. ASSUME View(w)[a].canon # NoRef, View(w)[a].canon # p.canon PROVE FALSE
      <3>1. AllTerminal(View(w))
        BY <1>0, Zenon DEF TerminalInv, AllTerminal, View
      <3>2. View(w)[a].det = "DUPLICATE"
        BY <2>2, <2>4, <3>1, Zenon DEF AllTerminal, Terminal
      <3>3. /\ ActiveDet(View(w), p.ref) = "DUPLICATE"
            /\ ActiveCanon(View(w), p.ref) = View(w)[a].canon
        <4>1. AtMostOne(View(w))
          BY <1>0, Zenon DEF ViewsHaveOne
        <4> QED BY <1>0, <2>2, <3>2, <4>1, ActiveReads, Zenon
      <3>4. p.det \notin {"CANONICAL", "DUPLICATE"}
        BY <1>0, <2>1, <2>4, <3>3 DEF Decouples, LeavesCanonical, AllowDestructive
      <3>5. Terminal(p)
        BY <1>0, <2>1, Zenon DEF TerminalInv, PlanTerminal
      <3>6. TrustedIds[p.ref] = {}
        <4>1. p.det = "UNSEARCHABLE"
          BY <3>4, <3>5 DEF Terminal
        <4> QED BY <1>0, <2>1, <4>1, Zenon DEF TrustInv, PlanTrusted
      <3>7. TrustedIds[p.ref] # {}
        BY <1>0, <2>2, <2>3, <3>2, Zenon DEF TrustInv, TrustedDuplicates
      <3> QED BY <3>6, <3>7, Zenon
    <2> QED BY <2>1, <2>4
  <1>3. CASE Shortcut(w) \/ CandidateSearch(w)
    <2>1. PICK det, canon : plan'[w] = Proposal(w, det, canon)
      BY <1>3, OwnProposal DEF TerminalInv
    <2> QED BY <2>1 DEF Proposal
  <1>4. CASE MapProxied(w) \/ Manual(w)
    <2>1. stage'[w] = "map"
      BY <1>0, <1>4, Zenon DEF MapProxied, Manual, ManualDecision, TypeOK
    <2> QED BY <2>1
  <1>5. Mapping(w)'
    BY Zenon DEF Mapping
  <1> QED BY <1>0, <1>1, <1>2, <1>3, <1>4, <1>5, PlanOrigin, Zenon

\* A set of numbers has a least one.
LEMMA Least ==
    ASSUME NEW S \in SUBSET Nat, S # {}
    PROVE  \E n \in S : \A m \in S : n <= m
  <1> DEFINE R == OpToRel(<, Nat)
  <1>1. IsWellFoundedOn(R, Nat)
    BY NatLessThanWellFounded, Zenon DEF R
  <1>2. PICK n \in S : \A m \in S : ~(<<m, n>> \in R)
    BY <1>1, WFMin, Zenon
  <1>3. \A m \in S : ~(m < n)
    BY <1>2 DEF OpToRel
  <1> QED BY <1>3

\* Where the canonical sql_to_es goes on to from x.
Hop(T, x) == IF ActiveDet(T, x) = "DUPLICATE" THEN ActiveCanon(T, x) ELSE x

\* In a star sql_to_es goes from a reference to its canonical and stays there.
LEMMA VisitStar ==
    ASSUME IsFiniteSet(Reference), NEW T, NEW t \in Reference, Hop(T, t) \in Reference,
           Hop(T, Hop(T, t)) = Hop(T, t)
    PROVE  /\ Cardinality(Reference) \in Nat /\ Cardinality(Reference) > 0
           /\ \A n \in 0..Cardinality(Reference) :
                 Visit(T, t)[n] = IF n = 0 THEN t ELSE Hop(T, t)
  <1> DEFINE N == Cardinality(Reference)
             next == [x \in Reference |-> Hop(T, x)]
             Eq(f) == f = [n \in 0..N |-> IF n = 0 THEN t ELSE next[f[n - 1]]]
             g == [n \in 0..N |-> IF n = 0 THEN t ELSE Hop(T, t)]
  <1>1. N \in Nat /\ N > 0
    <2>1. N \in Nat /\ N # 0
      BY FS_CardinalityType, FS_EmptySet
    <2> QED BY <2>1
  <1>2. next[t] = Hop(T, t) /\ next[Hop(T, t)] = Hop(T, t)
    BY Zenon
  <1> HIDE DEF N, next
  <1>3. Eq(g)
    <2>1. ASSUME NEW n \in 0..N, n # 0
          PROVE  next[g[n - 1]] = Hop(T, t)
      <3>1. n - 1 \in 0..N
        BY <1>1, <2>1
      <3>2. g[n - 1] = t \/ g[n - 1] = Hop(T, t)
        BY <3>1
      <3> QED BY <1>2, <3>2, Zenon
    <2> QED BY <2>1, Zenon
  <1>4. Visit(T, t) = CHOOSE f : Eq(f)
    BY DEF Visit, N, next, Hop
  <1>5. Eq(Visit(T, t))
    <2> HIDE DEF Eq, g
    <2> QED BY <1>3, <1>4, Zenon
  <1> DEFINE h == Visit(T, t)
  <1> HIDE DEF h
  <1>6. /\ h[0] = t
        /\ \A n \in 0..N : n # 0 => h[n] = next[h[n - 1]]
    BY <1>1, <1>5 DEF h
  <1>7. ASSUME NEW m \in 0..N, m # 0, h[m] # Hop(T, t) PROVE FALSE
    <2> DEFINE S == {n \in Nat : n <= N /\ n # 0 /\ h[n] # Hop(T, t)}
    <2>1. m \in S
      BY <1>1, <1>7
    <2>2. PICK n \in S : \A k \in S : n <= k
      <3> HIDE DEF S
      <3>1. S \in SUBSET Nat
        BY DEF S
      <3> QED BY <2>1, <3>1, Least, Zenon
    <2>3. n \in Nat /\ n <= N /\ n # 0 /\ h[n] # Hop(T, t)
      OBVIOUS
    <2>4. n - 1 \in Nat /\ n - 1 < n /\ n \in 0..N
      BY <1>1, <2>3
    <2>5. h[n] = next[h[n - 1]]
      BY <1>6, <2>3, <2>4, Zenon
    <2>6. CASE n - 1 = 0
      BY <1>2, <1>6, <2>3, <2>5, <2>6, Zenon
    <2>7. CASE n - 1 # 0
      <3>1. n - 1 \notin S
        BY <2>2, <2>4
      <3>2. h[n - 1] = Hop(T, t)
        BY <1>1, <2>3, <2>4, <2>7, <3>1
      <3> QED BY <1>2, <2>3, <2>5, <3>2, Zenon
    <2> QED BY <2>6, <2>7, Zenon
  <1>8. \A n \in 0..N : h[n] = IF n = 0 THEN t ELSE Hop(T, t)
    BY <1>6, <1>7, Zenon
  <1> QED BY <1>1, <1>8, Zenon DEF h, N

\* A table as the star theorem has it.
StarTable(T) == T \in [Decision -> Row] /\ AtMostOne(T) /\ AllTerminal(T) /\ Star(T)

\* In a star a reference that is the canonical of another is decided, and is no
\* duplicate itself.
LEMMA CanonOfStar ==
    ASSUME NEW T, StarTable(T), NEW t, ActiveCanon(T, t) \in Reference
    PROVE  /\ ActiveDet(T, t) = "DUPLICATE"
           /\ ActiveDet(T, ActiveCanon(T, t)) \in {"CANONICAL", "UNSEARCHABLE"}
  <1> USE DEF StarTable
  <1>1. ActiveCanon(T, t) # NoRef
    BY ConstantsAssumption
  <1>2. PICK d \in Decision : /\ T[d].active /\ ActiveDet(T, t) = T[d].det
                              /\ ActiveCanon(T, t) = T[d].canon
    BY <1>1, ActiveRow
  <1>3. T[d].det = "DUPLICATE"
    BY <1>1, <1>2, Zenon DEF AllTerminal, Terminal
  <1>4. PICK e \in Decision : /\ T[e].active /\ T[e].ref = T[d].canon
                              /\ T[e].det \in {"CANONICAL", "UNSEARCHABLE"}
    BY <1>2, <1>3, Zenon DEF Star
  <1>5. ActiveDet(T, T[e].ref) = T[e].det
    BY <1>4, ActiveReads, Zenon
  <1> QED BY <1>2, <1>3, <1>4, <1>5, Zenon

\* What sql_to_es visits in a star.
LEMMA HopInStar ==
    ASSUME IInv, NEW T, StarTable(T), NEW t \in Reference
    PROVE  /\ Hop(T, t) \in Reference
           /\ Hop(T, Hop(T, t)) = Hop(T, t)
           /\ ActiveDet(T, t) = "DUPLICATE" => Hop(T, t) = ActiveCanon(T, t)
           /\ ActiveDet(T, t) # "DUPLICATE" => Hop(T, t) = t
           /\ ActiveDet(T, Hop(T, t)) # "DUPLICATE"
  <1>1. CASE ActiveDet(T, t) # "DUPLICATE"
    BY <1>1, Zenon DEF Hop
  <1>2. CASE ActiveDet(T, t) = "DUPLICATE"
    <2>1. Hop(T, t) = ActiveCanon(T, t) /\ ActiveCanon(T, t) \in Reference
      BY <1>2, DuplicateHasCanon, Zenon DEF Hop, StarTable
    <2>2. ActiveDet(T, ActiveCanon(T, t)) \in {"CANONICAL", "UNSEARCHABLE"}
      BY <2>1, CanonOfStar, Zenon
    <2>3. ActiveDet(T, Hop(T, t)) # "DUPLICATE"
      BY <2>1, <2>2
    <2> QED BY <1>2, <2>1, <2>3, Zenon DEF Hop
  <1> QED BY <1>1, <1>2, Zenon

\* In a star sql_to_es writes the expected document of what it visits: the
\* references it is called on and their canonicals.
LEMMA ProjectionInStar ==
    ASSUME IsFiniteSet(Reference), IInv, NEW T, StarTable(T), NEW R \in SUBSET Reference,
           NEW x \in Reference
    PROVE  /\ Projection(T, R, x) \in {ExpectedDoc(T, x), es[x]}
           /\ x \in R \/ (\E t \in R : ActiveCanon(T, t) = x)
                 => Projection(T, R, x) = ExpectedDoc(T, x)
  <1> DEFINE N == Cardinality(Reference)
             doc == [det |-> ActiveDet(T, x), merged |-> DuplicatesOf(T, x)]
             Ends == \E r \in R : x = Visit(T, r)[N] /\ ActiveDet(T, x) # "DUPLICATE"
             Passes == \E r \in R, n \in 0..N :
                          x = Visit(T, r)[n] /\ ActiveDet(T, x) = "DUPLICATE"
  <1>1. Projection(T, R, x) = IF Ends THEN doc ELSE IF Passes THEN NoDoc ELSE es[x]
    BY Zenon DEF Projection
  <1>2. N \in Nat /\ N > 0
    BY VisitStar, HopInStar, Zenon
  <1>3. ASSUME NEW t \in R
        PROVE  /\ Visit(T, t)[0] = t
               /\ Visit(T, t)[N] = Hop(T, t)
    <2>1. \A n \in 0..N : Visit(T, t)[n] = IF n = 0 THEN t ELSE Hop(T, t)
      BY <1>3, VisitStar, HopInStar, Zenon
    <2>2. 0 \in 0..N /\ N \in 0..N /\ N # 0
      BY <1>2
    <2> QED BY <2>1, <2>2, Zenon
  <1>4. ASSUME ActiveDet(T, x) # "DUPLICATE" PROVE doc = ExpectedDoc(T, x)
    <2>1. CASE ActiveDet(T, x) # "ABSENT"
      BY <1>4, <2>1 DEF ExpectedDoc
    <2>2. CASE ActiveDet(T, x) = "ABSENT"
      <3>1. DuplicatesOf(T, x) = {}
        <4>1. ASSUME NEW y \in DuplicatesOf(T, x) PROVE FALSE
          <5>1. ActiveCanon(T, y) = x
            BY <4>1 DEF DuplicatesOf
          <5>2. ActiveDet(T, x) \in {"CANONICAL", "UNSEARCHABLE"}
            BY <5>1, CanonOfStar, Zenon
          <5> QED BY <2>2, <5>2
        <4> QED BY <4>1
      <3> QED BY <2>2, <3>1 DEF ExpectedDoc, NoDoc
    <2> QED BY <2>1, <2>2, Zenon
  <1>5. ActiveDet(T, x) = "DUPLICATE" => NoDoc = ExpectedDoc(T, x)
    BY DEF ExpectedDoc
  <1>6. Projection(T, R, x) \in {ExpectedDoc(T, x), es[x]}
    <2> HIDE DEF doc, Ends, Passes
    <2>1. Ends => ActiveDet(T, x) # "DUPLICATE"
      BY Zenon DEF Ends
    <2>2. Passes => ActiveDet(T, x) = "DUPLICATE"
      BY Zenon DEF Passes
    <2> QED BY <1>1, <1>4, <1>5, <2>1, <2>2
  <1>7. ASSUME x \in R \/ (\E t \in R : ActiveCanon(T, t) = x) PROVE Ends \/ Passes
    <2>1. CASE x \in R /\ ActiveDet(T, x) = "DUPLICATE"
      <3>1. 0 \in 0..N
        BY <1>2
      <3> QED BY <1>3, <2>1, <3>1, Zenon
    <2>2. CASE x \in R /\ ActiveDet(T, x) # "DUPLICATE"
      BY <1>3, <2>2, HopInStar, Zenon
    <2>3. ASSUME NEW t \in R, ActiveCanon(T, t) = x PROVE Ends
      <3>1. ActiveDet(T, t) = "DUPLICATE"
        BY <2>3, CanonOfStar, Zenon
      <3>2. Hop(T, t) = x /\ ActiveDet(T, x) # "DUPLICATE"
        BY <2>3, <3>1, HopInStar, Zenon
      <3> QED BY <1>3, <3>2, Zenon
    <2> QED BY <1>7, <2>1, <2>2, <2>3, Zenon
  <1>8. ASSUME x \in R \/ (\E t \in R : ActiveCanon(T, t) = x)
        PROVE  Projection(T, R, x) = ExpectedDoc(T, x)
    <2> HIDE DEF doc
    <2>1. CASE Ends
      BY <1>1, <1>4, <2>1, Zenon
    <2>2. CASE ~Ends /\ Passes
      BY <1>1, <1>5, <2>2, Zenon
    <2> QED BY <1>7, <1>8, <2>1, <2>2, Zenon
  <1> QED BY <1>6, <1>8, Zenon

\* Steps that neither write, project nor commit leave rows and index alone.
LEMMA ActsKeepIndex ==
    ASSUME TypeOK, NEW w \in Process, Act(w), ~WriteDecision(w), ~Project(w), ~Commit(w)
    PROVE  UNCHANGED <<decisions, writes, touched, es>> /\ stage'[w] # "commit"
  <1>1. UNCHANGED <<decisions, writes>>
    BY ActsKeepRows, Zenon
  <1>2. UNCHANGED <<touched, es>>
    BY Zenon DEF Act, Deliver, Shortcut, CandidateSearch, GuardUndecided, MapProxied,
         AllMapped, MapDecision, Manual, ManualDecision, txnVars
  <1>3. stage'[w] \in {"loaded", "map", "write", "side", "project"}
    BY Zenon DEF Act, Deliver, Shortcut, CandidateSearch, GuardUndecided, MapProxied,
         AllMapped, MapDecision, Manual, ManualDecision, TypeOK
  <1> QED BY <1>1, <1>2, <1>3

\* What a written decision changes in the projections is reached from what the
\* transaction has touched.
LEMMA WriteOwes ==
    ASSUME IInv, IInv', RowsInv, TaskPending, TerminalInv, StarInv, PlanLeaves,
           NEW w \in Process, WriteDecision(w), NEW x \in Reference
    PROVE  /\ ExpectedDoc(View(w)', x) # ExpectedDoc(View(w), x) => x \in Reached(w)'
           /\ x \in Reached(w) => x \in Reached(w)'
  <1> USE DEF IInv, RowsInv
  <1> DEFINE p == plan[w].row
             T == View(w)
             U == View(w)'
  <1>0. /\ T \in [Decision -> Row] /\ AtMostOne(T)
        /\ U \in [Decision -> Row] /\ AtMostOne(U)
    BY ViewType, Zenon DEF TypeOK, View, ViewsHaveOne
  <1>1. StarTable(T)
    <2>1. AllTerminal(T)
      BY Zenon DEF TerminalInv, AllTerminal, View
    <2> QED BY <1>0, <2>1, Zenon DEF StarTable, StarInv
  <1>2. /\ stage[w] = "write" /\ Mapping(w)
        /\ touched'[w] = touched[w] \cup AbandonedCanonical(w)
                            \cup IF p.active THEN {p.ref} ELSE {}
        /\ touched[w] \subseteq Reference
    BY Zenon DEF WriteDecision, Mapping, TypeOK
  <1>3. Reached(w)' = touched'[w] \cup {ActiveCanon(U, t) : t \in touched'[w]}
    BY Zenon DEF Reached
  <1> HIDE DEF U
  <1>4. CASE ~p.active
    <2>1. SameActive(T, U)
      BY <1>4, WriteReads, Zenon DEF StarInv, U
    <2>2. /\ ExpectedDoc(U, x) = ExpectedDoc(T, x)
          /\ \A t : ActiveCanon(U, t) = ActiveCanon(T, t)
      BY <1>0, <2>1, SameReads, Zenon
    <2>3. x \in Reached(w) => x \in Reached(w)'
      BY <1>2, <1>3, <2>2 DEF Reached
    <2> QED BY <2>2, <2>3, Zenon DEF U
  <1>5. CASE p.active
    <2>1. /\ U[plan[w].id] = p
          /\ \A d \in Decision : U[d].active =>
                d = plan[w].id \/ U[d] = T[d]
          /\ \A d \in Decision : T[d].active /\ T[d].ref # p.ref => U[d] = T[d]
      BY <1>5, WriteReads, Zenon DEF StarInv, U
    <2>2. plan[w].id \in Decision /\ ~T[plan[w].id].active
      BY <1>2, PlanInactive, Zenon
    <2>3. p.ref \in touched'[w]
      BY <1>2, <1>5
    <2>4. ASSUME NEW y, y # p.ref
          PROVE  ActiveDet(U, y) = ActiveDet(T, y) /\ ActiveCanon(U, y) = ActiveCanon(T, y)
      <3>1. CASE /\ ActiveDet(T, y) = "ABSENT" /\ ActiveCanon(T, y) = NoRef
                 /\ \A d \in Decision : ~(T[d].active /\ T[d].ref = y)
        <4>1. \A d \in Decision : ~(U[d].active /\ U[d].ref = y)
          BY <2>1, <2>4, <3>1, Zenon
        <4>2. ActiveDet(U, y) = "ABSENT" /\ ActiveCanon(U, y) = NoRef
          BY <1>0, <4>1, ActiveRow
        <4> QED BY <3>1, <4>2, Zenon
      <3>2. ASSUME NEW d \in Decision, T[d].active, T[d].ref = y,
                   ActiveDet(T, y) = T[d].det, ActiveCanon(T, y) = T[d].canon
            PROVE  ActiveDet(U, y) = ActiveDet(T, y) /\ ActiveCanon(U, y) = ActiveCanon(T, y)
        <4>1. U[d] = T[d]
          BY <2>1, <2>4, <3>2, Zenon
        <4>2. ActiveDet(U, U[d].ref) = U[d].det /\ ActiveCanon(U, U[d].ref) = U[d].canon
          BY <1>0, <3>2, <4>1, ActiveReads, Zenon
        <4> QED BY <3>2, <4>1, <4>2, Zenon
      <3>3. \/ /\ ActiveDet(T, y) = "ABSENT" /\ ActiveCanon(T, y) = NoRef
               /\ \A d \in Decision : ~(T[d].active /\ T[d].ref = y)
            \/ \E d \in Decision : /\ T[d].active /\ T[d].ref = y
                                   /\ ActiveDet(T, y) = T[d].det
                                   /\ ActiveCanon(T, y) = T[d].canon
        BY <1>0, ActiveRow
      <3> QED BY <3>1, <3>2, <3>3, Zenon
    <2>5. ActiveCanon(U, p.ref) = p.canon
      <3>1. ActiveCanon(U, U[plan[w].id].ref) = U[plan[w].id].canon
        BY <1>0, <1>5, <2>1, <2>2, ActiveReads, Zenon
      <3> QED BY <2>1, <3>1, Zenon
    <2>6. ASSUME NEW c \in Reference, ActiveCanon(T, p.ref) = c, p.canon # c
          PROVE  c \in touched'[w]
      <3>1. ActiveDet(T, c) # "ABSENT" /\ c # NoRef
        <4>1. ActiveDet(T, c) \in {"CANONICAL", "UNSEARCHABLE"}
          BY <1>1, <2>6, CanonOfStar, Zenon
        <4> QED BY <4>1, ConstantsAssumption
      <3>2. PICK d \in Decision : /\ T[d].active /\ ActiveDecision(T, p.ref) = d
                                  /\ ActiveCanon(T, p.ref) = T[d].canon
        BY <1>0, <2>6, <3>1, ActiveRow
      <3>3. old[w] = d /\ d # plan[w].id /\ d # NoDecision /\ T[old[w]].canon = c
        BY <1>2, <1>5, <2>2, <2>6, <3>2, ConstantsAssumption, Zenon DEF StarInv, PlanRead
      <3>4. Deactivated(w) # {}
        BY <1>5, <3>3 DEF Deactivated
      <3>5. w \notin Worker
        BY <1>2, <1>5, <2>6, <3>1, <3>3 DEF PlanLeaves
      <3>6. c \in AbandonedCanonical(w)
        BY <2>6, <3>1, <3>3, <3>4, <3>5, Zenon DEF AbandonedCanonical, Process
      <3> QED BY <1>2, <3>6
    <2>7. ASSUME ActiveCanon(T, p.ref) = x \/ ActiveCanon(U, p.ref) = x
          PROVE  x \in Reached(w)'
      <3>1. CASE ActiveCanon(U, p.ref) = x
        BY <1>3, <2>3, <3>1, Zenon
      <3>2. CASE ActiveCanon(T, p.ref) = x /\ p.canon # x
        BY <1>3, <2>6, <3>2, Zenon
      <3> QED BY <2>5, <2>7, <3>1, <3>2, Zenon
    <2>8. ASSUME ExpectedDoc(U, x) # ExpectedDoc(T, x) PROVE x \in Reached(w)'
      <3>1. CASE x = p.ref
        BY <1>3, <2>3, <3>1, Zenon
      <3>2. CASE x # p.ref
        <4>1. ActiveDet(U, x) = ActiveDet(T, x)
          BY <2>4, <3>2, Zenon
        <4>2. DuplicatesOf(U, x) # DuplicatesOf(T, x)
          BY <2>8, <4>1, Zenon DEF ExpectedDoc
        <4>3. PICK y \in Reference : ActiveCanon(U, y) # ActiveCanon(T, y)
                                       /\ (ActiveCanon(U, y) = x \/ ActiveCanon(T, y) = x)
          BY <4>2 DEF DuplicatesOf
        <4>4. y = p.ref
          BY <2>4, <4>3, Zenon
        <4> QED BY <2>7, <4>3, <4>4, Zenon
      <3> QED BY <3>1, <3>2, Zenon
    <2>9. ASSUME x \in Reached(w) PROVE x \in Reached(w)'
      <3>1. CASE x \in touched[w]
        BY <1>2, <1>3, <3>1
      <3>2. ASSUME NEW t \in touched[w], ActiveCanon(T, t) = x PROVE x \in Reached(w)'
        <4>1. t \in touched'[w]
          BY <1>2, <3>2
        <4>2. CASE t = p.ref
          BY <2>7, <3>2, <4>2, Zenon
        <4>3. CASE t # p.ref
          <5>1. ActiveCanon(U, t) = x
            BY <2>4, <3>2, <4>3, Zenon
          <5> QED BY <1>3, <4>1, <5>1, Zenon
        <4> QED BY <4>2, <4>3, Zenon
      <3> QED BY <2>9, <3>1, <3>2, Zenon DEF Reached
    <2> QED BY <2>8, <2>9, Zenon DEF U
  <1> QED BY <1>4, <1>5, Zenon

\* What a transaction owes the index is paid or still reached, step by step.
LEMMA OwedStep ==
    ASSUME IsFiniteSet(Reference), IInv, IInv', RowsInv, RowsInv', TaskPending, TerminalInv,
           StarInv, PlanLeaves, IndexOwed, OneBusy, [Next]_vars
    PROVE  IndexOwed'
  <1> USE DEF IInv, RowsInv
  <1> SUFFICES ASSUME NEW v \in Process, NEW r \in Reference,
                      ExpectedDoc(View(v)', r) # ExpectedDoc(decisions', r)
               PROVE  \/ es'[r] = ExpectedDoc(View(v)', r)
                      \/ r \in Reached(v)' /\ stage'[v] # "commit"
    BY Zenon DEF IndexOwed
  <1>0. /\ decisions \in [Decision -> Row] /\ decisions' \in [Decision -> Row]
        /\ View(v) \in [Decision -> Row] /\ View(v)' \in [Decision -> Row]
    BY ViewType, Zenon DEF TypeOK, View
  <1>1. stage'[v] # "idle"
    <2>1. ASSUME stage'[v] = "idle" PROVE FALSE
      <3>1. \A d \in Decision : writes'[v][d].det = "ABSENT"
        BY <2>1, Zenon DEF Quiet
      <3>2. View(v)' = [d \in Decision |-> decisions'[d]]
        BY <3>1, Zenon DEF View
      <3>3. decisions' = [d \in Decision |-> decisions'[d]]
        BY DEF TypeOK
      <3> QED BY <3>2, <3>3, Zenon
    <2> QED BY <2>1, Zenon
  <1> DEFINE Owed == \/ es[r] = ExpectedDoc(View(v), r)
                     \/ r \in Reached(v) /\ stage[v] # "commit"
             Goal == \/ es'[r] = ExpectedDoc(View(v)', r)
                     \/ r \in Reached(v)' /\ stage'[v] # "commit"
  <1>2. ExpectedDoc(View(v), r) # ExpectedDoc(decisions, r) => Owed
    BY Zenon DEF IndexOwed
  <1>3. ASSUME SameActive(decisions, decisions'), SameActive(View(v), View(v)'),
               touched'[v] = touched[v], es' = es,
               stage'[v] = stage[v] \/ stage'[v] # "commit"
        PROVE  Goal
    <2>1. /\ ExpectedDoc(decisions', r) = ExpectedDoc(decisions, r)
          /\ ExpectedDoc(View(v)', r) = ExpectedDoc(View(v), r)
          /\ \A t : ActiveCanon(View(v)', t) = ActiveCanon(View(v), t)
      BY <1>0, <1>3, SameReads
    <2>2. Reached(v)' = touched'[v] \cup {ActiveCanon(View(v)', t) : t \in touched'[v]}
      BY Zenon DEF Reached
    <2>3. r \in Reached(v) => r \in Reached(v)'
      BY <1>3, <2>1, <2>2, Zenon DEF Reached
    <2>4. Owed
      BY <1>2, <2>1, Zenon
    <2> QED BY <1>3, <2>1, <2>3, <2>4, Zenon
  <1>4. ASSUME UNCHANGED <<decisions, writes>>
        PROVE  SameActive(decisions, decisions') /\ SameActive(View(v), View(v)')
    BY <1>4, Zenon DEF SameActive, View
  <1>5. CASE Still
    <2>1. UNCHANGED <<decisions, writes, touched, es, stage>>
      BY <1>5, Zenon DEF Still, sqlVars, txnVars
    <2> QED BY <1>3, <1>4, <2>1, Zenon
  <1>6. CASE \E q \in Reference : Arrive(q)
    <2>1. UNCHANGED <<touched, es, stage>>
      BY <1>6, Zenon DEF Arrive, txnVars
    <2>2. SameActive(decisions, decisions') /\ SameActive(View(v), View(v)')
      BY <1>6, ArriveReads, Zenon
    <2> QED BY <1>3, <2>1, <2>2, Zenon
  <1>7. ASSUME NEW u \in Process, Release(u), stage[u] # "idle" PROVE FALSE
    <2>1. CASE u = v
      BY <1>1, <1>7, <2>1, Released, Zenon
    <2>2. CASE u # v
      <3>1. stage'[v] = stage[v]
        BY <1>7, <2>2, Released, Zenon
      <3> QED BY <1>1, <1>7, <2>2, <3>1, Zenon DEF OneBusy
    <2> QED BY <2>1, <2>2, Zenon
  <1>8. ~\E u \in Process : Abort(u) \/ Commit(u)
    <2>1. ASSUME NEW u \in Process, Abort(u) \/ Commit(u) PROVE FALSE
      <3>1. Release(u) /\ stage[u] # "idle"
        BY <2>1 DEF Abort, Commit
      <3> QED BY <1>7, <3>1, Zenon
    <2> QED BY <2>1, Zenon
  <1>9. ASSUME NEW u \in Process, u # v, Act(u) PROVE Goal
    <2>1. stage'[v] = stage[v] /\ stage[v] # "idle"
      BY <1>1, <1>9, ActsAlone, Zenon
    <2>2. stage[u] = "idle"
      BY <1>9, <2>1, Zenon DEF OneBusy
    <2>3. ~WriteDecision(u) /\ ~Project(u) /\ ~Commit(u)
      BY <2>2 DEF WriteDecision, Project, Commit
    <2>4. UNCHANGED <<decisions, writes, touched, es>>
      BY <1>9, <2>3, ActsKeepIndex, Zenon
    <2> QED BY <1>3, <1>4, <2>1, <2>4, Zenon
  <1>10. CASE Act(v) /\ ~WriteDecision(v) /\ ~Project(v)
    <2>1. ~Commit(v)
      BY <1>8, Zenon
    <2>2. UNCHANGED <<decisions, writes, touched, es>> /\ stage'[v] # "commit"
      BY <1>10, <2>1, ActsKeepIndex, Zenon
    <2> QED BY <1>3, <1>4, <2>2, Zenon
  <1>11. CASE WriteDecision(v)
    <2>1. /\ UNCHANGED <<decisions, es>> /\ stage'[v] = then[v] /\ Mapping(v)
      BY <1>11, Zenon DEF WriteDecision, sqlVars, Mapping, TypeOK
    <2>2. stage'[v] # "commit"
      <3>1. then[v] \in {"guard", "side", "project"}
        BY <2>1, Zenon DEF Ahead
      <3> QED BY <2>1, <3>1
    <2>3. /\ ExpectedDoc(View(v)', r) # ExpectedDoc(View(v), r) => r \in Reached(v)'
          /\ r \in Reached(v) => r \in Reached(v)'
      BY <1>11, WriteOwes, Zenon
    <2>4. CASE ExpectedDoc(View(v)', r) = ExpectedDoc(View(v), r)
      <3>1. Owed
        BY <1>2, <2>1, <2>4, Zenon
      <3> QED BY <2>1, <2>2, <2>3, <2>4, <3>1, Zenon
    <2> QED BY <2>2, <2>3, <2>4, Zenon
  <1>12. CASE Project(v)
    <2>1. /\ UNCHANGED <<decisions, writes>>
          /\ stage[v] = "project" /\ touched[v] \in SUBSET Reference
      BY <1>12, Zenon DEF Project, sqlVars, TypeOK
    <2>2. View(v)' = View(v)
      BY <2>1, Zenon DEF View
    <2>3. Owed
      BY <1>2, <2>1, <2>2, Zenon
    <2>4. es'[r] = Projection(View(v), touched[v], r)
      <3>1. es' = [x \in Reference |-> Projection(View(v), touched[v], x)]
        BY <1>12, Zenon DEF Project
      <3> QED BY <3>1, Zenon
    <2>5. StarTable(View(v))
      <3>1. AllTerminal(View(v))
        BY Zenon DEF TerminalInv, AllTerminal, View
      <3> QED BY <1>0, <3>1, Zenon DEF StarTable, StarInv, ViewsHaveOne
    <2>6. /\ es'[r] \in {ExpectedDoc(View(v), r), es[r]}
          /\ r \in touched[v] \/ (\E t \in touched[v] : ActiveCanon(View(v), t) = r)
                => es'[r] = ExpectedDoc(View(v), r)
      BY <2>1, <2>4, <2>5, ProjectionInStar, Zenon
    <2>7. r \in Reached(v) => es'[r] = ExpectedDoc(View(v), r)
      BY <2>6, Zenon DEF Reached
    <2>8. es'[r] = ExpectedDoc(View(v), r)
      BY <2>3, <2>6, <2>7
    <2> QED BY <2>2, <2>8, Zenon
  <1> QED BY <1>5, <1>6, <1>8, <1>9, <1>10, <1>11, <1>12, Kinds, Zenon

\* What the transactions of a deployment outside the test environment keep.
IndexInv == TrustInv /\ PlanLeaves /\ IndexOwed

\* Where processes take turns outside the test environment, what a transaction
\* changes is indexed, or owed to the index.
THEOREM IndexInvariance ==
    ASSUME ~TestEnv
    PROVE  Spec /\ []OneBusy => []IndexInv
  <1>1. Init => IndexInv
    <2>1. ASSUME Init PROVE IndexInv
      <3>1. /\ ~NoRow.active /\ NoRow.det = "ABSENT"
            /\ \A d \in Decision : decisions[d] = NoRow
            /\ \A w \in Process, d \in Decision : writes[w][d] = NoRow
            /\ \A w \in Process : stage[w] = "idle" /\ undecided[w] = {}
        BY <2>1, Zenon DEF Init, NoRow
      <3>2. \A w \in Process, d \in Decision : View(w)[d] = NoRow
        BY <3>1, Zenon DEF View
      <3>3. PlanTrusted
        BY <3>1 DEF PlanTrusted, Mapping
      <3>4. TrustedDuplicates(decisions) /\ \A w \in Process : TrustedDuplicates(View(w))
        BY <3>1, <3>2, Zenon DEF TrustedDuplicates
      <3>5. PlanLeaves
        BY <3>1 DEF PlanLeaves, Process
      <3>6. \A w \in Process : View(w) = decisions
        <4>1. decisions = [d \in Decision |-> NoRow]
          BY <2>1, Zenon DEF Init
        <4>2. ASSUME NEW w \in Process PROVE View(w) = [d \in Decision |-> NoRow]
          BY <3>1, Zenon DEF View
        <4> QED BY <4>1, <4>2, Zenon
      <3> QED BY <3>3, <3>4, <3>5, <3>6, Zenon DEF IndexInv, TrustInv, IndexOwed
    <2> QED BY <2>1, Zenon
  <1>2. IInv /\ IInv' /\ AuthInv' /\ RowsInv /\ RowsInv' /\ TaskPending /\ TerminalInv
          /\ StarInv /\ OneBusy /\ IndexInv /\ [Next]_vars
        => IndexInv'
    <2>1. ASSUME IInv, IInv', AuthInv', RowsInv, RowsInv', TaskPending, TerminalInv,
                 StarInv, OneBusy, IndexInv, [Next]_vars
          PROVE  IndexInv'
      <3>1. PlanRead
        BY <2>1, Zenon DEF StarInv
      <3>2. TrustInv'
        BY <2>1, <3>1, TrustStep, Zenon DEF IndexInv
      <3>3. PlanLeaves'
        BY <2>1, <3>1, LeavesStep, Zenon DEF IndexInv
      <3>4. IndexOwed'
        BY <2>1, OwedStep, FiniteReferences, Zenon DEF IndexInv
      <3> QED BY <3>2, <3>3, <3>4, Zenon DEF IndexInv
    <2> QED BY <2>1, Zenon
  <1> QED BY <1>1, <1>2, OneBusyOneTask, AuthorityInvariance, RowsInvariance,
             PendingInvariance, TerminalInvariance, StarInvariance, PTL DEF Spec

\* While the transactions of workers and request handlers do not overlap, and
\* outside the test environment, whatever a commit changes in the projection of a
\* reference is in the search index by then.
THEOREM SerialIndexed ==
    ASSUME ~TestEnv
    PROVE  Spec /\ []OneBusy => CommitIsIndexed
  <1>1. IInv /\ IInv' /\ RowsInv /\ RowsInv' /\ OneBusy /\ IndexInv /\ [Next]_vars
        => ChangesIndexed
    <2>1. ASSUME IInv, IInv', RowsInv, RowsInv', OneBusy, IndexInv, [Next]_vars,
                 NEW r \in Reference,
                 ExpectedDoc(decisions', r) # ExpectedDoc(decisions, r)
          PROVE  es'[r] = ExpectedDoc(decisions', r)
      <3>1. decisions \in [Decision -> Row] /\ decisions' \in [Decision -> Row]
        BY <2>1, Zenon DEF IInv, TypeOK
      <3>2. ~SameActive(decisions, decisions')
        BY <2>1, <3>1, SameReads
      <3>3. PICK w \in Process : Commit(w) /\ decisions' = View(w)
        BY <2>1, <3>2, Tables, Zenon DEF RowsInv
      <3>4. stage[w] = "commit" /\ es' = es
        BY <3>3, Zenon DEF Commit
      <3> QED BY <2>1, <3>3, <3>4, Zenon DEF IndexInv, IndexOwed
    <2> QED BY <2>1, Zenon DEF ChangesIndexed
  <1> QED BY <1>1, AuthorityInvariance, RowsInvariance, IndexInvariance, PTL
             DEF CommitIsIndexed, Spec

=============================================================================
