------------------------- MODULE ChannelStateProofs -------------------------
(***************************************************************************)
(* Lemmas about the operators of ChannelState.  The sum of a set of locks  *)
(* is defined by recursion; its equation and its additivity are proved     *)
(* from the least element of a set of naturals and from minimal subsets,   *)
(* because the induction theorems of the library take an operator.         *)
(***************************************************************************)
EXTENDS ChannelState, FiniteSetTheorems, WellFoundedInduction, TLAPS

(* A non-empty set of naturals has a least element.                        *)
LEMMA LeastNatural ==
  ASSUME NEW T, T \subseteq Nat, T # {}
  PROVE  \E m \in T : \A k \in T : m <= k
<1>1. IsWellFoundedOn(OpToRel(<, Nat), Nat)
  BY NatLessThanWellFounded
<1>2. PICK m \in T : \A k \in T : ~ (<<k, m>> \in OpToRel(<, Nat))
  BY <1>1, WFMin
<1>3. \A k \in T : ~ (k < m)
  BY <1>2 DEF OpToRel
<1> QED
  BY <1>3

(* A lock taken from a non-empty set of locks, and what is left of it.     *)
Taken(S) == CHOOSE x \in S : TRUE

Rest(S) == S \ {Taken(S)}

Equation(g, S) == g[S] = IF S = {} THEN 0 ELSE Taken(S).amount + g[Rest(S)]

AtMost(n) == {S \in SUBSET Locks : Cardinality(S) <= n}

LEMMA RestSmaller ==
  ASSUME NEW S \in SUBSET Locks, S # {}
  PROVE  /\ Taken(S) \in S
         /\ Taken(S).amount \in Nat
         /\ Rest(S) \in SUBSET Locks
         /\ IsFiniteSet(S)
         /\ Cardinality(S) \in Nat
         /\ Cardinality(Rest(S)) = Cardinality(S) - 1
<1>1. Taken(S) \in S
  BY DEF Taken
<1>2. IsFiniteSet(S)
  BY LocksAssumption, FS_Subset
<1>3. Cardinality(S) \in Nat
  BY <1>2, FS_CardinalityType
<1>4. Cardinality(Rest(S)) = Cardinality(S) - 1
  BY <1>1, <1>2, FS_RemoveElement DEF Rest
<1> QED
  BY <1>1, <1>2, <1>3, <1>4, LocksAssumption DEF Rest

(* Step of the existence proof: a sum on the sets of at most n locks gives *)
(* one on the sets of at most n + 1.                                       *)
LEMMA SumExtends ==
  ASSUME NEW n \in Nat, NEW g \in [AtMost(n) -> Nat],
         \A S \in AtMost(n) : Equation(g, S)
  PROVE  \E h \in [AtMost(n + 1) -> Nat] : \A S \in AtMost(n + 1) : Equation(h, S)
<1> DEFINE h == [S \in AtMost(n + 1) |->
                   IF S = {} THEN 0 ELSE Taken(S).amount + g[Rest(S)]]
<1>1. \A S \in AtMost(n + 1) : S # {} => Rest(S) \in AtMost(n)
  BY RestSmaller DEF AtMost
<1>2. h \in [AtMost(n + 1) -> Nat]
  BY <1>1, RestSmaller DEF AtMost
<1>3. \A S \in AtMost(n) : S \in AtMost(n + 1) /\ h[S] = g[S]
  <2> SUFFICES ASSUME NEW S \in AtMost(n)
               PROVE  S \in AtMost(n + 1) /\ h[S] = g[S]
    OBVIOUS
  <2>1. S \in SUBSET Locks /\ IsFiniteSet(S)
    BY LocksAssumption, FS_Subset DEF AtMost
  <2>2. S \in AtMost(n + 1)
    BY <2>1, FS_CardinalityType DEF AtMost
  <2> QED
    BY <2>2 DEF Equation
<1>4. \A S \in AtMost(n + 1) : Equation(h, S)
  <2> SUFFICES ASSUME NEW S \in AtMost(n + 1)
               PROVE  Equation(h, S)
    OBVIOUS
  <2>1. CASE S = {}
    BY <2>1 DEF Equation
  <2>2. CASE S # {}
    BY <1>1, <1>3, <2>2 DEF Equation
  <2> QED
    BY <2>1, <2>2
<1> QED
  BY <1>2, <1>4

LEMMA SumExists ==
  ASSUME NEW n \in Nat
  PROVE  \E g \in [AtMost(n) -> Nat] : \A S \in AtMost(n) : Equation(g, S)
<1> DEFINE Good(k) == \E g \in [AtMost(k) -> Nat] : \A S \in AtMost(k) : Equation(g, S)
           Bad == {k \in Nat : ~ Good(k)}
<1>1. Good(0)
  <2>1. AtMost(0) = {{}}
    <3>1. \A S \in AtMost(0) : S = {}
      <4> SUFFICES ASSUME NEW S \in AtMost(0), S # {}
                   PROVE  FALSE
        OBVIOUS
      <4>1. S \in SUBSET Locks /\ Cardinality(S) <= 0
        BY DEF AtMost
      <4>2. IsFiniteSet(S) /\ Cardinality(S) \in Nat
        BY <4>1, RestSmaller
      <4>3. Cardinality(S) = 0
        BY <4>1, <4>2
      <4> QED
        BY <4>2, <4>3, FS_EmptySet
    <3>2. {} \in AtMost(0)
      BY FS_EmptySet DEF AtMost
    <3> QED
      BY <3>1, <3>2
  <2>2. [S \in AtMost(0) |-> 0] \in [AtMost(0) -> Nat]
    OBVIOUS
  <2>3. \A S \in AtMost(0) : Equation([U \in AtMost(0) |-> 0], S)
    BY <2>1 DEF Equation
  <2> QED
    BY <2>2, <2>3
<1>2. ASSUME NEW k \in Nat, Good(k)
      PROVE  Good(k + 1)
  BY <1>2, SumExtends
<1>3. ASSUME Bad # {}
      PROVE  FALSE
  <2>1. PICK m \in Bad : \A k \in Bad : m <= k
    BY <1>3, LeastNatural
  <2>2. m \in Nat /\ ~ Good(m)
    OBVIOUS
  <2>3. m # 0
    BY <1>1, <2>2
  <2>4. m - 1 \in Nat /\ m - 1 \notin Bad
    BY <2>1, <2>2, <2>3
  <2>5. Good(m - 1)
    BY <2>4
  <2>6. Good((m - 1) + 1)
    BY <1>2, <2>4, <2>5
  <2>7. (m - 1) + 1 = m
    BY <2>2
  <2> QED
    BY <2>2, <2>6, <2>7
<1>4. Good(n)
  BY <1>3
<1> QED
  BY <1>4

(* AmountOf is a natural number for every set of locks and satisfies its   *)
(* defining equation.                                                      *)
LEMMA AmountEquation ==
  /\ AmountOf \in [SUBSET Locks -> Nat]
  /\ \A S \in SUBSET Locks : Equation(AmountOf, S)
<1> DEFINE N == Cardinality(Locks)
           Body(g) == [S \in SUBSET Locks |->
                         IF S = {} THEN 0 ELSE Taken(S).amount + g[Rest(S)]]
<1>1. N \in Nat /\ AtMost(N) = SUBSET Locks
  BY LocksAssumption, FS_CardinalityType, FS_Subset DEF AtMost
<1>2. PICK g \in [SUBSET Locks -> Nat] : \A S \in SUBSET Locks : Equation(g, S)
  BY <1>1, SumExists
<1>3. g = Body(g)
  BY <1>2 DEF Equation
<1>4. AmountOf = CHOOSE f : f = Body(f)
  BY DEF AmountOf, Taken, Rest
<1>5. AmountOf = Body(AmountOf)
  BY <1>3, <1>4
<1> DEFINE Bad == {k \in Nat : \E S \in SUBSET Locks :
                      Cardinality(S) = k /\ AmountOf[S] \notin Nat}
<1>6. \A S \in SUBSET Locks : Equation(AmountOf, S)
  BY <1>5 DEF Equation
<1>7. ASSUME Bad # {}
      PROVE  FALSE
  <2>1. PICK m \in Bad : \A k \in Bad : m <= k
    BY <1>7, LeastNatural
  <2>2. PICK S \in SUBSET Locks : Cardinality(S) = m /\ AmountOf[S] \notin Nat
    BY <2>1
  <2>3. S # {}
    BY <1>6, <2>2 DEF Equation
  <2>4. Cardinality(Rest(S)) \notin Bad
    BY <2>1, <2>2, <2>3, RestSmaller
  <2>5. Cardinality(Rest(S)) \in Nat
    BY <2>3, RestSmaller, LocksAssumption, FS_Subset, FS_CardinalityType
  <2>6. AmountOf[Rest(S)] \in Nat
    BY <2>3, <2>4, <2>5, RestSmaller
  <2> QED
    BY <1>6, <2>2, <2>3, <2>6, RestSmaller DEF Equation
<1>8. \A S \in SUBSET Locks : AmountOf[S] \in Nat
  BY <1>7, LocksAssumption, FS_Subset, FS_CardinalityType
<1> QED
  BY <1>5, <1>6, <1>8

(* A lock adds its own amount to the sum, whichever locks are there.       *)
LEMMA AmountAdd ==
  ASSUME NEW S \in SUBSET Locks, NEW l \in Locks, l \notin S
  PROVE  AmountOf[S \cup {l}] = AmountOf[S] + l.amount
<1> DEFINE Adds(U) == \A x \in Locks \ U : AmountOf[U \cup {x}] = AmountOf[U] + x.amount
           Bad == {k \in Nat : \E U \in SUBSET Locks : Cardinality(U) = k /\ ~ Adds(U)}
<1>1. ASSUME Bad # {}
      PROVE  FALSE
  <2>1. PICK m \in Bad : \A k \in Bad : m <= k
    BY <1>1, LeastNatural
  <2>2. PICK U \in SUBSET Locks : Cardinality(U) = m /\ ~ Adds(U)
    BY <2>1
  <2>3. PICK x \in Locks \ U : AmountOf[U \cup {x}] # AmountOf[U] + x.amount
    BY <2>2
  <2> DEFINE V == U \cup {x}
             y == Taken(V)
  <2>4. V \in SUBSET Locks /\ V # {} /\ y \in V
    BY RestSmaller
  <2>5. AmountOf[V] = y.amount + AmountOf[V \ {y}]
    BY <2>4, AmountEquation DEF Equation, Rest
  <2>6. y # x
    <3> SUFFICES ASSUME y = x
                 PROVE  FALSE
      OBVIOUS
    <3>1. V \ {y} = U
      OBVIOUS
    <3>2. AmountOf[U] \in Nat /\ x.amount \in Nat
      BY AmountEquation, LocksAssumption
    <3>3. AmountOf[V] = x.amount + AmountOf[U]
      BY <2>5, <3>1
    <3> QED
      BY <2>3, <3>2, <3>3
  <2>7. y \in U
    BY <2>4, <2>6
  <2> DEFINE W == U \ {y}
  <2>8. W \in SUBSET Locks /\ y \in Locks \ W /\ x \in Locks \ W
    BY <2>6, <2>7
  <2>9. Cardinality(W) \in Nat /\ Cardinality(W) < m
    <3>1. IsFiniteSet(U) /\ Cardinality(U) \in Nat
      BY LocksAssumption, FS_Subset, FS_CardinalityType
    <3>2. Cardinality(W) = Cardinality(U) - 1 /\ IsFiniteSet(W)
      BY <2>7, <3>1, FS_RemoveElement
    <3>3. Cardinality(W) \in Nat
      BY <3>2, FS_CardinalityType
    <3> QED
      BY <2>2, <3>1, <3>2, <3>3
  <2>10. Adds(W)
    <3> HIDE DEF Adds, W
    <3>1. m \in Nat
      OBVIOUS
    <3>2. Cardinality(W) \notin Bad
      BY <2>1, <2>9, <3>1
    <3> QED
      BY <2>8, <2>9, <3>2
  <2>11. V \ {y} = W \cup {x} /\ U = W \cup {y}
    BY <2>6, <2>7
  <2>12. AmountOf[V \ {y}] = AmountOf[W] + x.amount /\ AmountOf[U] = AmountOf[W] + y.amount
    BY <2>8, <2>10, <2>11
  <2>13. AmountOf[W] \in Nat /\ x.amount \in Nat /\ y.amount \in Nat
    BY <2>8, AmountEquation, LocksAssumption
  <2> HIDE DEF V, y, W
  <2>14. AmountOf[V] = AmountOf[U] + x.amount
    BY <2>5, <2>12, <2>13
  <2> QED
    BY <2>3, <2>14 DEF V
<1>2. Adds(S)
  BY <1>1, LocksAssumption, FS_Subset, FS_CardinalityType
<1> QED
  BY <1>2

(* Without it the sum is smaller by that amount, which it was at least.    *)
LEMMA AmountRemove ==
  ASSUME NEW S \in SUBSET Locks, NEW l \in S
  PROVE  /\ AmountOf[S \ {l}] = AmountOf[S] - l.amount
         /\ AmountOf[S] >= l.amount
<1>1. AmountOf[(S \ {l}) \cup {l}] = AmountOf[S \ {l}] + l.amount
  BY AmountAdd
<1>2. (S \ {l}) \cup {l} = S
  OBVIOUS
<1>3. AmountOf[S \ {l}] \in Nat /\ l.amount \in Nat
  BY AmountEquation, LocksAssumption
<1>4. AmountOf[S] = AmountOf[S \ {l}] + l.amount
  BY <1>1, <1>2
<1> QED
  BY <1>3, <1>4

(* The sum of two disjoint sets is the sum of their sums.                  *)
LEMMA AmountUnion ==
  ASSUME NEW S \in SUBSET Locks, NEW T \in SUBSET Locks, S \cap T = {}
  PROVE  AmountOf[S \cup T] = AmountOf[S] + AmountOf[T]
<1> DEFINE Adds(U) == AmountOf[S \cup U] = AmountOf[S] + AmountOf[U]
           Bad == {k \in Nat : \E U \in SUBSET T : Cardinality(U) = k /\ ~ Adds(U)}
<1>1. ASSUME Bad # {}
      PROVE  FALSE
  <2>1. PICK m \in Bad : \A k \in Bad : m <= k
    BY <1>1, LeastNatural
  <2>2. PICK U \in SUBSET T : Cardinality(U) = m /\ ~ Adds(U)
    BY <2>1
  <2>3. AmountOf[S] \in Nat
    BY AmountEquation
  <2>4. U # {}
    <3> SUFFICES ASSUME U = {}
                 PROVE  FALSE
      OBVIOUS
    <3>1. S \cup U = S /\ AmountOf[U] = 0
      BY AmountEquation DEF Equation
    <3> QED
      BY <2>2, <2>3, <3>1
  <2>5. PICK x \in U : TRUE
    BY <2>4
  <2> DEFINE W == U \ {x}
  <2>6. Cardinality(W) \in Nat /\ Cardinality(W) < m
    <3>1. IsFiniteSet(U) /\ Cardinality(U) \in Nat
      BY LocksAssumption, FS_Subset, FS_CardinalityType
    <3>2. Cardinality(W) = Cardinality(U) - 1 /\ IsFiniteSet(W)
      BY <3>1, FS_RemoveElement
    <3>3. Cardinality(W) \in Nat
      BY <3>2, FS_CardinalityType
    <3> QED
      BY <2>2, <3>1, <3>2, <3>3
  <2>7. Adds(W)
    <3>1. W \in SUBSET T
      OBVIOUS
    <3> HIDE DEF Adds, W
    <3>2. m \in Nat
      OBVIOUS
    <3>3. Cardinality(W) \notin Bad
      BY <2>1, <2>6, <3>2
    <3> QED
      BY <2>6, <3>1, <3>3
  <2>8. AmountOf[W \cup {x}] = AmountOf[W] + x.amount
    BY AmountAdd
  <2>9. AmountOf[(S \cup W) \cup {x}] = AmountOf[S \cup W] + x.amount
    BY AmountAdd
  <2>10. W \cup {x} = U /\ (S \cup W) \cup {x} = S \cup U
    OBVIOUS
  <2>11. AmountOf[W] \in Nat /\ x.amount \in Nat
    BY AmountEquation, LocksAssumption
  <2>12. AmountOf[U] = AmountOf[W] + x.amount
    BY <2>8, <2>10
  <2>13. AmountOf[S \cup U] = (AmountOf[S] + AmountOf[W]) + x.amount
    BY <2>7, <2>9, <2>10
  <2> QED
    BY <2>2, <2>3, <2>11, <2>12, <2>13
<1>2. Adds(T)
  BY <1>1, LocksAssumption, FS_Subset, FS_CardinalityType
<1> QED
  BY <1>2

(* get_amount_locked, the sum over the three dictionaries, is the sum over *)
(* the merkle tree.                                                        *)
LEMMA AmountLocked ==
  ASSUME NEW end \in EndState, Coherent(end)
  PROVE  /\ get_amount_locked(end) = AmountOf[end.merkletree]
         /\ get_amount_locked(end) \in Nat
<1> DEFINE A == end.lockedlocks
           B == end.unlockedlocks
           C == end.onchain_unlockedlocks
<1>1. A \in SUBSET Locks /\ B \in SUBSET Locks /\ C \in SUBSET Locks
  BY DEF EndState
<1>2. A \cap B = {} /\ (A \cup B) \cap C = {} /\ end.merkletree = (A \cup B) \cup C
  BY DEF Coherent, pending_locks
<1>3. AmountOf[A \cup B] = AmountOf[A] + AmountOf[B]
  BY <1>1, <1>2, AmountUnion
<1>4. AmountOf[(A \cup B) \cup C] = AmountOf[A \cup B] + AmountOf[C]
  <2> HIDE DEF A, B, C
  <2> QED
    BY <1>1, <1>2, AmountUnion
<1>5. AmountOf[A] \in Nat /\ AmountOf[B] \in Nat /\ AmountOf[C] \in Nat
  BY <1>1, AmountEquation
<1>6. get_amount_locked(end) = AmountOf[A] + AmountOf[B] + AmountOf[C]
  BY DEF get_amount_locked
<1> HIDE DEF A, B, C
<1> QED
  BY <1>2, <1>3, <1>4, <1>5, <1>6

(* It covers each of the leaves.                                           *)
LEMMA AmountLeft ==
  ASSUME NEW end \in EndState, Coherent(end), NEW lock \in end.merkletree
  PROVE  /\ lock \in Locks /\ lock.amount \in Nat
         /\ get_amount_locked(end) - lock.amount \in Nat
<1>1. end.merkletree \in SUBSET Locks
  BY DEF EndState
<1>2. lock \in Locks /\ lock.amount \in Nat
  BY <1>1, LocksAssumption
<1>3. AmountOf[end.merkletree] >= lock.amount
  BY <1>1, AmountRemove
<1>4. get_amount_locked(end) = AmountOf[end.merkletree] /\ get_amount_locked(end) \in Nat
  BY AmountLocked
<1> QED
  BY <1>2, <1>3, <1>4

-----------------------------------------------------------------------------
(* Every update of an end state keeps it well formed.                      *)

(* Distinct secrethashes, the part of Coherent a balance proof shows.      *)
Distinct(S) == \A k, l \in S : k.secrethash = l.secrethash => k = l

LEMMA AddLockCoherent ==
  ASSUME NEW end \in EndState, Coherent(end), NEW lock \in Locks,
         NEW bp \in BalanceProof, lock \notin end.merkletree,
         Distinct(end.merkletree \cup {lock}),
         bp.locksroot = end.merkletree \cup {lock},
         bp.locked_amount = get_amount_locked(end) + lock.amount
  PROVE  /\ add_lock(end, bp, lock) \in EndState
         /\ Coherent(add_lock(end, bp, lock))
<1> DEFINE new == add_lock(end, bp, lock)
<1>1. Without(end.lockedlocks, lock.secrethash) = end.lockedlocks
  BY DEF Without, Distinct, Coherent, pending_locks
<1>2. new = [end EXCEPT !.balance_proof = bp,
                        !.merkletree = end.merkletree \cup {lock},
                        !.lockedlocks = end.lockedlocks \cup {lock}]
  BY <1>1 DEF add_lock
<1>3. new \in EndState
  BY <1>2 DEF EndState
<1>4. AmountOf[end.merkletree \cup {lock}] = bp.locked_amount
  BY AmountLocked, AmountAdd DEF EndState
<1>5. /\ new.merkletree = end.merkletree \cup {lock}
      /\ new.lockedlocks = end.lockedlocks \cup {lock}
      /\ new.unlockedlocks = end.unlockedlocks
      /\ new.onchain_unlockedlocks = end.onchain_unlockedlocks
      /\ new.balance_proof = bp
  BY <1>2 DEF EndState
<1> HIDE DEF new
<1>6. Coherent(new)
  BY <1>4, <1>5 DEF Coherent, pending_locks, Distinct
<1> QED
  BY <1>3, <1>6 DEF new

LEMMA ClaimLockCoherent ==
  ASSUME NEW end \in EndState, Coherent(end), NEW lock \in end.merkletree,
         NEW bp \in BalanceProof,
         bp.locksroot = end.merkletree \ {lock},
         bp.locked_amount = get_amount_locked(end) - lock.amount
  PROVE  /\ claim_lock(end, bp, lock) \in EndState
         /\ Coherent(claim_lock(end, bp, lock))
<1> DEFINE new == claim_lock(end, bp, lock)
<1>1. new \in EndState
  BY DEF claim_lock, EndState, Without
<1>2. /\ new.merkletree = end.merkletree \ {lock}
      /\ new.lockedlocks = Without(end.lockedlocks, lock.secrethash)
      /\ new.unlockedlocks = Without(end.unlockedlocks, lock.secrethash)
      /\ new.onchain_unlockedlocks = Without(end.onchain_unlockedlocks, lock.secrethash)
      /\ new.balance_proof = bp
  BY DEF claim_lock, EndState
<1>3. AmountOf[end.merkletree \ {lock}] = bp.locked_amount
  BY AmountLocked, AmountRemove DEF EndState
<1>4. pending_locks(new) = end.merkletree \ {lock}
  BY <1>2 DEF pending_locks, Without, Coherent
<1> HIDE DEF new
<1>5. Coherent(new)
  BY <1>2, <1>3, <1>4 DEF Coherent, Without
<1> QED
  BY <1>1, <1>5 DEF new

LEMMA DropLockCoherent ==
  ASSUME NEW end \in EndState, Coherent(end),
         NEW lock \in end.lockedlocks \cup end.unlockedlocks,
         NEW bp \in BalanceProof,
         bp.locksroot = end.merkletree \ {lock},
         bp.locked_amount = get_amount_locked(end) - lock.amount
  PROVE  /\ drop_lock(end, bp, lock) \in EndState
         /\ Coherent(drop_lock(end, bp, lock))
<1> DEFINE new == drop_lock(end, bp, lock)
<1>1. new \in EndState
  BY DEF drop_lock, EndState, Without
<1>2. /\ new.merkletree = end.merkletree \ {lock}
      /\ new.lockedlocks = Without(end.lockedlocks, lock.secrethash)
      /\ new.unlockedlocks = Without(end.unlockedlocks, lock.secrethash)
      /\ new.onchain_unlockedlocks = end.onchain_unlockedlocks
      /\ new.balance_proof = bp
  BY DEF drop_lock, EndState
<1>3. AmountOf[end.merkletree \ {lock}] = bp.locked_amount
  BY AmountLocked, AmountRemove, ZenonT(40) DEF EndState, Coherent, pending_locks
<1>4. pending_locks(new) = end.merkletree \ {lock}
  BY <1>2 DEF pending_locks, Without, Coherent
<1> HIDE DEF new
<1>5. Coherent(new)
  BY <1>2, <1>3, <1>4 DEF Coherent, Without
<1> QED
  BY <1>1, <1>5 DEF new

LEMMA RegisterSecretCoherent ==
  ASSUME NEW end \in EndState, Coherent(end), NEW s
  PROVE  /\ register_secret_endstate(end, s) \in EndState
         /\ Coherent(register_secret_endstate(end, s))
<1> DEFINE new == register_secret_endstate(end, s)
           found == Keyed(end.lockedlocks, s)
<1>1. new \in EndState
  BY DEF register_secret_endstate, EndState, Without, Keyed
<1>2. /\ new.merkletree = end.merkletree
      /\ new.lockedlocks = end.lockedlocks \ found
      /\ new.onchain_unlockedlocks = end.onchain_unlockedlocks
      /\ new.balance_proof = end.balance_proof
  BY DEF register_secret_endstate, EndState, Without, Keyed
<1>3. new.unlockedlocks = end.unlockedlocks \cup found
  <2>1. CASE found = {}
    BY <2>1 DEF register_secret_endstate, EndState
  <2>2. CASE found # {}
    <3>1. Without(end.unlockedlocks, s) = end.unlockedlocks
      BY <2>2 DEF Without, Keyed, Coherent, pending_locks
    <3> QED
      BY <2>2, <3>1 DEF register_secret_endstate, EndState
  <2> QED
    BY <2>1, <2>2
<1>4. found \subseteq end.lockedlocks
  BY DEF Keyed
<1> HIDE DEF new, found
<1>5. Coherent(new)
  BY <1>2, <1>3, <1>4 DEF Coherent, pending_locks
<1> QED
  BY <1>1, <1>5 DEF new

LEMMA RegisterOnchainCoherent ==
  ASSUME NEW end \in EndState, Coherent(end), NEW s, NEW b \in Nat
  PROVE  /\ register_onchain_secret_endstate(end, s, b) \in EndState
         /\ Coherent(register_onchain_secret_endstate(end, s, b))
<1> DEFINE new == register_onchain_secret_endstate(end, s, b)
           pending == IF Keyed(end.unlockedlocks, s) # {}
                      THEN Keyed(end.unlockedlocks, s)
                      ELSE Keyed(end.lockedlocks, s)
           in_time == {l \in pending : l.expiration >= b}
<1>1. CASE in_time = {}
  BY <1>1 DEF register_onchain_secret_endstate
<1>2. CASE in_time # {}
  <2>1. new = [end EXCEPT !.lockedlocks = Without(@, s),
                          !.unlockedlocks = Without(@, s),
                          !.onchain_unlockedlocks = Without(@, s) \cup in_time]
    BY <1>2 DEF register_onchain_secret_endstate
  <2>2. in_time \subseteq end.lockedlocks \cup end.unlockedlocks
    BY DEF Keyed
  <2>3. \A l \in in_time : l.secrethash = s
    BY DEF Keyed
  <2> HIDE DEF in_time, new
  <2>4. new \in EndState
    BY <2>1, <2>2 DEF EndState, Without
  <2>5. PICK l \in in_time : TRUE
    BY <1>2
  <2>6. in_time = {l}
    BY <2>2, <2>3, <2>5 DEF Coherent, pending_locks
  <2>7. l \in end.merkletree /\ l.secrethash = s
    BY <2>2, <2>3, <2>5 DEF Coherent, pending_locks
  <2>8. /\ Without(end.lockedlocks, s) = end.lockedlocks \ {l}
        /\ Without(end.unlockedlocks, s) = end.unlockedlocks \ {l}
        /\ Without(end.onchain_unlockedlocks, s) = end.onchain_unlockedlocks
    BY <2>2, <2>5, <2>7 DEF Without, Coherent, pending_locks
  <2>9. /\ new.merkletree = end.merkletree
        /\ new.lockedlocks = end.lockedlocks \ {l}
        /\ new.unlockedlocks = end.unlockedlocks \ {l}
        /\ new.onchain_unlockedlocks = end.onchain_unlockedlocks \cup {l}
        /\ new.balance_proof = end.balance_proof
    BY <2>1, <2>6, <2>8 DEF EndState
  <2>10. Coherent(new)
    BY <2>7, <2>9 DEF Coherent, pending_locks
  <2> QED
    BY <2>4, <2>10 DEF new
<1> QED
  BY <1>1, <1>2

LEMMA UpdateBalanceCoherent ==
  ASSUME NEW end \in EndState, Coherent(end), NEW b \in Nat
  PROVE  /\ update_contract_balance(end, b) \in EndState
         /\ Coherent(update_contract_balance(end, b))
<1> DEFINE new == update_contract_balance(end, b)
<1>1. /\ new \in EndState
      /\ new.merkletree = end.merkletree
      /\ new.lockedlocks = end.lockedlocks
      /\ new.unlockedlocks = end.unlockedlocks
      /\ new.onchain_unlockedlocks = end.onchain_unlockedlocks
      /\ new.balance_proof = end.balance_proof
  BY DEF update_contract_balance, EndState
<1> HIDE DEF new
<1>2. Coherent(new)
  BY <1>1 DEF Coherent, pending_locks
<1> QED
  BY <1>1, <1>2 DEF new
=============================================================================
