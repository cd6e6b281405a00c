----------------------------- MODULE ListLemmas -----------------------------
(* Facts about the lists of SinglyLinkedList used by the proofs.           *)
EXTENDS SinglyLinkedList, WellFoundedInduction, TLAPS

Less == {ss \in Nat \X Nat : ss[1] < ss[2]}

\* A search over a non-empty set of positions has a first result.
LEMMA LeastElement ==
    ASSUME NEW T \in SUBSET Nat, T # {}
    PROVE  First(T) \in T /\ \A q \in T : First(T) <= q
<1>1. IsWellFoundedOn(Less, Nat)
  BY NatLessThanWellFounded, Zenon DEF OpToRel, Less
<1>2. \E p \in T : \A q \in T : ~ (<<q, p>> \in Less)
  BY <1>1, WFMin
<1>3. \A q, p \in Nat : q < p => <<q, p>> \in Less
  BY DEF Less
<1>4. \A q, p \in Nat : ~ (q < p) => p <= q
  OBVIOUS
<1>5. \E p \in T : \A q \in T : p <= q
  BY <1>2, <1>3, <1>4, Zenon
<1> QED
  BY <1>5 DEF First

\* The list after the link of an element.
LEMMA LinkAtFacts ==
    ASSUME NEW S, NEW s \in Seq(S), NEW e \in S, NEW p \in 1 .. Len(s) + 1
    PROVE  /\ LinkAt(s, p, e) \in Seq(S)
           /\ Len(LinkAt(s, p, e)) = Len(s) + 1
           /\ \A i \in 1 .. Len(s) + 1 :
                 LinkAt(s, p, e)[i] = IF i < p THEN s[i]
                                      ELSE IF i = p THEN e ELSE s[i - 1]
<1> DEFINE f == LinkAt(s, p, e)
<1>1. \A i \in 1 .. Len(s) + 1 :
         f[i] = IF i < p THEN s[i] ELSE IF i = p THEN e ELSE s[i - 1]
  BY DEF LinkAt
<1>2. f \in [1 .. Len(s) + 1 -> S]
  BY DEF LinkAt
<1> HIDE DEF f
<1>3. f \in Seq(S) /\ Len(f) = Len(s) + 1
  BY <1>2
<1> QED
  BY <1>1, <1>3 DEF f

\* The list after the removal of an element.
LEMMA UnlinkAtFacts ==
    ASSUME NEW S, NEW s \in Seq(S), NEW p \in 1 .. Len(s)
    PROVE  /\ UnlinkAt(s, p) \in Seq(S)
           /\ Len(UnlinkAt(s, p)) = Len(s) - 1
           /\ \A i \in 1 .. Len(s) - 1 :
                 UnlinkAt(s, p)[i] = IF i < p THEN s[i] ELSE s[i + 1]
<1> DEFINE f == UnlinkAt(s, p)
<1>1. \A i \in 1 .. Len(s) - 1 : f[i] = IF i < p THEN s[i] ELSE s[i + 1]
  BY DEF UnlinkAt
<1>2. f \in [1 .. Len(s) - 1 -> S]
  BY DEF UnlinkAt
<1> HIDE DEF f
<1>3. f \in Seq(S) /\ Len(f) = Len(s) - 1
  BY <1>2
<1> QED
  BY <1>1, <1>3 DEF f
=============================================================================
