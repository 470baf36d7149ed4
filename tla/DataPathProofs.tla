--------------------------- MODULE DataPathProofs ---------------------------
(***************************************************************************)
(* Theorems about what an event passes on its way: SdkScope and SdkHooks,  *)
(* where it is captured, for any number of contexts, breadcrumbs, events,  *)
(* clients and handlers of others; Listing, where its issue is read, for   *)
(* any finite table of issues, any page size and any number of events      *)
(* stored meanwhile; Grouping, where it is given its issue, for any errors *)
(* of any programs, any links among them and any stacks; and               *)
(* SourceMapDecode, where its frames are named, for any compiled program.  *)
(***************************************************************************)
EXTENDS SdkScope, SdkHooks, Listing, Grouping, SourceMapDecode, FiniteSetTheorems,
        WellFoundedInduction, TLAPS

-----------------------------------------------------------------------------
(* Keeping the newest crumbs.                                              *)

Crumbs == Seq(Nat)

LEMMA TrimmedType ==
    ASSUME NEW s \in Crumbs
    PROVE  /\ Trimmed(s) \in Crumbs
           /\ Len(Trimmed(s)) = IF Len(s) > MAX_BREADCRUMBS THEN MAX_BREADCRUMBS ELSE Len(s)
           /\ \A k \in 1 .. Len(Trimmed(s)) : Trimmed(s)[k] = s[Len(s) - Len(Trimmed(s)) + k]
<1>0. MAX_BREADCRUMBS \in Nat \ {0} /\ Len(s) \in Nat  BY ScopeAssumption DEF Crumbs
<1>1. CASE Len(s) > MAX_BREADCRUMBS
  <2>1. Trimmed(s) = SubSeq(s, Len(s) - MAX_BREADCRUMBS + 1, Len(s))
    BY <1>1 DEF Trimmed, Newest
  <2>2. Len(Trimmed(s)) = MAX_BREADCRUMBS /\ Trimmed(s) \in Crumbs
    BY <1>0, <1>1, <2>1 DEF Crumbs
  <2>3. ASSUME NEW k \in 1 .. MAX_BREADCRUMBS
        PROVE  Trimmed(s)[k] = s[Len(s) - MAX_BREADCRUMBS + k]
    BY <1>0, <1>1, <2>1 DEF Crumbs
  <2>4. QED  BY <1>1, <2>2, <2>3
<1>2. CASE ~ (Len(s) > MAX_BREADCRUMBS)
  <2>1. Trimmed(s) = s  BY <1>2 DEF Trimmed
  <2>2. QED  BY <1>0, <1>2, <2>1
<1>3. QED  BY <1>1, <1>2

LEMMA SameEntries ==
    ASSUME NEW s \in Crumbs, NEW t \in Crumbs, Len(s) = Len(t),
           \A k \in 1 .. Len(s) : s[k] = t[k]
    PROVE  s = t
BY DEF Crumbs

LEMMA TrimmedAppended ==
    ASSUME NEW s \in Crumbs, NEW crumb \in Nat
    PROVE  LET kept == Trimmed(Append(s, crumb)) IN
           /\ kept \in Crumbs
           /\ Len(kept) = IF Len(s) + 1 > MAX_BREADCRUMBS THEN MAX_BREADCRUMBS ELSE Len(s) + 1
           /\ \A k \in 1 .. Len(kept) : kept[k] = Append(s, crumb)[Len(s) + 1 - Len(kept) + k]
<1>1. PICK t : t = Append(s, crumb)  OBVIOUS
<1>2. t \in Crumbs /\ Len(t) = Len(s) + 1  BY <1>1 DEF Crumbs
<1>3. /\ Trimmed(t) \in Crumbs
      /\ Len(Trimmed(t)) = IF Len(t) > MAX_BREADCRUMBS THEN MAX_BREADCRUMBS ELSE Len(t)
      /\ \A k \in 1 .. Len(Trimmed(t)) : Trimmed(t)[k] = t[Len(t) - Len(Trimmed(t)) + k]
  BY <1>2, TrimmedType
<1>4. QED  BY <1>1, <1>2, <1>3, SMTT(20)

\* A crumb added to what was kept leaves the same as a crumb added to everything.
LEMMA TrimmedAppend ==
    ASSUME NEW s \in Crumbs, NEW crumb \in Nat
    PROVE  Trimmed(Append(Trimmed(s), crumb)) = Trimmed(Append(s, crumb))
<1> DEFINE kept == Trimmed(s)
           left == Trimmed(Append(kept, crumb))
           right == Trimmed(Append(s, crumb))
<1>0. MAX_BREADCRUMBS \in Nat \ {0} /\ Len(s) \in Nat  BY ScopeAssumption DEF Crumbs
<1>1. /\ kept \in Crumbs
      /\ Len(kept) = IF Len(s) > MAX_BREADCRUMBS THEN MAX_BREADCRUMBS ELSE Len(s)
      /\ \A k \in 1 .. Len(kept) : kept[k] = s[Len(s) - Len(kept) + k]
  BY TrimmedType
<1>2. /\ Append(kept, crumb) \in Crumbs /\ Append(s, crumb) \in Crumbs
      /\ Len(Append(kept, crumb)) = Len(kept) + 1 /\ Len(Append(s, crumb)) = Len(s) + 1
  BY <1>1 DEF Crumbs
<1> HIDE DEF kept
<1>3. /\ left \in Crumbs
      /\ Len(left) = IF Len(kept) + 1 > MAX_BREADCRUMBS THEN MAX_BREADCRUMBS ELSE Len(kept) + 1
      /\ \A k \in 1 .. Len(left) : left[k] = Append(kept, crumb)[Len(kept) + 1 - Len(left) + k]
  BY <1>1, <1>2, TrimmedAppended DEF left
<1>4. /\ right \in Crumbs
      /\ Len(right) = IF Len(s) + 1 > MAX_BREADCRUMBS THEN MAX_BREADCRUMBS ELSE Len(s) + 1
      /\ \A k \in 1 .. Len(right) : right[k] = Append(s, crumb)[Len(s) + 1 - Len(right) + k]
  BY TrimmedAppended DEF right
<1> HIDE DEF left, right
<1>5. Len(left) = Len(right) /\ Len(left) \in Nat  BY <1>0, <1>1, <1>3, <1>4
<1>6. ASSUME NEW k \in 1 .. Len(left)  PROVE left[k] = right[k]
  <2> DEFINE i == Len(kept) + 1 - Len(left) + k
             j == Len(s) + 1 - Len(right) + k
  <2>0. Len(kept) \in Nat /\ Len(right) \in Nat /\ k \in Nat /\ k >= 1 /\ k <= Len(left)
    BY <1>1, <1>5 DEF Crumbs
  <2>1. left[k] = Append(kept, crumb)[i] /\ right[k] = Append(s, crumb)[j]
    BY <1>3, <1>4, <1>5, <1>6
  <2>2. i \in 1 .. Len(kept) + 1 /\ j \in 1 .. Len(s) + 1
    <3>1. Len(left) <= Len(kept) + 1 /\ Len(right) <= Len(s) + 1
      BY <1>0, <1>1, <1>3, <1>4
    <3>2. QED  BY <1>0, <1>5, <2>0, <3>1
  <2>3. j = Len(s) - Len(kept) + i
    BY <1>0, <1>5, <2>0
  <2> HIDE DEF i, j
  <2>4. CASE i = Len(kept) + 1
    BY <1>0, <1>1, <2>0, <2>1, <2>2, <2>3, <2>4, SMTT(20) DEF Crumbs
  <2>5. CASE i # Len(kept) + 1
    <3>1. i \in 1 .. Len(kept) /\ j \in 1 .. Len(s)
      BY <1>0, <1>1, <2>0, <2>2, <2>3, <2>5
    <3>2. Append(kept, crumb)[i] = kept[i] /\ Append(s, crumb)[j] = s[j]
      BY <1>1, <3>1 DEF Crumbs
    <3>3. kept[i] = s[j]  BY <1>1, <2>3, <3>1
    <3>4. QED  BY <2>1, <3>2, <3>3
  <2>6. QED  BY <2>4, <2>5
<1>7. left = right
  BY <1>3, <1>4, <1>5, <1>6, SameEntries
<1>8. QED  BY <1>7 DEF left, right, kept

-----------------------------------------------------------------------------
(* Scopes.                                                                 *)

ScopeTyped ==
    /\ sdk \in {"python", "node"}
    /\ heap \in Seq(Crumbs)
    /\ scope \in [Contexts -> 0 .. Len(heap)]
    /\ trail \in [Contexts -> Crumbs]
    /\ queued \in Seq([crumbs : 1 .. Len(heap), trail : Crumbs])
    /\ added \in Nat

\* What Node writes in place is the scope of one request and of no event: runInScope
\* clones, and a captured event holds a copy.
Unshared ==
    sdk = "node" =>
        /\ \A c, d \in Contexts : Started(c) /\ scope[c] = scope[d] => c = d
        /\ \A c \in Contexts, n \in DOMAIN queued : scope[c] # queued[n].crumbs

LEMMA SeqWidened ==
    ASSUME NEW S, NEW T, S \subseteq T, NEW s \in Seq(S)
    PROVE  s \in Seq(T) /\ \A n \in DOMAIN s : s[n] \in S
OBVIOUS

\* An object more changes neither those there were nor how they are referred to.
LEMMA HeapGrows ==
    ASSUME ScopeTyped, NEW s \in Crumbs
    PROVE  /\ Append(heap, s) \in Seq(Crumbs)
           /\ Len(Append(heap, s)) = Len(heap) + 1
           /\ Append(heap, s)[Len(heap) + 1] = s
           /\ \A k \in 1 .. Len(heap) : Append(heap, s)[k] = heap[k]
           /\ scope \in [Contexts -> 0 .. Len(heap) + 1]
           /\ queued \in Seq([crumbs : 1 .. Len(heap) + 1, trail : Crumbs])
           /\ \A n \in DOMAIN queued : queued[n].crumbs \in 1 .. Len(heap)
<1>1. Len(heap) \in Nat  BY DEF ScopeTyped
<1>2. 0 .. Len(heap) \subseteq 0 .. Len(heap) + 1  BY <1>1
<1>3. /\ scope \in [Contexts -> 0 .. Len(heap) + 1]
  BY <1>2 DEF ScopeTyped
<1>4. [crumbs : 1 .. Len(heap), trail : Crumbs] \subseteq [crumbs : 1 .. Len(heap) + 1, trail : Crumbs]
  BY <1>1
<1>5. /\ queued \in Seq([crumbs : 1 .. Len(heap) + 1, trail : Crumbs])
      /\ \A n \in DOMAIN queued : queued[n] \in [crumbs : 1 .. Len(heap), trail : Crumbs]
  BY <1>4, SeqWidened, ZenonT(40) DEF ScopeTyped
<1>6. QED  BY <1>1, <1>3, <1>5 DEF ScopeTyped

LEMMA ScopeStarts == ScopeInit => ScopeTyped /\ Unshared /\ ScopesDoNotBleed
<1> SUFFICES ASSUME ScopeInit  PROVE ScopeTyped /\ Unshared /\ ScopesDoNotBleed
  OBVIOUS
<1>1. <<>> \in Crumbs /\ Trimmed(<<>>) = <<>>
  <2>1. Len(<<>>) = 0 /\ <<>> \in Crumbs  BY DEF Crumbs
  <2>2. QED  BY <2>1, ScopeAssumption DEF Trimmed
<1>2. heap \in Seq(Crumbs) /\ Len(heap) = 1 /\ heap[1] = <<>>
  BY <1>1 DEF ScopeInit
<1>3. ScopeTyped
  BY <1>1, <1>2 DEF ScopeInit, ScopeTyped
<1>4. Unshared
  BY ScopeAssumption DEF ScopeInit, Unshared, Started
<1>5. ScopesDoNotBleed
  BY <1>1, <1>2 DEF ScopeInit, ScopesDoNotBleed, Started
<1>6. QED  BY <1>3, <1>4, <1>5

LEMMA ScopeCopied ==
    ASSUME ScopeTyped, Unshared, ScopesDoNotBleed,
           NEW c \in Contexts, NEW d \in Contexts, CopyContext(c, d)
    PROVE  (ScopeTyped /\ Unshared /\ ScopesDoNotBleed)'
<1>1. ScopeTyped'  BY DEF ScopeTyped, CopyContext
<1>2. Unshared'  BY DEF Unshared, CopyContext
<1>3. ScopesDoNotBleed'
  BY DEF ScopeTyped, ScopesDoNotBleed, Started, CopyContext
<1>4. QED  BY <1>1, <1>2, <1>3

LEMMA ScopeForked ==
    ASSUME ScopeTyped, Unshared, ScopesDoNotBleed,
           NEW c \in Contexts, NEW d \in Contexts, runInScope(c, d)
    PROVE  (ScopeTyped /\ Unshared /\ ScopesDoNotBleed)'
<1>1. scope[c] \in 1 .. Len(heap) /\ Len(heap) \in Nat
  BY DEF ScopeTyped, runInScope, Started
<1>2. PICK s \in Crumbs : s = heap[scope[c]]  BY <1>1 DEF ScopeTyped
<1>3. heap' = Append(heap, s) /\ s = Trimmed(trail[c])
  BY <1>2 DEF runInScope, ScopesDoNotBleed
<1>4. /\ heap' \in Seq(Crumbs) /\ Len(heap') = Len(heap) + 1
      /\ heap'[Len(heap) + 1] = s
      /\ \A k \in 1 .. Len(heap) : heap'[k] = heap[k]
      /\ scope \in [Contexts -> 0 .. Len(heap) + 1]
      /\ queued \in Seq([crumbs : 1 .. Len(heap) + 1, trail : Crumbs])
      /\ \A n \in DOMAIN queued : queued[n].crumbs \in 1 .. Len(heap)
  BY <1>3, HeapGrows
<1>5. /\ scope' = [scope EXCEPT ![d] = Len(heap) + 1]
      /\ trail' = [trail EXCEPT ![d] = trail[c]]
      /\ sdk' = sdk /\ queued' = queued /\ added' = added
  BY <1>4 DEF runInScope
<1>6. ScopeTyped'
  BY <1>1, <1>4, <1>5 DEF ScopeTyped
<1>7. \A e \in Contexts : scope[e] \in 0 .. Len(heap)  BY DEF ScopeTyped
<1>8. Unshared'
  BY <1>1, <1>4, <1>5, <1>7 DEF Unshared, Started, ScopeTyped
<1>9. ScopesDoNotBleed'
  BY <1>1, <1>3, <1>4, <1>5, <1>7 DEF ScopesDoNotBleed, Started, ScopeTyped
<1>10. QED  BY <1>6, <1>8, <1>9

LEMMA CrumbAdded ==
    ASSUME ScopeTyped, Unshared, ScopesDoNotBleed, NEW c \in Contexts, add_breadcrumb(c)
    PROVE  (ScopeTyped /\ Unshared /\ ScopesDoNotBleed)'
<1>1. scope[c] \in 1 .. Len(heap) /\ Len(heap) \in Nat
  BY DEF ScopeTyped, add_breadcrumb, Started
<1>2. PICK crumb \in Nat : crumb = added'  BY DEF ScopeTyped, add_breadcrumb
<1>3. PICK s \in Crumbs : s = Trimmed(Append(heap[scope[c]], crumb))
  <2>1. heap[scope[c]] \in Crumbs  BY <1>1 DEF ScopeTyped
  <2>2. QED  BY <2>1, TrimmedAppended
<1>4. trail[c] \in Crumbs /\ Append(trail[c], crumb) \in Crumbs
  BY DEF ScopeTyped, Crumbs
<1>5. s = Trimmed(Append(trail[c], crumb))
  <2>1. heap[scope[c]] = Trimmed(trail[c])
    BY DEF ScopesDoNotBleed, add_breadcrumb
  <2>2. QED  BY <1>3, <1>4, <2>1, TrimmedAppend
<1>6. /\ trail' = [trail EXCEPT ![c] = Append(trail[c], crumb)]
      /\ sdk' = sdk /\ queued' = queued
  BY <1>2 DEF add_breadcrumb
<1>7. \A e \in Contexts : scope[e] \in 0 .. Len(heap)  BY DEF ScopeTyped
<1>8. CASE sdk = "python"
  <2>1. heap' = Append(heap, s) /\ scope' = [scope EXCEPT ![c] = Len(heap')]
    BY <1>2, <1>3, <1>8 DEF add_breadcrumb, Written
  <2>2. /\ heap' \in Seq(Crumbs) /\ Len(heap') = Len(heap) + 1
        /\ heap'[Len(heap) + 1] = s
        /\ \A k \in 1 .. Len(heap) : heap'[k] = heap[k]
        /\ scope \in [Contexts -> 0 .. Len(heap) + 1]
        /\ queued \in Seq([crumbs : 1 .. Len(heap) + 1, trail : Crumbs])
        /\ \A n \in DOMAIN queued : queued[n].crumbs \in 1 .. Len(heap)
    BY <2>1, HeapGrows
  <2>3. scope' = [scope EXCEPT ![c] = Len(heap) + 1]  BY <2>1, <2>2
  <2>4. ScopeTyped'
    BY <1>1, <1>2, <1>4, <1>6, <2>2, <2>3 DEF ScopeTyped
  <2>5. Unshared'  BY <1>6, <1>8 DEF Unshared
  <2>6. \A e \in Contexts : scope'[e] # 0 => heap'[scope'[e]] = Trimmed(trail'[e])
    <3> SUFFICES ASSUME NEW e \in Contexts, scope'[e] # 0
                 PROVE  heap'[scope'[e]] = Trimmed(trail'[e])
      OBVIOUS
    <3>1. CASE e = c
      <4>1. scope'[e] = Len(heap) + 1 /\ trail'[e] = Append(trail[c], crumb)
        BY <1>6, <2>3, <3>1 DEF ScopeTyped
      <4>2. QED  BY <1>5, <2>2, <4>1
    <3>2. CASE e # c
      <4>1. scope'[e] = scope[e] /\ trail'[e] = trail[e]
        BY <1>6, <2>3, <3>2 DEF ScopeTyped
      <4>2. scope[e] \in 1 .. Len(heap)  BY <1>1, <1>7, <4>1
      <4>3. heap[scope[e]] = Trimmed(trail[e])  BY <4>1 DEF ScopesDoNotBleed, Started
      <4>4. QED  BY <2>2, <4>1, <4>2, <4>3
    <3>3. QED  BY <3>1, <3>2
  <2>7. \A n \in DOMAIN queued : heap'[queued[n].crumbs] = Trimmed(queued[n].trail)
    BY <2>2 DEF ScopesDoNotBleed
  <2>8. ScopesDoNotBleed'  BY <1>6, <2>6, <2>7 DEF ScopesDoNotBleed, Started
  <2>9. QED  BY <2>4, <2>5, <2>8
<1>9. CASE sdk = "node"
  <2>1. heap' = [heap EXCEPT ![scope[c]] = s] /\ scope' = scope
    BY <1>2, <1>3, <1>9 DEF add_breadcrumb, Written
  <2>2. /\ heap' \in Seq(Crumbs) /\ Len(heap') = Len(heap)
        /\ heap'[scope[c]] = s
        /\ \A k \in 1 .. Len(heap) : k # scope[c] => heap'[k] = heap[k]
    BY <1>1, <2>1 DEF ScopeTyped
  <2>3. ScopeTyped'
    BY <1>1, <1>2, <1>4, <1>6, <2>1, <2>2 DEF ScopeTyped
  <2>4. Unshared'  BY <1>6, <2>1 DEF Unshared, Started
  <2>5. /\ \A e \in Contexts : e # c => scope[e] # scope[c]
        /\ \A n \in DOMAIN queued : queued[n].crumbs # scope[c]
    BY <1>1, <1>9 DEF Unshared, Started
  <2>6. \A n \in DOMAIN queued : queued[n].crumbs \in 1 .. Len(heap)
    BY <1>3, HeapGrows
  <2>7. ScopesDoNotBleed'
    BY <1>1, <1>5, <1>6, <1>7, <2>1, <2>2, <2>5, <2>6
       DEF ScopesDoNotBleed, Started, ScopeTyped
  <2>8. QED  BY <2>3, <2>4, <2>7
<1>10. QED  BY <1>8, <1>9 DEF ScopeTyped

LEMMA EventCaptured ==
    ASSUME ScopeTyped, Unshared, ScopesDoNotBleed, NEW c \in Contexts, capture(c)
    PROVE  (ScopeTyped /\ Unshared /\ ScopesDoNotBleed)'
<1>1. scope[c] \in 1 .. Len(heap) /\ Len(heap) \in Nat
  BY DEF ScopeTyped, capture, Started
<1>2. PICK s \in Crumbs : s = heap[scope[c]]  BY <1>1 DEF ScopeTyped
<1>3. heap' = Append(heap, s) /\ s = Trimmed(trail[c])
  BY <1>2 DEF capture, ScopesDoNotBleed
<1>4. /\ heap' \in Seq(Crumbs) /\ Len(heap') = Len(heap) + 1
      /\ heap'[Len(heap) + 1] = s
      /\ \A k \in 1 .. Len(heap) : heap'[k] = heap[k]
      /\ scope \in [Contexts -> 0 .. Len(heap) + 1]
      /\ queued \in Seq([crumbs : 1 .. Len(heap) + 1, trail : Crumbs])
      /\ \A n \in DOMAIN queued : queued[n].crumbs \in 1 .. Len(heap)
  BY <1>3, HeapGrows
<1>5. PICK e : e = [crumbs |-> Len(heap) + 1, trail |-> trail[c]]  OBVIOUS
<1>6. /\ e \in [crumbs : 1 .. Len(heap) + 1, trail : Crumbs]
      /\ e.crumbs = Len(heap) + 1 /\ e.trail = trail[c]
  BY <1>1, <1>5 DEF ScopeTyped
<1>7. queued' = Append(queued, e) /\ sdk' = sdk /\ scope' = scope /\ trail' = trail /\ added' = added
  BY <1>4, <1>5 DEF capture
<1>8. /\ queued' \in Seq([crumbs : 1 .. Len(heap) + 1, trail : Crumbs])
      /\ \A n \in DOMAIN queued' : (n \in DOMAIN queued /\ queued'[n] = queued[n]) \/ queued'[n] = e
  <2> DEFINE T == [crumbs : 1 .. Len(heap) + 1, trail : Crumbs]
  <2>1. queued \in Seq(T) /\ e \in T  BY <1>4, <1>6
  <2> HIDE DEF T
  <2>2. /\ Append(queued, e) \in Seq(T)
        /\ \A n \in DOMAIN Append(queued, e) :
              (n \in DOMAIN queued /\ Append(queued, e)[n] = queued[n]) \/ Append(queued, e)[n] = e
    BY <2>1
  <2>3. QED  BY <1>7, <2>2 DEF T
<1>9. ScopeTyped'  BY <1>4, <1>7, <1>8 DEF ScopeTyped
<1>10. \A d \in Contexts : scope[d] \in 0 .. Len(heap)  BY DEF ScopeTyped
<1>11. Unshared'
  <2>1. \A d \in Contexts : scope[d] # Len(heap) + 1  BY <1>1, <1>10
  <2>2. QED  BY <1>6, <1>7, <1>8, <2>1 DEF Unshared, Started
<1>12. ScopesDoNotBleed'
  <2>1. \A d \in Contexts : Started(d) => heap'[scope[d]] = Trimmed(trail[d])
    BY <1>1, <1>4, <1>10 DEF ScopesDoNotBleed, Started
  <2>2. heap'[e.crumbs] = Trimmed(e.trail)  BY <1>3, <1>4, <1>6
  <2>3. \A n \in DOMAIN queued : heap'[queued[n].crumbs] = Trimmed(queued[n].trail)
    BY <1>4 DEF ScopesDoNotBleed
  <2>4. QED  BY <1>7, <1>8, <2>1, <2>2, <2>3 DEF ScopesDoNotBleed, Started
<1>13. QED  BY <1>9, <1>11, <1>12

\* "Concurrent requests must not bleed context into each other": what a context sees and
\* what an event carries is the newest of what that context inherited and added, for any
\* number of contexts that start from one another in any order.
THEOREM ScopesDoNotBleedHolds == ScopeSpec => []ScopesDoNotBleed
<1> DEFINE Inv == ScopeTyped /\ Unshared /\ ScopesDoNotBleed
<1>1. ScopeInit => Inv  BY ScopeStarts
<1>2. Inv /\ [ScopeNext]_scopeVars => Inv'
  <2> SUFFICES ASSUME ScopeTyped, Unshared, ScopesDoNotBleed, [ScopeNext]_scopeVars
               PROVE  (ScopeTyped /\ Unshared /\ ScopesDoNotBleed)'
    OBVIOUS
  <2>1. CASE \E c, d \in Contexts : CopyContext(c, d)  BY <2>1, ScopeCopied
  <2>2. CASE \E c, d \in Contexts : runInScope(c, d)  BY <2>2, ScopeForked
  <2>3. CASE \E c \in Contexts : add_breadcrumb(c)  BY <2>3, CrumbAdded
  <2>4. CASE \E c \in Contexts : capture(c)  BY <2>4, EventCaptured
  <2>5. CASE UNCHANGED scopeVars
    BY <2>5 DEF scopeVars, ScopeTyped, Unshared, ScopesDoNotBleed, Started
  <2>6. QED  BY <2>1, <2>2, <2>3, <2>4, <2>5 DEF ScopeNext
<1>3. QED  BY <1>1, <1>2, PTL DEF ScopeSpec

-----------------------------------------------------------------------------
(* Sequences of handlers.                                                  *)

LEMMA Pushed ==
    ASSUME NEW S, NEW s \in Seq(S), NEW h \in S
    PROVE  /\ <<h>> \o s \in Seq(S) /\ Len(<<h>> \o s) = Len(s) + 1
           /\ (<<h>> \o s)[1] = h
           /\ \A k \in 1 .. Len(s) : (<<h>> \o s)[k + 1] = s[k]
OBVIOUS

\* What is behind an entry is what was behind it.
LEMMA PushedRest ==
    ASSUME NEW S, NEW s \in Seq(S), NEW h \in S, NEW k \in 1 .. Len(s)
    PROVE  SubSeq(<<h>> \o s, k + 1, Len(<<h>> \o s)) = SubSeq(s, k, Len(s))
<1>1. PICK t : t = <<h>> \o s  OBVIOUS
<1>2. /\ t \in Seq(S) /\ Len(t) = Len(s) + 1 /\ Len(s) \in Nat
      /\ \A n \in 1 .. Len(s) : t[n + 1] = s[n]
  BY <1>1, Pushed
<1>3. PICK l : l = SubSeq(t, k + 1, Len(t))  OBVIOUS
<1>4. PICK r : r = SubSeq(s, k, Len(s))  OBVIOUS
<1>5. /\ l \in Seq(S) /\ Len(l) = Len(s) - k + 1
      /\ \A n \in 1 .. Len(s) - k + 1 : l[n] = t[k + n]
  BY <1>2, <1>3
<1>6. /\ r \in Seq(S) /\ Len(r) = Len(s) - k + 1
      /\ \A n \in 1 .. Len(s) - k + 1 : r[n] = s[k + n - 1]
  BY <1>4
<1>7. ASSUME NEW n \in 1 .. Len(s) - k + 1  PROVE l[n] = r[n]
  <2>1. k + n - 1 \in 1 .. Len(s) /\ (k + n - 1) + 1 = k + n  BY <1>2
  <2>2. QED  BY <1>2, <1>5, <1>6, <2>1
<1>8. l = r  BY <1>5, <1>6, <1>7
<1>9. QED  BY <1>1, <1>3, <1>4, <1>8

LEMMA TakenOut ==
    ASSUME NEW S, NEW s \in Seq(S), NEW n \in DOMAIN s
    PROVE  /\ RemoveAt(s, n) \in Seq(S) /\ Len(RemoveAt(s, n)) = Len(s) - 1
           /\ \A k \in 1 .. Len(s) - 1 : RemoveAt(s, n)[k] = IF k < n THEN s[k] ELSE s[k + 1]
<1> DEFINE front == SubSeq(s, 1, n - 1)
           back == SubSeq(s, n + 1, Len(s))
<1>1. n \in Nat /\ Len(s) \in Nat /\ n >= 1 /\ n <= Len(s)  OBVIOUS
<1>2. /\ front \in Seq(S) /\ Len(front) = n - 1
      /\ \A k \in 1 .. n - 1 : front[k] = s[k]
  BY <1>1
<1>3. /\ back \in Seq(S) /\ Len(back) = Len(s) - n
      /\ \A k \in 1 .. Len(s) - n : back[k] = s[n + k]
  BY <1>1
<1>4. RemoveAt(s, n) = front \o back  BY DEF RemoveAt
<1> HIDE DEF front, back
<1>5. QED
  <2>1. /\ front \o back \in Seq(S) /\ Len(front \o back) = Len(s) - 1
    BY <1>1, <1>2, <1>3
  <2>2. ASSUME NEW k \in 1 .. Len(s) - 1
        PROVE  (front \o back)[k] = IF k < n THEN s[k] ELSE s[k + 1]
    <3>1. CASE k < n  BY <1>1, <1>2, <1>3, <3>1
    <3>2. CASE ~ (k < n)
      <4>1. (front \o back)[k] = back[k - (n - 1)]
        BY <1>1, <1>2, <1>3, <3>2, SMTT(20)
      <4>2. k - (n - 1) \in 1 .. Len(s) - n /\ n + (k - (n - 1)) = k + 1
        BY <1>1, <3>2
      <4>3. QED  BY <1>3, <3>2, <4>1, <4>2
    <3>3. QED  BY <3>1, <3>2
  <2>3. QED  BY <1>4, <2>1, <2>2

-----------------------------------------------------------------------------
(* Handlers.                                                               *)

Handlers ==
    {h \in [by : Others \cup {Sdk}, client : Nat] : h.by # Sdk => h.client = 0}

LEMMA HandlersTold ==
    /\ Sdk \notin Others
    /\ \A c \in Nat : Own(c) \in Handlers /\ Own(c).by = Sdk /\ Own(c).client = c
    /\ \A o \in Others : Other(o) \in Handlers /\ Other(o).by = o
    /\ \A h \in Handlers :
          \/ h.by = Sdk /\ h = Own(h.client) /\ h.client \in Nat
          \/ h.by \in Others /\ h = Other(h.by)
<1>1. Sdk \notin Others  BY HooksAssumption DEF Sdk
<1> DEFINE Records == [by : Others \cup {Sdk}, client : Nat]
<1>2. \A c \in Nat : Own(c) \in Handlers /\ Own(c).by = Sdk /\ Own(c).client = c
  BY DEF Handlers, Own
<1>3. \A o \in Others : Other(o) \in Handlers /\ Other(o).by = o
  BY DEF Handlers, Other
<1>4. ASSUME NEW h \in Handlers
      PROVE  \/ h.by = Sdk /\ h = Own(h.client) /\ h.client \in Nat
             \/ h.by \in Others /\ h = Other(h.by)
  <2>1. h \in Records /\ (h.by # Sdk => h.client = 0)  BY DEF Handlers
  <2>2. h = [by |-> h.by, client |-> h.client]  BY <2>1
  <2>3. h.by \in Others \cup {Sdk} /\ h.client \in Nat  BY <2>1
  <2>4. QED  BY <2>1, <2>2, <2>3 DEF Own, Other
<1>5. QED  BY <1>1, <1>2, <1>3, <1>4

HooksTyped ==
    /\ runtime \in {"python", "browser", "node"}
    /\ slot \in Seq(Handlers)
    /\ DOMAIN replaced \subseteq Others \cup {Sdk}
    /\ \A by \in DOMAIN replaced : replaced[by] \in Seq(Handlers)
    /\ made \in Nat /\ default \in 0 .. made /\ hooked \in 0 .. made
    /\ closed \subseteq 1 .. made
    /\ intact \in BOOLEAN

NoneTwice(chain) == \A m, n \in DOMAIN chain : chain[m] = chain[n] => m = n

\* Python's hooks are those of one client for good and Node's those of the client that
\* is there; a browser's chains still hold the handlers of clients closed since.
Known(chain) ==
    \A n \in DOMAIN chain : chain[n].by = Sdk =>
        /\ chain[n].client \in 1 .. made
        /\ runtime # "browser" => chain[n].client = hooked

Clients ==
    /\ runtime # "python" => hooked \in {0, default}
    /\ runtime = "browser" => hooked = default /\ 1 .. made \subseteq closed \cup {default}

Chains ==
    /\ NoneTwice(slot) /\ Known(slot)
    /\ \A by \in DOMAIN replaced : NoneTwice(replaced[by]) /\ Known(replaced[by])
    /\ runtime = "node" => DOMAIN replaced = {}

\* Over the handler that init put in the slot there are only handlers that pass a crash
\* on, each of which would put back just what is under it.
Covered(n) ==
    \A k \in 1 .. n - 1 :
        /\ slot[k].by \in Chaining /\ slot[k].by \in DOMAIN replaced
        /\ replaced[slot[k].by] = SubSeq(slot, k + 1, Len(slot))

Uncovered ==
    /\ runtime = "node" /\ hooked # 0 => Listens(Own(hooked))
    /\ runtime # "node" /\ hooked # 0 =>
        /\ Sdk \in DOMAIN replaced
        /\ intact => \E n \in DOMAIN slot : slot[n] = Own(hooked) /\ Covered(n)

HooksInv == HooksTyped /\ Clients /\ Chains /\ Uncovered

\* A handler more on top, or at the end of the list, is not there already.
LEMMA PushedOnce ==
    ASSUME NEW s \in Seq(Handlers), NoneTwice(s), NEW h \in Handlers,
           \A n \in DOMAIN s : s[n] # h
    PROVE  /\ NoneTwice(<<h>> \o s)
           /\ NoneTwice(Append(s, h))
<1>1. Len(s) \in Nat  OBVIOUS
<1>2. PICK t : t = <<h>> \o s  OBVIOUS
<1>3. /\ t \in Seq(Handlers) /\ Len(t) = Len(s) + 1 /\ t[1] = h
      /\ \A k \in 1 .. Len(s) : t[k + 1] = s[k]
  BY <1>2, Pushed
<1>4. \A k \in DOMAIN t : k = 1 \/ (k - 1 \in DOMAIN s /\ t[k] = s[k - 1])
  <2> SUFFICES ASSUME NEW k \in DOMAIN t, k # 1
               PROVE  k - 1 \in DOMAIN s /\ t[k] = s[k - 1]
    OBVIOUS
  <2>1. k - 1 \in 1 .. Len(s) /\ (k - 1) + 1 = k  BY <1>1, <1>3
  <2>2. QED  BY <1>3, <2>1
<1>5. NoneTwice(t)
  <2> SUFFICES ASSUME NEW m \in DOMAIN t, NEW n \in DOMAIN t, t[m] = t[n]  PROVE m = n
    BY DEF NoneTwice
  <2>1. m \in Int /\ n \in Int  BY <1>3
  <2>2. QED  BY <1>3, <1>4, <2>1 DEF NoneTwice
<1>6. NoneTwice(Append(s, h))
  BY <1>1 DEF NoneTwice
<1>7. QED  BY <1>2, <1>5, <1>6

\* What is left when a handler is taken out of Node's list.
LEMMA OneTakenOut ==
    ASSUME HooksTyped, NoneTwice(slot), NEW h
    PROVE  LET left == Without(h) IN
           /\ left \in Seq(Handlers) /\ NoneTwice(left)
           /\ \A n \in DOMAIN left : \E m \in DOMAIN slot : left[n] = slot[m] /\ slot[m] # h
           /\ \A m \in DOMAIN slot : slot[m] # h => \E n \in DOMAIN left : left[n] = slot[m]
<1>1. slot \in Seq(Handlers) /\ Len(slot) \in Nat /\ DOMAIN slot = 1 .. Len(slot)
  BY DEF HooksTyped
<1>2. CASE ~Listens(h)
  <2>1. Without(h) = slot /\ \A n \in DOMAIN slot : slot[n] # h
    BY <1>2 DEF Without, Listens
  <2>2. QED  BY <1>1, <2>1
<1>3. CASE Listens(h)
  <2>1. PICK n \in DOMAIN slot : n = CHOOSE m \in DOMAIN slot : slot[m] = h
    BY <1>3 DEF Listens
  <2>2. slot[n] = h  BY <1>3, <2>1 DEF Listens
  <2>3. PICK left : left = RemoveAt(slot, n)  OBVIOUS
  <2>4. Without(h) = left  BY <1>3, <2>1, <2>3 DEF Without
  <2>5. /\ left \in Seq(Handlers) /\ Len(left) = Len(slot) - 1
        /\ \A k \in 1 .. Len(slot) - 1 : left[k] = IF k < n THEN slot[k] ELSE slot[k + 1]
    BY <1>1, <2>3, TakenOut
  <2> DEFINE From(k) == IF k < n THEN k ELSE k + 1
             To(m) == IF m < n THEN m ELSE m - 1
  <2>6. n \in 1 .. Len(slot) /\ DOMAIN left = 1 .. Len(slot) - 1
    BY <1>1, <2>5
  <2>7. \A k \in DOMAIN left : From(k) \in DOMAIN slot /\ From(k) # n /\ left[k] = slot[From(k)]
    BY <1>1, <2>5, <2>6
  <2>8. \A m \in DOMAIN slot : m # n => To(m) \in DOMAIN left /\ From(To(m)) = m
    BY <1>1, <2>6
  <2>9. \A j, k \in DOMAIN left : From(j) = From(k) => j = k
    BY <1>1, <2>6
  <2> HIDE DEF From, To
  <2>10. NoneTwice(left)  BY <2>7, <2>9 DEF NoneTwice
  <2>11. \A k \in DOMAIN left : slot[From(k)] # h
    BY <2>2, <2>7 DEF NoneTwice
  <2>12. \A m \in DOMAIN slot : slot[m] # h => left[To(m)] = slot[m] /\ To(m) \in DOMAIN left
    BY <2>2, <2>7, <2>8
  <2>13. QED  BY <2>4, <2>5, <2>7, <2>10, <2>11, <2>12
<1>4. QED  BY <1>2, <1>3

LEMMA HooksStart == HooksInit => HooksInv
<1> SUFFICES ASSUME HooksInit  PROVE HooksInv
  OBVIOUS
<1>1. <<>> \in Seq(Handlers) /\ DOMAIN <<>> = {}  OBVIOUS
<1>2. slot = <<>> /\ DOMAIN replaced = {} /\ made = 0 /\ default = 0 /\ hooked = 0 /\ closed = {}
  BY <1>1 DEF HooksInit
<1>3. HooksTyped  BY <1>1, <1>2 DEF HooksInit, HooksTyped
<1>4. Clients  BY <1>2 DEF Clients
<1>5. Chains  BY <1>1, <1>2 DEF Chains, NoneTwice, Known
<1>6. Uncovered  BY <1>2 DEF Uncovered
<1>7. QED  BY <1>3, <1>4, <1>5, <1>6 DEF HooksInv

\* Steps that leave the handlers alone.
LEMMA HandlersStay ==
    ASSUME HooksInv, HooksTyped', Clients', UNCHANGED <<runtime, slot, replaced, hooked, intact>>,
           made' >= made
    PROVE  HooksInv'
<1>1. made \in Nat /\ made' \in Nat  BY DEF HooksInv, HooksTyped
<1>2. \A client \in 1 .. made : client \in 1 .. made'  BY <1>1
<1>3. Chains'
  BY <1>2 DEF HooksInv, Chains, Known, NoneTwice
<1>4. Uncovered'
  BY DEF HooksInv, Uncovered, Covered, Listens
<1>5. QED  BY <1>3, <1>4 DEF HooksInv

\* What a handler that is put over others keeps, and what the others kept.
LEMMA PutKeeps ==
    ASSUME NEW by, NEW h, Put(by, h), runtime # "node"
    PROVE  /\ slot' = <<h>> \o slot
           /\ DOMAIN replaced' = DOMAIN replaced \cup {by}
           /\ replaced'[by] = slot
           /\ \A other \in DOMAIN replaced : other # by => replaced'[other] = replaced[other]
BY DEF Put

\* init puts the SDK's handler where there is none of an open client.
LEMMA HandlerInstalled ==
    ASSUME HooksInv, made' = made + 1, default' = made', hooked' = made', intact' = TRUE,
           UNCHANGED <<runtime, closed>>, Put(Sdk, Own(made')),
           IF runtime = "browser" THEN default = 0 ELSE hooked = 0
    PROVE  HooksInv'
<1> USE DEF HooksInv
<1>1. made \in Nat /\ made' \in Nat /\ made' \in 1 .. made' /\ made' # 0
  BY DEF HooksTyped
<1>2. PICK h : h = Own(made')  OBVIOUS
<1>3. h \in Handlers /\ h.by = Sdk /\ h.client = made'
  BY <1>1, <1>2, HandlersTold
<1>4. slot \in Seq(Handlers) /\ NoneTwice(slot)
  BY DEF HooksTyped, Chains
<1>5. /\ \A n \in DOMAIN slot : slot[n].by = Sdk => slot[n].client \in 1 .. made
      /\ \A by \in DOMAIN replaced : \A n \in DOMAIN replaced[by] :
            replaced[by][n].by = Sdk => replaced[by][n].client \in 1 .. made
  BY DEF Chains, Known
<1>6. \A n \in DOMAIN slot : slot[n] # h
  BY <1>1, <1>3, <1>5
<1>7. NoneTwice(<<h>> \o slot) /\ NoneTwice(Append(slot, h))
  BY <1>3, <1>4, <1>6, PushedOnce
<1>8. runtime # "browser" =>
        /\ \A n \in DOMAIN slot : slot[n].by # Sdk
        /\ \A by \in DOMAIN replaced : \A n \in DOMAIN replaced[by] : replaced[by][n].by # Sdk
  BY <1>1, <1>5 DEF Chains, Known
<1>9. Clients'
  BY <1>1 DEF Clients
<1>10. \A client \in 1 .. made : client \in 1 .. made'  BY <1>1
<1>11. CASE runtime = "node"
  <2>1. slot' = Append(slot, h) /\ replaced' = replaced  BY <1>2, <1>11 DEF Put
  <2>2. /\ slot' \in Seq(Handlers) /\ Len(slot') = Len(slot) + 1 /\ slot'[Len(slot) + 1] = h
        /\ \A n \in DOMAIN slot' : slot'[n] = h \/ (n \in DOMAIN slot /\ slot'[n] = slot[n])
    BY <1>3, <1>4, <2>1
  <2>3. HooksTyped'
    BY <1>1, <2>1, <2>2 DEF HooksTyped
  <2>4. Known(slot)'
    BY <1>1, <1>3, <1>8, <1>11, <2>2 DEF Known
  <2>5. Chains'
    BY <1>7, <1>11, <2>1, <2>4 DEF Chains, NoneTwice
  <2>6. Uncovered'
    <3>1. Len(slot) + 1 \in DOMAIN slot'  BY <1>4, <2>2
    <3>2. QED  BY <1>2, <1>11, <2>2, <3>1 DEF Uncovered, Listens
  <2>7. QED  BY <1>9, <2>3, <2>5, <2>6
<1>12. CASE runtime # "node"
  <2>1. /\ slot' = <<h>> \o slot
        /\ DOMAIN replaced' = DOMAIN replaced \cup {Sdk}
        /\ replaced'[Sdk] = slot
        /\ \A other \in DOMAIN replaced : other # Sdk => replaced'[other] = replaced[other]
    BY <1>2, <1>12, PutKeeps
  <2>2. /\ slot' \in Seq(Handlers) /\ Len(slot') = Len(slot) + 1 /\ slot'[1] = h
        /\ \A k \in 1 .. Len(slot) : slot'[k + 1] = slot[k]
    BY <1>3, <1>4, <2>1, Pushed
  <2>3. \A n \in DOMAIN slot' : slot'[n] = h \/ (\E m \in DOMAIN slot : slot'[n] = slot[m])
    <3> SUFFICES ASSUME NEW n \in DOMAIN slot', n # 1
                 PROVE  \E m \in DOMAIN slot : slot'[n] = slot[m]
      BY <2>2
    <3>1. n - 1 \in 1 .. Len(slot) /\ (n - 1) + 1 = n  BY <1>4, <2>2
    <3>2. QED  BY <1>4, <2>2, <3>1
  <2>4. HooksTyped'
    BY <1>1, <1>4, <2>1, <2>2 DEF HooksTyped
  <2>5. Known(slot)'
    BY <1>1, <1>3, <1>5, <1>8, <1>10, <2>3 DEF Known
  <2>6. ASSUME NEW by \in DOMAIN replaced'
        PROVE  (NoneTwice(replaced[by]) /\ Known(replaced[by]))'
    <3>1. replaced'[by] = slot \/ (by \in DOMAIN replaced /\ replaced'[by] = replaced[by])
      BY <2>1, <2>6
    <3>2. CASE replaced'[by] = slot
      BY <1>4, <1>5, <1>8, <1>10, <3>2 DEF NoneTwice, Known
    <3>3. CASE by \in DOMAIN replaced /\ replaced'[by] = replaced[by]
      BY <1>5, <1>8, <1>10, <3>3 DEF NoneTwice, Known, Chains
    <3>4. QED  BY <3>1, <3>2, <3>3
  <2>7. Chains'
    BY <1>7, <1>12, <2>1, <2>5, <2>6 DEF Chains, NoneTwice
  <2>8. Uncovered'
    <3>1. 1 \in DOMAIN slot' /\ Covered(1)'  BY <1>4, <2>2 DEF Covered
    <3>2. QED  BY <1>2, <1>12, <2>1, <2>2, <3>1 DEF Uncovered
  <2>9. QED  BY <1>9, <2>4, <2>7, <2>8
<1>13. QED  BY <1>11, <1>12

LEMMA JsCloses ==
    ASSUME HooksInv, close_js
    PROVE  HooksInv'
<1> USE DEF HooksInv
<1>1. /\ made' = made /\ default' = 0 /\ hooked' = 0
      /\ runtime' = runtime /\ replaced' = replaced /\ intact' = intact
      /\ runtime # "python" /\ default # 0 /\ hooked \in {0, default}
  BY DEF close_js, Clients
<1>2. closed' \subseteq 1 .. made
  BY <1>1 DEF close_js, HooksTyped
<1>3. Clients'
  BY <1>1 DEF close_js, Clients
<1>4. Uncovered'  BY <1>1 DEF Uncovered
<1>5. CASE runtime = "node"
  <2>1. /\ slot' \in Seq(Handlers) /\ NoneTwice(slot')
        /\ \A n \in DOMAIN slot' : slot'[n].by # Sdk
    <3>1. \A n \in DOMAIN slot : slot[n].by = Sdk => slot[n] = Own(hooked) /\ hooked # 0
      <4> SUFFICES ASSUME NEW n \in DOMAIN slot, slot[n].by = Sdk
                   PROVE  slot[n] = Own(hooked) /\ hooked # 0
        OBVIOUS
      <4>1. slot[n] \in Handlers  BY DEF HooksTyped
      <4>2. slot[n].client = hooked /\ hooked \in 1 .. made
        BY <1>5 DEF Chains, Known
      <4>3. slot[n] = Own(slot[n].client)  BY <4>1, HandlersTold
      <4>4. QED  BY <4>2, <4>3 DEF HooksTyped
    <3>2. CASE hooked = default
      <4>1. slot' = Without(Own(default))  BY <1>5, <3>2 DEF close_js, PutBack
      <4>2. PICK h : h = Own(default)  OBVIOUS
      <4>3. NoneTwice(slot)  BY DEF Chains
      <4>4. /\ slot' \in Seq(Handlers) /\ NoneTwice(slot')
            /\ \A n \in DOMAIN slot' : \E m \in DOMAIN slot : slot'[n] = slot[m] /\ slot[m] # h
        BY <4>1, <4>2, <4>3, OneTakenOut
      <4>5. QED  BY <3>1, <3>2, <4>2, <4>4
    <3>3. CASE hooked # default
      <4>1. hooked = 0 /\ slot' = slot  BY <1>1, <3>3 DEF close_js
      <4>2. QED  BY <3>1, <4>1 DEF HooksTyped, Chains
    <3>4. QED  BY <3>2, <3>3
  <2>2. HooksTyped'  BY <1>1, <1>2, <2>1 DEF HooksTyped
  <2>3. DOMAIN replaced = {}  BY <1>5 DEF Chains
  <2>4. Chains'  BY <1>1, <2>1, <2>3 DEF Chains, NoneTwice, Known
  <2>5. QED  BY <1>3, <1>4, <2>2, <2>4
<1>6. CASE runtime = "browser"
  <2>1. hooked = default /\ hooked # 0  BY <1>1, <1>6 DEF Clients
  <2>2. Sdk \in DOMAIN replaced /\ slot' = replaced[Sdk]
    BY <1>6, <2>1 DEF Uncovered, close_js, PutBack
  <2>3. HooksTyped'  BY <1>1, <1>2, <2>2 DEF HooksTyped
  <2>4. Chains'
    BY <1>1, <1>6, <2>2 DEF Chains, NoneTwice, Known
  <2>5. QED  BY <1>3, <1>4, <2>3, <2>4
<1>7. QED  BY <1>1, <1>5, <1>6 DEF HooksTyped

LEMMA OtherInstalled ==
    ASSUME HooksInv, NEW o \in Others, Install(o)
    PROVE  HooksInv'
<1> USE DEF HooksInv
<1>1. /\ runtime' = runtime /\ default' = default /\ hooked' = hooked
      /\ made' = made /\ closed' = closed
      /\ o \notin DOMAIN replaced
      /\ intact' = (intact /\ (runtime = "node" \/ o \in Chaining))
  BY DEF Install
<1>2. PICK h : h = Other(o)  OBVIOUS
<1>3. h \in Handlers /\ h.by = o /\ o # Sdk  BY <1>2, HandlersTold
<1>4. Put(o, h) /\ \A n \in DOMAIN slot : slot[n] # h
  BY <1>2 DEF Install, Listens
<1>5. slot \in Seq(Handlers) /\ NoneTwice(slot)  BY DEF HooksTyped, Chains
<1>6. NoneTwice(<<h>> \o slot) /\ NoneTwice(Append(slot, h))
  BY <1>3, <1>4, <1>5, PushedOnce
<1>7. Clients'  BY <1>1 DEF Clients
<1>8. CASE runtime = "node"
  <2>1. slot' = Append(slot, h) /\ replaced' = replaced  BY <1>4, <1>8 DEF Put
  <2>2. /\ slot' \in Seq(Handlers)
        /\ \A n \in DOMAIN slot' : slot'[n] = h \/ (n \in DOMAIN slot /\ slot'[n] = slot[n])
        /\ \A n \in DOMAIN slot : n \in DOMAIN slot' /\ slot'[n] = slot[n]
    BY <1>3, <1>5, <2>1
  <2>3. HooksTyped'  BY <1>1, <2>1, <2>2 DEF HooksTyped
  <2>4. Chains'
    BY <1>1, <1>3, <1>6, <1>8, <2>1, <2>2 DEF Chains, NoneTwice, Known
  <2>5. Uncovered'
    BY <1>1, <1>8, <2>2 DEF Uncovered, Listens
  <2>6. QED  BY <1>7, <2>3, <2>4, <2>5
<1>9. CASE runtime # "node"
  <2>1. /\ slot' = <<h>> \o slot
        /\ DOMAIN replaced' = DOMAIN replaced \cup {o}
        /\ replaced'[o] = slot
        /\ \A other \in DOMAIN replaced : other # o => replaced'[other] = replaced[other]
    BY <1>4, <1>9, PutKeeps
  <2>2. /\ slot' \in Seq(Handlers) /\ Len(slot') = Len(slot) + 1 /\ slot'[1] = h
        /\ \A k \in 1 .. Len(slot) : slot'[k + 1] = slot[k]
    BY <1>3, <1>5, <2>1, Pushed
  <2>3. \A n \in DOMAIN slot' : slot'[n] = h \/ (\E m \in DOMAIN slot : slot'[n] = slot[m])
    <3> SUFFICES ASSUME NEW n \in DOMAIN slot', n # 1
                 PROVE  \E m \in DOMAIN slot : slot'[n] = slot[m]
      BY <2>2
    <3>1. n - 1 \in 1 .. Len(slot) /\ (n - 1) + 1 = n  BY <1>5, <2>2
    <3>2. QED  BY <1>5, <2>2, <3>1
  <2>4. HooksTyped'
    BY <1>1, <1>5, <2>1, <2>2 DEF HooksTyped
  <2>5. Known(slot)'
    BY <1>1, <1>3, <2>3 DEF Known, Chains
  <2>6. ASSUME NEW by \in DOMAIN replaced'
        PROVE  (NoneTwice(replaced[by]) /\ Known(replaced[by]))'
    <3>1. replaced'[by] = slot \/ (by \in DOMAIN replaced /\ replaced'[by] = replaced[by])
      BY <1>1, <2>1, <2>6
    <3>2. QED  BY <1>1, <3>1 DEF NoneTwice, Known, Chains
  <2>7. Chains'
    BY <1>1, <1>6, <1>9, <2>1, <2>5, <2>6 DEF Chains, NoneTwice
  <2>8. ASSUME intact', hooked # 0
        PROVE  (\E n \in DOMAIN slot : slot[n] = Own(hooked) /\ Covered(n))'
    <3>1. intact /\ o \in Chaining  BY <1>1, <1>9, <2>8 DEF HooksTyped
    <3>2. PICK n \in DOMAIN slot : slot[n] = Own(hooked) /\ Covered(n)
      BY <1>9, <2>8, <3>1 DEF Uncovered
    <3>3. n + 1 \in DOMAIN slot' /\ slot'[n + 1] = Own(hooked)
      BY <1>1, <1>5, <2>2, <3>2
    <3>4. ASSUME NEW k \in 1 .. (n + 1) - 1
          PROVE  /\ slot'[k].by \in Chaining /\ slot'[k].by \in DOMAIN replaced'
                 /\ replaced'[slot'[k].by] = SubSeq(slot', k + 1, Len(slot'))
      <4>1. k \in 1 .. Len(slot)  BY <1>5, <3>2
      <4>2. CASE k = 1
        <5>1. SubSeq(slot', 2, Len(slot')) = slot
          BY <1>3, <1>5, <2>1
        <5>2. QED  BY <1>3, <2>1, <2>2, <3>1, <4>2, <5>1
      <4>3. CASE k # 1
        <5>1. k - 1 \in 1 .. n - 1 /\ (k - 1) + 1 = k /\ k - 1 \in 1 .. Len(slot)
          BY <1>5, <3>2, <4>1, <4>3
        <5>2. slot'[k] = slot[k - 1]  BY <2>2, <5>1
        <5>3. PICK by : by = slot[k - 1].by  OBVIOUS
        <5>4. by \in Chaining /\ by \in DOMAIN replaced /\ replaced[by] = SubSeq(slot, k, Len(slot))
          BY <3>2, <5>1, <5>3 DEF Covered
        <5>5. by # o /\ replaced'[by] = replaced[by] /\ by \in DOMAIN replaced'
          BY <1>1, <2>1, <5>4
        <5>6. SubSeq(slot', k + 1, Len(slot')) = SubSeq(slot, k, Len(slot))
          <6>1. slot' = <<h>> \o slot  BY <2>1
          <6>2. SubSeq(<<h>> \o slot, k + 1, Len(<<h>> \o slot)) = SubSeq(slot, k, Len(slot))
            BY <1>3, <1>5, <4>1, PushedRest
          <6>3. QED  BY <6>1, <6>2
        <5>7. QED  BY <5>2, <5>3, <5>4, <5>5, <5>6
      <4>4. QED  BY <4>2, <4>3
    <3>5. Covered(n + 1)'  BY <3>4 DEF Covered
    <3>6. QED  BY <1>1, <3>3, <3>5
  <2>9. Uncovered'
    BY <1>1, <1>9, <2>1, <2>8 DEF Uncovered
  <2>10. QED  BY <1>7, <2>4, <2>7, <2>9
<1>10. QED  BY <1>8, <1>9

LEMMA OtherUninstalled ==
    ASSUME HooksInv, NEW o \in Others, Uninstall(o)
    PROVE  HooksInv'
<1> USE DEF HooksInv
<1>1. /\ runtime' = runtime /\ default' = default /\ hooked' = hooked
      /\ made' = made /\ closed' = closed
  BY DEF Uninstall
<1>2. PICK h : h = Other(o)  OBVIOUS
<1>3. h \in Handlers /\ h.by = o /\ o # Sdk  BY <1>2, HandlersTold
<1>4. slot \in Seq(Handlers) /\ NoneTwice(slot)  BY DEF HooksTyped, Chains
<1>5. Clients'  BY <1>1 DEF Clients
<1>6. CASE runtime = "node"
  <2>1. slot' = Without(h) /\ replaced' = replaced /\ intact' = intact
    BY <1>2, <1>6 DEF Uninstall, PutBack
  <2>2. /\ slot' \in Seq(Handlers) /\ NoneTwice(slot')
        /\ \A n \in DOMAIN slot' : \E m \in DOMAIN slot : slot'[n] = slot[m] /\ slot[m] # h
        /\ \A m \in DOMAIN slot : slot[m] # h => \E n \in DOMAIN slot' : slot'[n] = slot[m]
    BY <1>4, <2>1, OneTakenOut
  <2>3. HooksTyped'  BY <1>1, <2>1, <2>2 DEF HooksTyped
  <2>4. Chains'
    BY <1>1, <1>6, <2>1, <2>2 DEF Chains, NoneTwice, Known
  <2>5. ASSUME hooked # 0  PROVE Listens(Own(hooked))'
    <3>1. PICK m \in DOMAIN slot : slot[m] = Own(hooked)
      BY <1>6, <2>5 DEF Uncovered, Listens
    <3>2. Own(hooked).by = Sdk  BY HandlersTold DEF HooksTyped
    <3>3. slot[m] # h  BY <1>3, <3>1, <3>2
    <3>4. QED  BY <1>1, <2>2, <3>1, <3>3 DEF Listens
  <2>6. Uncovered'  BY <1>1, <1>6, <2>5 DEF Uncovered
  <2>7. QED  BY <1>5, <2>3, <2>4, <2>6
<1>7. CASE runtime # "node"
  <2>1. /\ o \in DOMAIN replaced /\ slot' = replaced[o]
        /\ replaced' = [by \in DOMAIN replaced \ {o} |-> replaced[by]]
        /\ intact' = (intact /\ slot # <<>> /\ Head(slot) = h)
    BY <1>2, <1>7 DEF Uninstall, PutBack
  <2>2. /\ DOMAIN replaced' = DOMAIN replaced \ {o}
        /\ \A by \in DOMAIN replaced' : replaced'[by] = replaced[by]
    BY <2>1
  <2>3. HooksTyped'
    BY <1>1, <2>1, <2>2 DEF HooksTyped
  <2>4. Chains'
    BY <1>1, <1>7, <2>1, <2>2 DEF Chains, NoneTwice, Known
  <2>5. ASSUME intact', hooked # 0
        PROVE  (\E n \in DOMAIN slot : slot[n] = Own(hooked) /\ Covered(n))'
    <3>1. intact /\ 1 \in DOMAIN slot /\ slot[1] = h
      <4>1. intact /\ slot # <<>> /\ Head(slot) = h  BY <2>1, <2>5 DEF HooksTyped
      <4>2. QED  BY <1>4, <4>1
    <3>2. PICK n \in DOMAIN slot : slot[n] = Own(hooked) /\ Covered(n)
      BY <1>7, <2>5, <3>1 DEF Uncovered
    <3>3. Own(hooked).by = Sdk  BY HandlersTold DEF HooksTyped
    <3>4. n \in Nat /\ n > 1 /\ n <= Len(slot)
      BY <1>3, <1>4, <3>1, <3>2, <3>3
    <3>5. 1 \in 1 .. n - 1  BY <3>4
    <3>6. replaced[o] = SubSeq(slot, 2, Len(slot))
      BY <1>3, <3>1, <3>2, <3>5 DEF Covered
    <3>7. /\ Len(slot') = Len(slot) - 1
          /\ \A k \in 1 .. Len(slot) - 1 : slot'[k] = slot[k + 1]
      BY <1>4, <2>1, <3>4, <3>6
    <3>8. n - 1 \in DOMAIN slot' /\ slot'[n - 1] = Own(hooked)
      <4>1. n - 1 \in 1 .. Len(slot) - 1 /\ (n - 1) + 1 = n  BY <1>4, <3>4
      <4>2. slot' \in Seq(Handlers)  BY <2>3 DEF HooksTyped
      <4>3. QED  BY <3>2, <3>7, <4>1, <4>2
    <3>9. ASSUME NEW k \in 1 .. (n - 1) - 1
          PROVE  /\ slot'[k].by \in Chaining /\ slot'[k].by \in DOMAIN replaced'
                 /\ replaced'[slot'[k].by] = SubSeq(slot', k + 1, Len(slot'))
      <4>1. /\ k \in 1 .. Len(slot) - 1 /\ k + 1 \in 1 .. n - 1
            /\ k + 1 \in DOMAIN slot /\ k + 1 # 1
        BY <1>4, <3>4
      <4>2. slot'[k] = slot[k + 1]  BY <3>7, <4>1
      <4>3. PICK by : by = slot[k + 1].by  OBVIOUS
      <4>4. by \in Chaining /\ by \in DOMAIN replaced
            /\ replaced[by] = SubSeq(slot, (k + 1) + 1, Len(slot))
        BY <3>2, <4>1, <4>3 DEF Covered
      <4>5. by # o
        <5> SUFFICES ASSUME by = o  PROVE FALSE
          OBVIOUS
        <5>1. slot[k + 1] \in Handlers  BY <1>4, <4>1
        <5>2. slot[k + 1] = h  BY <1>2, <1>3, <4>3, <5>1, HandlersTold
        <5>3. QED  BY <1>4, <3>1, <4>1, <5>2 DEF NoneTwice
      <4>6. SubSeq(slot', k + 1, Len(slot')) = SubSeq(slot, (k + 1) + 1, Len(slot))
        BY <1>4, <2>1, <3>4, <3>6, <4>1, SMTT(20)
      <4>7. QED  BY <2>2, <4>2, <4>3, <4>4, <4>5, <4>6
    <3>10. Covered(n - 1)'  BY <3>9 DEF Covered
    <3>11. QED  BY <1>1, <3>8, <3>10
  <2>6. Uncovered'
    BY <1>1, <1>3, <1>7, <2>2, <2>5 DEF Uncovered
  <2>7. QED  BY <1>5, <2>3, <2>4, <2>6
<1>8. QED  BY <1>6, <1>7

LEMMA HooksStep == HooksInv /\ [HooksNext]_hookVars => HooksInv'
<1> SUFFICES ASSUME HooksInv, [HooksNext]_hookVars  PROVE HooksInv'
  OBVIOUS
<1>0. made \in Nat /\ made + 1 \in Nat /\ made + 1 > made /\ made >= made
  BY DEF HooksInv, HooksTyped
<1>1. ASSUME NEW wanted \in BOOLEAN, init_python(wanted)  PROVE HooksInv'
  <2>1. CASE wanted /\ ~Installed
    BY <1>1, <2>1, HandlerInstalled DEF init_python, Installed
  <2>2. CASE ~ (wanted /\ ~Installed)
    <3>1. /\ UNCHANGED <<runtime, slot, replaced, hooked, intact, closed>>
          /\ made' = made + 1 /\ default' = made + 1 /\ runtime = "python"
      BY <1>1, <2>2 DEF init_python
    <3>2. HooksTyped'  BY <1>0, <3>1 DEF HooksInv, HooksTyped
    <3>3. Clients'  BY <3>1 DEF Clients
    <3>4. QED  BY <1>0, <3>1, <3>2, <3>3, HandlersStay
  <2>3. QED  BY <2>1, <2>2
<1>2. ASSUME NEW wanted \in BOOLEAN, init_js(wanted)  PROVE HooksInv'
  <2>1. hooked = 0 /\ default = 0 /\ runtime # "python"
    BY <1>2 DEF init_js, HooksInv, Clients
  <2>2. CASE wanted \/ runtime = "browser"
    <3>1. /\ made' = made + 1 /\ default' = made' /\ hooked' = made' /\ intact' = TRUE
          /\ UNCHANGED <<runtime, closed>> /\ Put(Sdk, Own(made'))
      BY <1>2, <2>2 DEF init_js
    <3>2. QED  BY <2>1, <3>1, HandlerInstalled
  <2>3. CASE ~ (wanted \/ runtime = "browser")
    <3>1. /\ UNCHANGED <<runtime, slot, replaced, hooked, intact, closed>>
          /\ made' = made + 1 /\ default' = made + 1 /\ runtime # "browser"
      BY <1>2, <2>3 DEF init_js
    <3>2. HooksTyped'  BY <1>0, <3>1 DEF HooksInv, HooksTyped
    <3>3. Clients'  BY <2>1, <3>1 DEF Clients
    <3>4. QED  BY <1>0, <3>1, <3>2, <3>3, HandlersStay
  <2>4. QED  BY <2>2, <2>3
<1>3. CASE close_python
  <2>1. /\ UNCHANGED <<runtime, slot, replaced, hooked, intact, made, default>>
        /\ runtime = "python" /\ default # 0 /\ closed' = closed \cup {default}
    BY <1>3 DEF close_python
  <2>2. HooksTyped'  BY <1>0, <2>1 DEF HooksInv, HooksTyped
  <2>3. Clients'  BY <2>1 DEF Clients
  <2>4. QED  BY <1>0, <2>1, <2>2, <2>3, HandlersStay
<1>4. CASE close_js  BY <1>4, JsCloses
<1>5. ASSUME NEW client \in 1 .. MaxClients, CloseEnds(client)  PROVE HooksInv'
  <2>1. /\ UNCHANGED <<runtime, slot, replaced, hooked, intact, made, default>>
        /\ runtime = "node" /\ client \in 1 .. made /\ closed' = closed \cup {client}
    BY <1>5 DEF CloseEnds
  <2>2. HooksTyped'  BY <1>0, <2>1 DEF HooksInv, HooksTyped
  <2>3. Clients'  BY <2>1 DEF HooksInv, Clients
  <2>4. QED  BY <1>0, <2>1, <2>2, <2>3, HandlersStay
<1>6. CASE \E o \in Others : Install(o)  BY <1>6, OtherInstalled
<1>7. CASE \E o \in Others : Uninstall(o)  BY <1>7, OtherUninstalled
<1>8. CASE UNCHANGED hookVars
  BY <1>8 DEF hookVars, HooksInv, HooksTyped, Clients, Chains, NoneTwice, Known, Uncovered,
              Covered, Listens
<1>9. QED
  BY <1>1, <1>2, <1>3, <1>4, <1>5, <1>6, <1>7, <1>8 DEF HooksNext

LEMMA ReportersAreOne == HooksInv => CrashIsReportedOnce
<1> SUFFICES ASSUME HooksInv  PROVE CrashIsReportedOnce
  OBVIOUS
<1> USE DEF HooksInv
<1>1. slot \in Seq(Handlers) /\ NoneTwice(slot) /\ Known(slot)
  BY DEF HooksTyped, Chains
<1>2. ASSUME NEW m \in Reporters, NEW n \in Reporters  PROVE m = n
  <2>1. /\ m \in DOMAIN slot /\ slot[m].by = Sdk /\ slot[m].client \notin closed
        /\ n \in DOMAIN slot /\ slot[n].by = Sdk /\ slot[n].client \notin closed
    BY DEF Reporters
  <2>2. slot[m].client = slot[n].client
    <3>1. /\ slot[m].client \in 1 .. made /\ slot[n].client \in 1 .. made
          /\ runtime # "browser" => slot[m].client = hooked /\ slot[n].client = hooked
      BY <1>1, <2>1 DEF Known
    <3>2. CASE runtime = "browser"
      BY <2>1, <3>1, <3>2 DEF Clients
    <3>3. QED  BY <3>1, <3>2
  <2>3. slot[m] \in Handlers /\ slot[n] \in Handlers  BY <1>1, <2>1
  <2>4. slot[m] = Own(slot[m].client) /\ slot[n] = Own(slot[n].client)
    BY <2>1, <2>3, HandlersTold
  <2>5. QED  BY <1>1, <2>1, <2>2, <2>4 DEF NoneTwice
<1>3. Cardinality(Reporters) <= 1
  <2>1. CASE Reporters = {}
    BY <2>1, FS_EmptySet
  <2>2. CASE Reporters # {}
    <3>1. PICK n : Reporters = {n}  BY <1>2, <2>2
    <3>2. QED  BY <3>1, FS_Singleton
  <2>3. QED  BY <2>1, <2>2
<1>4. ASSUME hooked \notin closed \cup {0}, intact
      PROVE  \E n \in Reporters : slot[n].client = hooked
  <2>1. Own(hooked).by = Sdk /\ Own(hooked).client = hooked
    BY HandlersTold DEF HooksTyped
  <2>2. PICK n \in DOMAIN slot : slot[n] = Own(hooked) /\ (runtime = "node" \/ Covered(n))
    BY <1>4 DEF Uncovered, Listens
  <2>3. Reached(n)  BY <2>2 DEF Reached, Covered
  <2>4. QED  BY <1>4, <2>1, <2>2, <2>3 DEF Reporters
<1>5. QED  BY <1>3, <1>4 DEF CrashIsReportedOnce

\* A crash is reported once at most, and by the client whose handler is installed unless
\* it was closed or covered: whatever the order in which any number of clients and of
\* other libraries put their handlers and take them back.
THEOREM CrashIsReportedOnceHolds == HooksSpec => []CrashIsReportedOnce
<1>1. HooksInit => HooksInv  BY HooksStart
<1>2. HooksInv => CrashIsReportedOnce  BY ReportersAreOne
<1>3. QED  BY <1>1, <1>2, HooksStep, PTL DEF HooksSpec

-----------------------------------------------------------------------------
(* Pages.                                                                  *)

ListTyped ==
    /\ times \in [Rows -> Seq(Nat)]
    /\ \A r \in Rows : \A n \in DOMAIN times[r] : times[r][n] <= clock
    /\ before \in [Rows -> Nat] /\ \A r \in Rows : before[r] <= Len(times[r])
    /\ sort \in {"last_seen", "first_seen", "count"}
    /\ per_page \in Nat \ {0} /\ page \in Nat /\ clock \in Nat
    /\ shown \subseteq Rows

Untouched(r) == before[r] > 0 /\ Len(times[r]) = before[r]

\* The issues listed before another.
Ahead(r) == {s \in Present : Precedes(s, r)}

\* An issue that nothing happened to and that the reader has not seen is still on a page to
\* come: there are as many issues ahead of it as the pages read so far could hold.
StillToCome ==
    page > 0 => \A r \in Rows : Untouched(r) /\ r \notin shown =>
                    Cardinality(Ahead(r)) >= (page - 1) * per_page

ListInv == ListTyped /\ StillToCome /\ UntouchedIsShown

\* A set of numbers that has a bound has a greatest member.
LEMMA GreatestExists ==
    ASSUME NEW n \in Nat, NEW S, S \subseteq 0 .. n, S # {}
    PROVE  \E x \in S : \A y \in S : y <= x
<1> DEFINE back == {n - x : x \in S}
           Less == OpToRel(<, Nat)
<1>1. \A x \in S : x \in Nat /\ x <= n  OBVIOUS
<1>2. \A x \in S : n - x \in Nat  BY <1>1
<1>3. back \subseteq Nat /\ back # {}  BY <1>2
<1>4. PICK b \in back : \A c \in back : ~ (<<c, b>> \in Less)
  <2>1. IsWellFoundedOn(Less, Nat)  BY NatLessThanWellFounded
  <2> HIDE DEF back, Less
  <2>2. QED  BY <1>3, <2>1, WFMin
<1>5. PICK x \in S : b = n - x  BY <1>4
<1>6. ASSUME NEW y \in S  PROVE y <= x
  <2>1. ~ (<<n - y, b>> \in Less)  BY <1>4
  <2>2. n - y \in Nat /\ b \in Nat  BY <1>2, <1>5
  <2>3. ~ (n - y < b)  BY <2>1, <2>2 DEF OpToRel
  <2>4. QED  BY <1>1, <1>5, <2>3
<1>7. QED  BY <1>6

Greatest(S) == CHOOSE t \in S : \A k \in S : k <= t

LEMMA GreatestOfSeq ==
    ASSUME NEW n \in Nat, NEW s \in Seq(Nat), s # <<>>, \A i \in DOMAIN s : s[i] <= n
    PROVE  /\ Greatest(ToSet(s)) \in ToSet(s) /\ Greatest(ToSet(s)) \in Nat
           /\ \A k \in ToSet(s) : k <= Greatest(ToSet(s))
<1>1. Len(s) \in Nat \ {0} /\ DOMAIN s = 1 .. Len(s)  OBVIOUS
<1>2. \A i \in DOMAIN s : s[i] \in 0 .. n  BY <1>1
<1>3. ToSet(s) \subseteq 0 .. n  BY <1>2 DEF ToSet
<1>4. ToSet(s) # {}
  <2>1. 1 \in DOMAIN s  BY <1>1
  <2>2. QED  BY <2>1 DEF ToSet
<1>5. \E t \in ToSet(s) : \A k \in ToSet(s) : k <= t  BY <1>3, <1>4, GreatestExists
<1>6. /\ Greatest(ToSet(s)) \in ToSet(s)
      /\ \A k \in ToSet(s) : k <= Greatest(ToSet(s))
  BY <1>5 DEF Greatest
<1>7. QED  BY <1>3, <1>6

LEMMA KeyIs ==
    ASSUME ListTyped, NEW r \in Present
    PROVE  Key(r) \in Nat
<1>1. r \in Rows /\ times[r] \in Seq(Nat) /\ times[r] # <<>>  BY DEF Present, ListTyped
<1>2. first_seen(r) \in Nat  BY <1>1 DEF first_seen
<1>3. Len(times[r]) \in Nat  BY <1>1
<1>4. sort \in {"last_seen", "first_seen", "count"}  BY DEF ListTyped
<1>5. last_seen(r) \in Nat
  <2>1. last_seen(r) = Greatest(ToSet(times[r]))  BY DEF last_seen, Greatest
  <2>2. clock \in Nat /\ \A i \in DOMAIN times[r] : times[r][i] <= clock
    BY <1>1 DEF ListTyped
  <2>3. QED  BY <1>1, <2>1, <2>2, GreatestOfSeq
<1>6. QED  BY <1>2, <1>3, <1>4, <1>5 DEF Key

\* The issues there are, and those ahead of one, are finitely many.
LEMMA PresentFinite ==
    /\ Present \subseteq Rows /\ IsFiniteSet(Present) /\ Cardinality(Present) \in Nat
    /\ \A r : IsFiniteSet(Ahead(r)) /\ Cardinality(Ahead(r)) \in Nat
<1>1. IsFiniteSet(Present) /\ Present \subseteq Rows
  BY ListingAssumption, FS_Subset DEF Present
<1>2. ASSUME NEW r  PROVE IsFiniteSet(Ahead(r))
  BY <1>1, FS_Subset DEF Ahead
<1>3. QED  BY <1>1, <1>2, FS_CardinalityType

\* An order of the list: each issue has its place, one behind those that are ahead of it.
LEMMA PlaceInOrder ==
    ASSUME ListTyped, NEW order \in Orders, NEW r \in Present
    PROVE  LET k == Cardinality(Ahead(r)) + 1
           IN  k \in DOMAIN order /\ order[k] = r
<1> DEFINE N == Cardinality(Present)
<1>1. /\ order \in [1 .. N -> Present]
      /\ \A i, j \in 1 .. N : i # j => order[i] # order[j]
      /\ \A m, n \in 1 .. N : m < n => ~Precedes(order[n], order[m])
  BY DEF Orders, SetToSeqs
<1>2. N \in Nat /\ IsFiniteSet(Present) /\ Present \subseteq Rows  BY PresentFinite
<1> HIDE DEF N
<1>3. PICK k \in 1 .. N : order[k] = r
  <2>1. IsFiniteSet(1 .. N) /\ Cardinality(1 .. N) = N
    <3>1. N \in Int /\ ~ (1 > N) => N - 1 + 1 = N  BY <1>2
    <3>2. /\ IsFiniteSet(1 .. N)
          /\ Cardinality(1 .. N) = IF 1 > N THEN 0 ELSE N - 1 + 1
      BY <1>2, FS_Interval
    <3>3. QED  BY <1>2, <3>2
  <2>2. order \in Injection(1 .. N, Present)
    BY <1>1 DEF Injection, IsInjective
  <2>3. Cardinality(1 .. N) = Cardinality(Present)  BY <2>1 DEF N
  <2>4. order \in Surjection(1 .. N, Present)  BY <1>2, <2>2, <2>3, FS_Injection
  <2>5. QED  BY <2>4 DEF Surjection
<1>4. \A n \in 1 .. N : order[n] \in Present /\ order[n] \in Nat /\ Key(order[n]) \in Nat
  BY <1>1, <1>2, KeyIs, ListingAssumption
<1>5. \A m, n \in 1 .. N : m < n => Precedes(order[m], order[n])
  <2> SUFFICES ASSUME NEW m \in 1 .. N, NEW n \in 1 .. N, m < n
               PROVE  Precedes(order[m], order[n])
    OBVIOUS
  <2>1. ~Precedes(order[n], order[m]) /\ order[m] # order[n]  BY <1>1
  <2>2. QED  BY <1>4, <2>1 DEF Precedes
<1>6. Ahead(r) = {order[m] : m \in 1 .. k - 1}
  <2>1. ASSUME NEW m \in 1 .. k - 1  PROVE order[m] \in Ahead(r)
    <3>1. m \in 1 .. N /\ m < k  BY <1>2
    <3>2. QED  BY <1>3, <1>4, <1>5, <3>1 DEF Ahead
  <2>2. ASSUME NEW s \in Ahead(r)  PROVE \E m \in 1 .. k - 1 : s = order[m]
    <3>1. s \in Present /\ Precedes(s, r)  BY DEF Ahead
    <3>2. PICK m \in 1 .. N : order[m] = s
      <4>1. IsFiniteSet(1 .. N) /\ Cardinality(1 .. N) = N
        <5>1. /\ IsFiniteSet(1 .. N)
              /\ Cardinality(1 .. N) = IF 1 > N THEN 0 ELSE N - 1 + 1
          BY <1>2, FS_Interval
        <5>2. QED  BY <1>2, <5>1
      <4>2. order \in Injection(1 .. N, Present)
        BY <1>1 DEF Injection, IsInjective
      <4>3. Cardinality(1 .. N) = Cardinality(Present)  BY <4>1 DEF N
      <4>4. order \in Surjection(1 .. N, Present)  BY <1>2, <4>2, <4>3, FS_Injection
      <4>5. QED  BY <3>1, <4>4 DEF Surjection
    <3>3. ~ (k < m)  BY <1>1, <1>3, <3>1, <3>2
    <3>4. m # k  BY <1>3, <1>4, <3>1, <3>2 DEF Precedes
    <3>5. m \in 1 .. k - 1  BY <1>2, <3>3, <3>4
    <3>6. QED  BY <3>2, <3>5
  <2>3. QED  BY <2>1, <2>2
<1>7. Cardinality(Ahead(r)) = k - 1
  <2> DEFINE f == [m \in 1 .. k - 1 |-> order[m]]
  <2>1. f \in Bijection(1 .. k - 1, Ahead(r))
    <3>1. f \in [1 .. k - 1 -> Ahead(r)]  BY <1>6
    <3>2. \A i, j \in 1 .. k - 1 : f[i] = f[j] => i = j
      <4>1. 1 .. k - 1 \subseteq 1 .. N  BY <1>2
      <4>2. QED  BY <1>1, <4>1
    <3>3. \A s \in Ahead(r) : \E m \in 1 .. k - 1 : f[m] = s  BY <1>6
    <3>4. QED  BY <3>1, <3>2, <3>3 DEF Bijection, Injection, Surjection, IsInjective
  <2>2. k - 1 \in Nat  BY <1>2
  <2>3. ExistsBijection(1 .. k - 1, Ahead(r))  BY <2>1 DEF ExistsBijection
  <2>4. QED  BY <2>2, <2>3, FS_CountingElements
<1>8. QED  BY <1>1, <1>2, <1>3, <1>7

\* An event moves its issue forward and no other: whatever was ahead of an issue without
\* events still is.
LEMMA AheadGrows ==
    ASSUME ListTyped, ListTyped', NEW x \in Rows, StoreEvent(x), NEW r \in Rows, r # x, r \in Present
    PROVE  Ahead(r) \subseteq Ahead(r)'
<1>1. /\ \A s \in Rows : s # x => times'[s] = times[s]
      /\ \E t \in Nat : times'[x] = Append(times[x], t)
      /\ sort' = sort
  BY DEF StoreEvent, ListTyped
<1>2. Present \subseteq Present'
  <2>1. times[x] \in Seq(Nat)  BY DEF ListTyped
  <2>2. PICK t \in Nat : times'[x] = Append(times[x], t)  BY <1>1
  <2>3. Len(times'[x]) = Len(times[x]) + 1 /\ Len(times[x]) \in Nat  BY <2>1, <2>2
  <2>4. times'[x] # <<>>  BY <2>3
  <2>5. QED  BY <1>1, <2>4 DEF Present
<1>3. Key(r)' = Key(r)
  BY <1>1 DEF Key, last_seen, first_seen
<1>4. \A s \in Present : Key(s)' \in Nat /\ Key(s)' >= Key(s)
  <2> SUFFICES ASSUME NEW s \in Present  PROVE  Key(s)' \in Nat /\ Key(s)' >= Key(s)
    OBVIOUS
  <2>1. Key(s) \in Nat /\ s \in Rows  BY KeyIs DEF Present
  <2>2. CASE s # x
    <3>1. Key(s)' = Key(s)  BY <1>1, <2>1, <2>2 DEF Key, last_seen, first_seen
    <3>2. QED  BY <2>1, <3>1
  <2>3. CASE s = x
    <3>1. PICK t \in Nat : times'[x] = Append(times[x], t)  BY <1>1
    <3>2. times[x] \in Seq(Nat) /\ times[x] # <<>>  BY <2>3 DEF Present, ListTyped
    <3>3. first_seen(x)' = first_seen(x) /\ first_seen(x) \in Nat  BY <3>1, <3>2 DEF first_seen
    <3>4. Len(times'[x]) = Len(times[x]) + 1 /\ Len(times[x]) \in Nat  BY <3>1, <3>2
    <3>5. last_seen(x)' \in Nat /\ last_seen(x)' >= last_seen(x)
      <4>1. /\ clock \in Nat /\ clock' \in Nat
            /\ \A m \in DOMAIN times[x] : times[x][m] <= clock
            /\ \A m \in DOMAIN times'[x] : times'[x][m] <= clock'
        BY DEF ListTyped
      <4>2. last_seen(x) = Greatest(ToSet(times[x]))
            /\ last_seen(x)' = Greatest(ToSet(times'[x]))
        BY DEF last_seen, Greatest
      <4>3. times'[x] \in Seq(Nat) /\ times'[x] # <<>>
        BY <1>2, <2>3 DEF Present, ListTyped
      <4>4. last_seen(x) \in ToSet(times[x]) /\ last_seen(x) \in Nat
        BY <3>2, <4>1, <4>2, GreatestOfSeq
      <4>5. last_seen(x)' \in Nat /\ \A k \in ToSet(times'[x]) : k <= last_seen(x)'
        <5>1. PICK longer : longer = times'[x]  OBVIOUS
        <5>2. PICK bound : bound = clock'  OBVIOUS
        <5>3. /\ Greatest(ToSet(longer)) \in Nat
              /\ \A k \in ToSet(longer) : k <= Greatest(ToSet(longer))
          BY <4>1, <4>3, <5>1, <5>2, GreatestOfSeq
        <5>4. QED  BY <4>2, <5>1, <5>3
      <4>6. PICK n \in DOMAIN times[x] : last_seen(x) = times[x][n]  BY <4>4 DEF ToSet
      <4>7. n \in DOMAIN times'[x] /\ times'[x][n] = times[x][n]  BY <3>1, <3>2
      <4>8. last_seen(x) \in ToSet(times'[x])  BY <4>6, <4>7 DEF ToSet
      <4>9. QED  BY <4>4, <4>5, <4>8
    <3>6. sort \in {"last_seen", "first_seen", "count"}  BY DEF ListTyped
    <3>7. QED  BY <1>1, <2>3, <3>3, <3>4, <3>5, <3>6 DEF Key
  <2>4. QED  BY <2>2, <2>3
<1>5. ASSUME NEW s \in Ahead(r)  PROVE s \in Ahead(r)'
  <2>1. s \in Present /\ Precedes(s, r) /\ s \in Present'  BY <1>2 DEF Ahead
  <2>2. Key(s) \in Nat /\ Key(r) \in Nat /\ Key(s)' >= Key(s)  BY <1>4, <2>1, KeyIs
  <2>3. r \in Nat /\ s \in Nat  BY <2>1, ListingAssumption DEF Present
  <2>4. Key(s)' > Key(r) \/ (Key(s)' = Key(r) /\ s > r)
    <3>1. Key(s)' \in Nat  BY <2>1, <1>4
    <3>2. QED  BY <2>1, <2>2, <2>3, <3>1 DEF Precedes
  <2>5. Precedes(s, r)'  BY <1>3, <2>4 DEF Precedes
  <2>6. QED  BY <2>1, <2>5 DEF Ahead
<1>6. QED  BY <1>5

LEMMA PagesStart == ListInit => ListInv
<1> SUFFICES ASSUME ListInit  PROVE ListInv  OBVIOUS
<1>1. \A r \in Rows : /\ times[r] \in Seq(Nat) /\ before[r] = Len(times[r])
                      /\ \A n \in DOMAIN times[r] : times[r][n] <= 0
  <2>1. ASSUME NEW r \in Rows
        PROVE  /\ times[r] \in Seq(Nat) /\ before[r] = Len(times[r])
               /\ \A n \in DOMAIN times[r] : times[r][n] <= 0
    <3>1. times[r] \in {<<>>, <<0>>, <<0, 0>>}  BY DEF ListInit
    <3>2. before[r] = Len(times[r])  BY DEF ListInit
    <3>3. CASE times[r] = <<>>  BY <3>2, <3>3
    <3>4. CASE times[r] = <<0>>  BY <3>2, <3>4
    <3>5. CASE times[r] = <<0, 0>>  BY <3>2, <3>5
    <3>6. QED  BY <3>1, <3>3, <3>4, <3>5
  <2>2. QED  BY <2>1
<1>2. per_page \in Nat \ {0}
  BY ListingAssumption DEF ListInit, clamp_per_page
<1>3. page = 1 /\ clock = 0 /\ shown = {}  BY DEF ListInit, clamp_page
<1>4. \A r \in Rows : Len(times[r]) \in Nat  BY <1>1
<1>5. times \in [Rows -> Seq(Nat)] /\ before \in [Rows -> Nat]
  <2>1. DOMAIN times = Rows /\ DOMAIN before = Rows
        /\ times = [r \in Rows |-> times[r]] /\ before = [r \in Rows |-> before[r]]
    BY DEF ListInit
  <2>2. QED  BY <1>1, <1>4, <2>1
<1>6. ListTyped  BY <1>1, <1>2, <1>3, <1>4, <1>5 DEF ListTyped, ListInit
<1>7. StillToCome
  <2>1. (page - 1) * per_page = 0  BY <1>2, <1>3
  <2>2. \A r \in Rows : Cardinality(Ahead(r)) >= 0  BY PresentFinite
  <2>3. QED  BY <2>1, <2>2 DEF StillToCome
<1>8. UntouchedIsShown  BY <1>3 DEF UntouchedIsShown
<1>9. QED  BY <1>6, <1>7, <1>8 DEF ListInv

\* The page after this one begins where this one ends.
LEMMA NextOffset ==
    ASSUME NEW p \in Nat, p > 0, NEW n \in Nat
    PROVE  /\ (p - 1) * n \in Nat /\ (p + 1 - 1) * n = (p - 1) * n + n
OBVIOUS

LEMMA PageKeeps == ListInv /\ list_issues => ListInv'
<1> SUFFICES ASSUME ListInv, list_issues  PROVE ListInv'  OBVIOUS
<1> USE DEF ListInv
<1>1. PICK order \in Orders :
        LET offset == (page - 1) * per_page
            rows == {n \in DOMAIN order : n > offset /\ n <= offset + per_page}
        IN  /\ shown' = shown \cup {order[n] : n \in rows}
            /\ page' = IF rows = {} THEN 0 ELSE page + 1
  BY DEF list_issues
<1> DEFINE offset == (page - 1) * per_page
           rows == {n \in DOMAIN order : n > offset /\ n <= offset + per_page}
<1>2. /\ shown' = shown \cup {order[n] : n \in rows}
      /\ page' = IF rows = {} THEN 0 ELSE page + 1
      /\ page \in Nat /\ page > 0 /\ per_page \in Nat \ {0}
      /\ UNCHANGED <<times, before, sort, per_page, clock, chart>>
  BY <1>1 DEF list_issues, ListTyped
<1>3. /\ offset \in Nat
      /\ (page + 1 - 1) * per_page = offset + per_page
  BY <1>2, NextOffset
<1>4. order \in [1 .. Cardinality(Present) -> Present] /\ Present \subseteq Rows
  BY PresentFinite DEF Orders, SetToSeqs
<1>5. DOMAIN order = 1 .. Cardinality(Present) /\ Cardinality(Present) \in Nat
  BY <1>4, PresentFinite
<1> HIDE DEF offset
<1>6. ListTyped'
  <2>1. {order[n] : n \in rows} \subseteq Rows  BY <1>4, <1>5
  <2>2. page' \in Nat /\ shown' \subseteq Rows  BY <1>2, <2>1 DEF ListTyped
  <2>3. QED  BY <1>2, <2>2 DEF ListTyped
<1>7. Present' = Present /\ \A r : Ahead(r)' = Ahead(r) /\ Untouched(r)' = Untouched(r)
  BY <1>2 DEF Present, Ahead, Precedes, Key, last_seen, first_seen, Untouched
\* An issue not seen yet has its place behind this page, which then is not empty.
<1>8. ASSUME NEW r \in Rows, Untouched(r), r \notin shown'
      PROVE  Cardinality(Ahead(r)) >= offset + per_page /\ rows # {}
  <2> DEFINE k == Cardinality(Ahead(r)) + 1
  <2>1. r \in Present  BY <1>8 DEF Untouched, Present, ListTyped
  <2>2. k \in DOMAIN order /\ order[k] = r  BY <2>1, PlaceInOrder
  <2>3. Cardinality(Ahead(r)) >= offset
    BY <1>2, <1>8 DEF StillToCome, offset
  <2>4. Cardinality(Ahead(r)) \in Nat  BY PresentFinite
  <2>5. k \notin rows  BY <1>2, <1>8, <2>2
  <2>6. k > offset + per_page  BY <1>2, <1>3, <2>2, <2>3, <2>4, <2>5
  <2>7. offset + 1 \in rows
    <3>1. k \in 1 .. Cardinality(Present)  BY <1>5, <2>2
    <3>2. offset + 1 \in 1 .. Cardinality(Present)  BY <1>2, <1>3, <1>5, <2>6, <3>1
    <3>3. QED  BY <1>2, <1>3, <1>5, <3>2
  <2>8. QED  BY <1>2, <1>3, <2>4, <2>6, <2>7
<1>9. StillToCome'
  <2> SUFFICES ASSUME page' > 0, NEW r \in Rows, Untouched(r)', r \notin shown'
               PROVE  Cardinality(Ahead(r)') >= (page' - 1) * per_page'
    BY DEF StillToCome
  <2>1. page' = page + 1  BY <1>2
  <2>2. Cardinality(Ahead(r)) >= offset + per_page  BY <1>7, <1>8
  <2>3. (page' - 1) * per_page' = offset + per_page  BY <1>2, <1>3, <2>1
  <2>4. QED  BY <1>7, <2>2, <2>3
<1>10. UntouchedIsShown'
  <2> SUFFICES ASSUME page' = 0, NEW r \in Rows, Untouched(r)  PROVE r \in shown'
    BY <1>2 DEF UntouchedIsShown, Untouched
  <2>1. rows = {}  BY <1>2
  <2>2. QED  BY <1>8, <2>1
<1>11. QED  BY <1>6, <1>9, <1>10

LEMMA EventKeeps ==
    ASSUME ListInv, NEW x \in Rows, StoreEvent(x)
    PROVE  ListInv'
<1> USE DEF ListInv
<1>1. PICK t \in {clock, clock - 1} \cap Nat : times' = [times EXCEPT ![x] = Append(@, t)]
  BY DEF StoreEvent
<1>2. UNCHANGED <<before, sort, per_page, page, shown, clock, chart>>  BY DEF StoreEvent
<1>3. /\ times' \in [Rows -> Seq(Nat)]
      /\ \A r \in Rows : r # x => times'[r] = times[r]
      /\ times'[x] = Append(times[x], t) /\ times[x] \in Seq(Nat)
      /\ Len(times'[x]) = Len(times[x]) + 1 /\ Len(times[x]) \in Nat
  BY <1>1 DEF ListTyped
<1>4. ListTyped'
  <2>1. \A r \in Rows : \A n \in DOMAIN times'[r] : times'[r][n] <= clock
    <3> SUFFICES ASSUME NEW r \in Rows, NEW n \in DOMAIN times'[r]
                 PROVE  times'[r][n] <= clock
      OBVIOUS
    <3>1. CASE r # x  BY <1>3, <3>1 DEF ListTyped
    <3>2. CASE r = x
      <4>1. t <= clock  BY <1>1 DEF ListTyped
      <4>2. \A m \in DOMAIN times[x] : times[x][m] <= clock  BY DEF ListTyped
      <4>3. \/ n \in DOMAIN times[x] /\ times'[x][n] = times[x][n]
            \/ times'[x][n] = t
        BY <1>3, <3>2
      <4>4. QED  BY <3>2, <4>1, <4>2, <4>3
    <3>3. QED  BY <3>1, <3>2
  <2>2. \A r \in Rows : before[r] <= Len(times'[r])
    <3> SUFFICES ASSUME NEW r \in Rows  PROVE before[r] <= Len(times'[r])  OBVIOUS
    <3>1. /\ before[r] <= Len(times[r]) /\ before[r] \in Nat
          /\ times[r] \in Seq(Nat) /\ Len(times[r]) \in Nat
      BY DEF ListTyped
    <3>2. CASE r = x  BY <1>3, <3>1, <3>2
    <3>3. CASE r # x  BY <1>3, <3>1, <3>3
    <3>4. QED  BY <3>2, <3>3
  <2>3. QED  BY <1>2, <1>3, <2>1, <2>2 DEF ListTyped
<1>5. ASSUME NEW r \in Rows, Untouched(r)'  PROVE r # x /\ Untouched(r)
  <2>1. before[x] <= Len(times[x]) /\ before[x] \in Nat  BY DEF ListTyped
  <2>2. r # x  BY <1>2, <1>3, <1>5, <2>1 DEF Untouched
  <2>3. QED  BY <1>2, <1>3, <1>5, <2>2 DEF Untouched
<1>6. StillToCome'
  <2> SUFFICES ASSUME page > 0, NEW r \in Rows, Untouched(r)', r \notin shown
               PROVE  Cardinality(Ahead(r)') >= (page - 1) * per_page
    BY <1>2 DEF StillToCome
  <2>1. r # x /\ Untouched(r)  BY <1>5
  <2>2. r \in Present  BY <2>1 DEF Untouched, Present, ListTyped
  <2>3. Ahead(r) \subseteq Ahead(r)'  BY <1>4, <2>1, <2>2, AheadGrows
  <2>4. IsFiniteSet(Ahead(r)') /\ Cardinality(Ahead(r)') \in Nat
    <3>1. Ahead(r)' \subseteq Rows  BY DEF Ahead, Present
    <3>2. QED  BY <3>1, ListingAssumption, FS_Subset, FS_CardinalityType
  <2>5. PICK more : more = Ahead(r)'  OBVIOUS
  <2>6. Cardinality(Ahead(r)) <= Cardinality(more)  BY <2>3, <2>4, <2>5, FS_Subset
  <2>7. Cardinality(Ahead(r)) >= (page - 1) * per_page  BY <2>1 DEF StillToCome
  <2>8. (page - 1) * per_page \in Nat  BY NextOffset DEF ListTyped
  <2>9. Cardinality(Ahead(r)) \in Nat  BY PresentFinite
  <2>10. QED  BY <2>4, <2>5, <2>6, <2>7, <2>8, <2>9
<1>7. UntouchedIsShown'
  <2> SUFFICES ASSUME page = 0, NEW r \in Rows, Untouched(r)'  PROVE r \in shown
    BY <1>2 DEF UntouchedIsShown, Untouched
  <2>1. QED  BY <1>5 DEF UntouchedIsShown, Untouched
<1>8. QED  BY <1>4, <1>6, <1>7

LEMMA ListStep == ListInv /\ [PagesNext \/ ChartNext]_listVars => ListInv'
<1> SUFFICES ASSUME ListInv, [PagesNext \/ ChartNext]_listVars  PROVE ListInv'  OBVIOUS
<1>1. ASSUME UNCHANGED <<times, before, sort, per_page, page, shown>>, clock' \in Nat,
             clock' >= clock
      PROVE  ListInv'
  <2>1. ListTyped'
    <3>1. \A r \in Rows : \A n \in DOMAIN times[r] : times[r][n] <= clock'
      <4> SUFFICES ASSUME NEW r \in Rows, NEW n \in DOMAIN times[r]
                   PROVE  times[r][n] <= clock'
        OBVIOUS
      <4>1. times[r] \in Seq(Nat) /\ times[r][n] <= clock /\ clock \in Nat
        BY DEF ListInv, ListTyped
      <4>2. times[r][n] \in Nat  BY <4>1
      <4>3. QED  BY <1>1, <4>1, <4>2
    <3>2. QED  BY <1>1, <3>1 DEF ListInv, ListTyped
  <2>2. StillToCome'
    BY <1>1 DEF ListInv, StillToCome, Ahead, Present, Precedes, Key, last_seen, first_seen,
                Untouched
  <2>3. UntouchedIsShown'  BY <1>1 DEF ListInv, UntouchedIsShown
  <2>4. QED  BY <2>1, <2>2, <2>3 DEF ListInv
<1>2. CASE Tick  BY <1>1, <1>2 DEF Tick, ListInv, ListTyped
<1>3. CASE list_issues  BY <1>3, PageKeeps
<1>4. ASSUME NEW r \in Rows, StoreEvent(r)  PROVE ListInv'  BY <1>4, EventKeeps
<1>5. ASSUME NEW r \in Rows, get_issue(r)  PROVE ListInv'
  BY <1>1, <1>5 DEF get_issue, ListInv, ListTyped
<1>6. CASE UNCHANGED listVars  BY <1>1, <1>6 DEF listVars, ListInv, ListTyped
<1>7. QED  BY <1>2, <1>3, <1>4, <1>5, <1>6 DEF PagesNext, ChartNext

\* For any table, page size and order, and any events between two pages: who reads on until
\* a page is empty has seen every issue that nothing happened to.
THEOREM UntouchedIsShownHolds == ListSpec => []UntouchedIsShown
<1>1. ListInv => UntouchedIsShown  BY DEF ListInv
<1>2. QED  BY <1>1, PagesStart, ListStep, PTL DEF ListSpec

-----------------------------------------------------------------------------
(* The occurrence chart.                                                   *)

\* A set of numbers that is not empty has a least member.
LEMMA LeastExists ==
    ASSUME NEW S, S \subseteq Nat, S # {}
    PROVE  \E x \in S : \A y \in S : x <= y
<1> DEFINE Less == OpToRel(<, Nat)
<1>1. PICK x \in S : \A y \in S : ~ (<<y, x>> \in Less)
  <2>1. IsWellFoundedOn(Less, Nat)  BY NatLessThanWellFounded
  <2> HIDE DEF Less
  <2>2. QED  BY <2>1, WFMin
<1>2. ASSUME NEW y \in S  PROVE x <= y
  <2>1. x \in Nat /\ y \in Nat  OBVIOUS
  <2>2. ~ (y < x)  BY <1>1, <2>1 DEF OpToRel
  <2>3. QED  BY <2>1, <2>2
<1>3. QED  BY <1>2

SumOf(seq) == FoldLeft(LAMBDA x, y : x + y, 0, seq)

\* A table of the sums of all parts of a sequence: each is the sum without its last entry,
\* and that entry.
SumTable(it, n, seq) ==
    it = [s \in SUBSET (1 .. n) |->
            IF s = {} THEN 0 ELSE LET m == Max(s) IN it[s \ {m}] + seq[m]]

\* The sum of a sequence is what such a table says of the whole of it, if there is one.
LEMMA SumIsTable ==
    ASSUME NEW n \in Nat, NEW seq, DOMAIN seq = 1 .. n, NEW sum, SumTable(sum, n, seq)
    PROVE  \E it : SumTable(it, n, seq) /\ SumOf(seq) = it[1 .. n]
<1>1. SumTable(CHOOSE it : SumTable(it, n, seq), n, seq)  OBVIOUS
<1>2. SumOf(seq) = (CHOOSE it : SumTable(it, n, seq))[1 .. n]
  BY DEF SumTable, SumOf, FoldLeft, MapThenFoldSet
<1>3. QED  BY <1>1, <1>2

Numbered(D, at, s) == {e \in D : at[e] \in s}

\* Things counted by their number, number by number from 1 to n, are counted in all.
LEMMA CountsAddUp ==
    ASSUME NEW D, IsFiniteSet(D), NEW at \in [D -> Int], NEW n \in Nat,
           NEW counts, DOMAIN counts = 1 .. n,
           \A k \in 1 .. n : counts[k] = Cardinality(Numbered(D, at, {k}))
    PROVE  SumOf(counts) = Cardinality(Numbered(D, at, 1 .. n))
<1> USE DEF Numbered
<1> DEFINE of(s) == Numbered(D, at, s)
           sum == [s \in SUBSET (1 .. n) |-> Cardinality(of(s))]
<1>1. \A s : IsFiniteSet(of(s)) /\ Cardinality(of(s)) \in Nat  BY FS_Subset, FS_CardinalityType
<1>2. ASSUME NEW s \in SUBSET (1 .. n), NEW m \in s
      PROVE  Cardinality(of(s)) = Cardinality(of(s \ {m})) + counts[m]
  <2>1. PICK rest, those : rest = of(s \ {m}) /\ those = of({m})  OBVIOUS
  <2>2. of(s) = rest \cup those /\ rest \cap those = {}  BY <2>1
  <2>3. Cardinality(rest \cap those) = 0  BY <2>2, FS_EmptySet
  <2>4. /\ IsFiniteSet(rest) /\ Cardinality(rest) \in Nat
        /\ IsFiniteSet(those) /\ Cardinality(those) \in Nat
    BY <1>1, <2>1
  <2>5. Cardinality(of(s)) = Cardinality(rest) + Cardinality(those)
    <3>1. Cardinality(rest \cup those)
            = Cardinality(rest) + Cardinality(those) - Cardinality(rest \cap those)
      BY <2>4, FS_Union
    <3> HIDE DEF of
    <3>2. QED  BY <2>2, <2>3, <2>4, <3>1
  <2>6. counts[m] = Cardinality(those)  BY <2>1
  <2>7. QED  BY <2>1, <2>5, <2>6
<1>3. ASSUME NEW s \in SUBSET (1 .. n), s # {}
      PROVE  Max(s) \in s /\ \A k \in s : k <= Max(s)
  <2>1. s \subseteq 0 .. n  OBVIOUS
  <2>2. PICK m \in s : \A k \in s : k <= m  BY <1>3, <2>1, GreatestExists
  <2>3. \A k \in s : m >= k  BY <2>1, <2>2
  <2>4. Max(s) \in s /\ \A k \in s : Max(s) >= k  BY <2>3 DEF Max
  <2>5. QED  BY <2>1, <2>4
<1>4. sum = [s \in SUBSET (1 .. n) |->
                IF s = {} THEN 0 ELSE LET m == Max(s) IN sum[s \ {m}] + counts[m]]
  <2>1. Cardinality(of({})) = 0
    <3>1. of({}) = {}  OBVIOUS
    <3>2. QED  BY <3>1, FS_EmptySet
  <2>2. ASSUME NEW s \in SUBSET (1 .. n), s # {}
        PROVE  Cardinality(of(s)) = sum[s \ {Max(s)}] + counts[Max(s)]
    <3>1. s \ {Max(s)} \in SUBSET (1 .. n)  OBVIOUS
    <3>2. QED  BY <1>2, <1>3, <2>2, <3>1
  <2> HIDE DEF of
  <2>3. QED  BY <2>1, <2>2
<1>5. PICK it : SumTable(it, n, counts) /\ SumOf(counts) = it[1 .. n]
  <2>1. DOMAIN counts = 1 .. n  OBVIOUS
  <2>2. SumTable(sum, n, counts)  BY <1>4 DEF SumTable
  <2> HIDE DEF sum
  <2>3. QED  BY <2>1, <2>2, SumIsTable
<1>6. ASSUME NEW k \in 1 .. n  PROVE it[1 .. k] = it[1 .. (k - 1)] + counts[k]
  <2>1. 1 .. k \in SUBSET (1 .. n) /\ k \in 1 .. k  OBVIOUS
  <2>2. Max(1 .. k) = k
    <3>1. Max(1 .. k) \in 1 .. k /\ k <= Max(1 .. k)  BY <1>3, <2>1
    <3>2. QED  BY <3>1
  <2>3. (1 .. k) \ {k} = 1 .. (k - 1)  OBVIOUS
  <2>4. it[1 .. k] = it[(1 .. k) \ {Max(1 .. k)}] + counts[Max(1 .. k)]
    BY <1>5, <2>1 DEF SumTable
  <2>5. QED  BY <2>2, <2>3, <2>4
<1>7. \A k \in 0 .. n : it[1 .. k] = Cardinality(of(1 .. k))
  <2> DEFINE Bad == {k \in 0 .. n : it[1 .. k] # Cardinality(of(1 .. k))}
  <2> SUFFICES ASSUME Bad # {}  PROVE FALSE  OBVIOUS
  <2>1. PICK k \in Bad : \A j \in Bad : k <= j
    <3>1. Bad \subseteq Nat  OBVIOUS
    <3> HIDE DEF Bad
    <3>2. QED  BY <3>1, LeastExists
  <2>2. k # 0
    <3>1. 1 .. 0 = {} /\ {} \in SUBSET (1 .. n)  OBVIOUS
    <3>2. it[1 .. 0] = 0  BY <1>5, <3>1 DEF SumTable
    <3>3. of(1 .. 0) = {}  BY <3>1
    <3>4. QED  BY <2>1, <3>2, <3>3, FS_EmptySet
  <2>3. k \in 1 .. n /\ k - 1 \in 0 .. n  BY <2>2
  <2>4. it[1 .. (k - 1)] = Cardinality(of(1 .. (k - 1)))
    <3>1. k - 1 \notin Bad  BY <2>1, <2>3
    <3>2. QED  BY <2>3, <3>1
  <2>5. (1 .. k) \ {k} = 1 .. (k - 1) /\ 1 .. k \in SUBSET (1 .. n) /\ k \in 1 .. k  BY <2>3
  <2>6. Cardinality(of(1 .. k)) = Cardinality(of((1 .. k) \ {k})) + counts[k]
    BY <1>2, <2>5
  <2>7. it[1 .. k] = it[1 .. (k - 1)] + counts[k]  BY <1>6, <2>3
  <2> HIDE DEF of
  <2>8. QED  BY <2>1, <2>4, <2>5, <2>6, <2>7
<1>8. n \in 0 .. n  OBVIOUS
<1> HIDE DEF sum
<1>9. QED  BY <1>5, <1>7, <1>8
\* A chart shows nothing but what it was made of.
ChartFilled ==
    chart # NoChart =>
        \E stored \in Seq(Nat), today \in Nat :
            chart = [today |-> today, stored |-> stored,
                     counts |-> zero_fill_occurrences(stored, WindowStart(today), today)]

LEMMA ChartIsOfWindow ==
    ASSUME NEW stored \in Seq(Nat), NEW today \in Nat,
           NEW counts, counts = zero_fill_occurrences(stored, WindowStart(today), today)
    PROVE  /\ Len(counts) = WINDOW_DAYS
           /\ SumOf(counts) = Cardinality({n \in DOMAIN stored :
                    Day(stored[n]) \in (today - WINDOW_DAYS + 1) .. today})
<1> DEFINE D == DOMAIN stored
           day == [n \in D |-> Day(stored[n])]
           first == today - WINDOW_DAYS + 1
           at == [n \in D |-> day[n] - (first - 1)]
<1>1. WINDOW_DAYS \in Nat \ {0} /\ TicksPerDay \in Nat \ {0}  BY ListingAssumption
<1>2. IsFiniteSet(D) /\ D = 1 .. Len(stored)  BY FS_Interval
<1>3. day \in [D -> Int]
  <2>1. ASSUME NEW n \in D  PROVE Day(stored[n]) \in Int
    <3>1. stored[n] \in Nat  OBVIOUS
    <3>2. QED  BY <1>1, <3>1 DEF Day
  <2>2. QED  BY <2>1
<1>4. first \in Int /\ at \in [D -> Int]  BY <1>1, <1>3
<1>5. /\ DOMAIN counts = 1 .. WINDOW_DAYS
      /\ \A k \in 1 .. WINDOW_DAYS : counts[k] = Cardinality(Numbered(D, at, {k}))
  <2>1. ASSUME NEW k \in 1 .. WINDOW_DAYS
        PROVE  {n \in {m \in D : Day(stored[m]) >= WindowStart(today)} :
                    Day(stored[n]) = today - WINDOW_DAYS + k}
                = Numbered(D, at, {k})
    <3>1. ASSUME NEW n \in D
          PROVE  /\ at[n] = k <=> day[n] = today - WINDOW_DAYS + k
                 /\ at[n] = k => day[n] >= WindowStart(today)
      <4>1. day[n] \in Int /\ at[n] = day[n] - (first - 1)  BY <1>3
      <4>2. QED  BY <1>1, <4>1 DEF WindowStart
    <3>2. \A n \in D : day[n] = Day(stored[n])  OBVIOUS
    <3> HIDE DEF at, day
    <3>3. QED  BY <3>1, <3>2 DEF Numbered
  <2> HIDE DEF at
  <2>2. QED  BY <2>1 DEF zero_fill_occurrences
<1>6. Numbered(D, at, 1 .. WINDOW_DAYS) = {n \in D : Day(stored[n]) \in first .. today}
  <2>1. ASSUME NEW n \in D
        PROVE  at[n] \in 1 .. WINDOW_DAYS <=> day[n] \in first .. today
    <3>1. day[n] \in Int /\ at[n] = day[n] - (first - 1)  BY <1>3
    <3>2. QED  BY <1>1, <3>1
  <2>2. \A n \in D : day[n] = Day(stored[n])  OBVIOUS
  <2> HIDE DEF at, day, first
  <2>3. QED  BY <2>1, <2>2 DEF Numbered
<1>7. SumOf(counts) = Cardinality(Numbered(D, at, 1 .. WINDOW_DAYS))
  <2>1. WINDOW_DAYS \in Nat /\ at \in [D -> Int]  BY <1>1, <1>4
  <2> HIDE DEF at, D
  <2>2. QED  BY <1>2, <1>5, <2>1, CountsAddUp
<1>8. Len(counts) = WINDOW_DAYS  BY <1>1, <1>5
<1> HIDE DEF at
<1>9. QED  BY <1>6, <1>7, <1>8

LEMMA FilledAddsUp == ChartFilled => ChartAddsUp
<1> SUFFICES ASSUME ChartFilled, chart # NoChart
             PROVE  /\ Len(chart.counts) = WINDOW_DAYS
                    /\ SumOf(chart.counts) = Cardinality({n \in DOMAIN chart.stored :
                            Day(chart.stored[n]) \in (chart.today - WINDOW_DAYS + 1) .. chart.today})
  BY DEF ChartAddsUp, SumOf
<1>1. PICK stored \in Seq(Nat), today \in Nat :
            chart = [today |-> today, stored |-> stored,
                     counts |-> zero_fill_occurrences(stored, WindowStart(today), today)]
  BY DEF ChartFilled
<1>2. PICK counts : counts = zero_fill_occurrences(stored, WindowStart(today), today)  OBVIOUS
<1>3. chart.today = today /\ chart.stored = stored /\ chart.counts = counts  BY <1>1, <1>2
<1>4. QED  BY <1>2, <1>3, ChartIsOfWindow

LEMMA ChartStep ==
    ASSUME ListInv, ChartFilled, [PagesNext \/ ChartNext]_listVars
    PROVE  ChartFilled'
<1>1. CASE chart' = chart  BY <1>1 DEF ChartFilled
<1>2. ASSUME NEW r \in Rows, get_issue(r)  PROVE ChartFilled'
  <2>1. PICK today \in Nat :
            chart' = [today |-> today, stored |-> times[r],
                      counts |-> zero_fill_occurrences(times[r], WindowStart(today), today)]
    BY <1>2 DEF get_issue
  <2>2. times[r] \in Seq(Nat)  BY DEF ListInv, ListTyped
  <2>3. QED  BY <2>1, <2>2 DEF ChartFilled
<1>3. QED
  BY <1>1, <1>2 DEF PagesNext, ChartNext, Tick, StoreEvent, list_issues, listVars

\* For any window, any length of a day and any events stored meanwhile: the days of a chart
\* are as many as asked for and add up to the events of those days.
THEOREM ChartAddsUpHolds == ListSpec => []ChartAddsUp
<1>1. ListInit => ChartFilled  BY DEF ListInit, ChartFilled
<1>2. ChartFilled /\ ListInv /\ [PagesNext \/ ChartNext]_listVars => ChartFilled'  BY ChartStep
<1>3. QED  BY <1>1, <1>2, PagesStart, ListStep, FilledAddsUp, PTL DEF ListSpec

-----------------------------------------------------------------------------
(* The grouping of errors: recursion, and sequences.                       *)

\* What is true of 0, and of n + 1 if of n, is true of all: as a set, which may be instantiated.
LEMMA AllFollow ==
    ASSUME NEW S, 0 \in S, \A n \in Nat : n \in S => n + 1 \in S
    PROVE  Nat \subseteq S
<1> DEFINE Bad == Nat \ S
<1> SUFFICES ASSUME Bad # {}  PROVE FALSE  OBVIOUS
<1>1. PICK n \in Bad : \A m \in Bad : n <= m
  <2>1. Bad \subseteq Nat  OBVIOUS
  <2> HIDE DEF Bad
  <2>2. QED  BY <2>1, LeastExists
<1>2. n # 0 /\ n - 1 \in Nat /\ n - 1 \notin Bad  BY <1>1
<1>3. n - 1 \in S /\ (n - 1) + 1 = n  BY <1>2
<1>4. QED  BY <1>2, <1>3

\* A function may be defined by its value at 0 and each next one by the last.
Follows(f, m, V, base, next) ==
    /\ f \in [0 .. m -> V]
    /\ f[0] = base
    /\ \A n \in 0 .. m - 1 : f[n + 1] = next[n][f[n]]

Iterates(f, V, base, next) ==
    f \in [Nat -> V] /\ f[0] = base /\ \A n \in Nat : f[n + 1] = next[n][f[n]]

LEMMA RecursionExists ==
    ASSUME NEW V, NEW base, base \in V, NEW next, next \in [Nat -> [V -> V]]
    PROVE  \E f : Iterates(f, V, base, next)
<1>1. \A m \in Nat : \E f : Follows(f, m, V, base, next)
  <2> DEFINE S == {m \in Nat : \E f : Follows(f, m, V, base, next)}
  <2>1. 0 \in S
    <3>1. Follows([n \in 0 .. 0 |-> base], 0, V, base, next)  BY DEF Follows
    <3>2. QED  BY <3>1
  <2>2. ASSUME NEW m \in Nat, m \in S  PROVE m + 1 \in S
    <3>1. PICK f : Follows(f, m, V, base, next)  BY <2>2
    <3> DEFINE g == [n \in 0 .. m + 1 |-> IF n = m + 1 THEN next[m][f[m]] ELSE f[n]]
    <3>2. f[m] \in V /\ next[m][f[m]] \in V
      <4>1. m \in 0 .. m  OBVIOUS
      <4>2. f[m] \in V  BY <3>1, <4>1 DEF Follows
      <4>3. next[m] \in [V -> V]  OBVIOUS
      <4>4. QED  BY <4>2, <4>3
    <3>3. g \in [0 .. m + 1 -> V]
      <4>1. ASSUME NEW n \in 0 .. m + 1, n # m + 1  PROVE f[n] \in V
        <5>1. n \in 0 .. m  BY <4>1
        <5>2. QED  BY <3>1, <5>1 DEF Follows
      <4>2. QED  BY <3>2, <4>1
    <3>4. g[0] = base  BY <3>1 DEF Follows
    <3>5. ASSUME NEW n \in 0 .. m  PROVE g[n + 1] = next[n][g[n]]
      <4>1. g[n] = f[n]  OBVIOUS
      <4>2. CASE n = m  BY <4>1, <4>2
      <4>3. CASE n # m
        <5>1. n \in 0 .. m - 1 /\ g[n + 1] = f[n + 1]  BY <4>3
        <5>2. QED  BY <3>1, <4>1, <5>1 DEF Follows
      <4>4. QED  BY <4>2, <4>3
    <3>6. Follows(g, m + 1, V, base, next)
      <4>1. (m + 1) - 1 = m  OBVIOUS
      <4> HIDE DEF g
      <4>2. QED  BY <3>3, <3>4, <3>5, <4>1 DEF Follows
    <3>7. QED  BY <3>6
  <2> HIDE DEF S
  <2>3. Nat \subseteq S  BY <2>1, <2>2, AllFollow
  <2>4. QED  BY <2>3 DEF S
<1>2. ASSUME NEW m \in Nat, NEW k \in Nat, m <= k,
             NEW f, Follows(f, m, V, base, next), NEW g, Follows(g, k, V, base, next)
      PROVE  f[m] = g[m]
  <2> DEFINE S == {n \in Nat : n <= m => f[n] = g[n]}
  <2>1. 0 \in S  BY <1>2 DEF Follows
  <2>2. ASSUME NEW n \in Nat, n \in S  PROVE n + 1 \in S
    <3>1. CASE n + 1 <= m
      <4>1. n \in 0 .. m - 1 /\ n \in 0 .. k - 1 /\ f[n] = g[n]  BY <1>2, <2>2, <3>1
      <4>2. f[n + 1] = next[n][f[n]]  BY <1>2, <4>1 DEF Follows
      <4>3. g[n + 1] = next[n][g[n]]  BY <1>2, <4>1 DEF Follows
      <4>4. QED  BY <4>1, <4>2, <4>3
    <3>2. QED  BY <3>1
  <2> HIDE DEF S
  <2>3. m \in S  BY <2>1, <2>2, AllFollow
  <2>4. QED  BY <2>3 DEF S
<1> DEFINE part(m) == CHOOSE f : Follows(f, m, V, base, next)
           all == [m \in Nat |-> part(m)[m]]
<1>3. \A m \in Nat : Follows(part(m), m, V, base, next)  BY <1>1
<1>4. all \in [Nat -> V]
  <2>1. ASSUME NEW m \in Nat  PROVE part(m)[m] \in V
    <3> HIDE DEF part
    <3>1. m \in 0 .. m /\ part(m) \in [0 .. m -> V]  BY <1>3 DEF Follows
    <3>2. QED  BY <3>1
  <2>2. QED  BY <2>1
<1>5. all[0] = base  BY <1>3 DEF Follows
<1>6. ASSUME NEW n \in Nat  PROVE all[n + 1] = next[n][all[n]]
  <2>1. all[n + 1] = part(n + 1)[n + 1] /\ all[n] = part(n)[n]  OBVIOUS
  <2>2. Follows(part(n + 1), n + 1, V, base, next) /\ Follows(part(n), n, V, base, next)  BY <1>3
  <2> HIDE DEF part, all
  <2>3. part(n)[n] = part(n + 1)[n]  BY <1>2, <2>2
  <2>4. part(n + 1)[n + 1] = next[n][part(n + 1)[n]]  BY <2>2 DEF Follows
  <2>5. QED  BY <2>1, <2>3, <2>4
<1> HIDE DEF all
<1>7. QED  BY <1>4, <1>5, <1>6 DEF Iterates

\* The newest of a sequence.
LEMMA LastNIs ==
    ASSUME NEW X, NEW s \in Seq(X), NEW n \in Nat \ {0}
    PROVE  /\ LastN(s, n) \in Seq(X)
           /\ Len(LastN(s, n)) = IF Len(s) > n THEN n ELSE Len(s)
           /\ \A k \in 1 .. Len(LastN(s, n)) : LastN(s, n)[k] = s[Len(s) - Len(LastN(s, n)) + k]
<1>1. CASE Len(s) > n
  <2>1. LastN(s, n) = SubSeq(s, Len(s) - n + 1, Len(s))  BY <1>1 DEF LastN
  <2>2. Len(LastN(s, n)) = n /\ LastN(s, n) \in Seq(X)  BY <1>1, <2>1
  <2>3. ASSUME NEW k \in 1 .. n  PROVE LastN(s, n)[k] = s[Len(s) - n + k]  BY <1>1, <2>1
  <2>4. QED  BY <1>1, <2>2, <2>3
<1>2. CASE ~ (Len(s) > n)
  <2>1. LastN(s, n) = s  BY <1>2 DEF LastN
  <2>2. QED  BY <1>2, <2>1
<1>3. QED  BY <1>1, <1>2

LEMMA LastNTwice ==
    ASSUME NEW X, NEW s \in Seq(X), NEW n \in Nat \ {0}
    PROVE  LastN(LastN(s, n), n) = LastN(s, n)
BY LastNIs DEF LastN

\* Turned round twice is not turned round.
LEMMA ReverseTwice ==
    ASSUME NEW X, NEW s \in Seq(X)
    PROVE  Reverse(Reverse(s)) = s
BY DEF Reverse

-----------------------------------------------------------------------------
(* The chain of causes.                                                    *)

LEMMA NextOfType ==
    ASSUME NEW errors, IsProgram(errors), NEW platform, NEW e \in Errors
    PROVE  NextOf(platform, errors, e) \in Errors \cup {NoError}
BY DEF NextOf, _next_cause, IsProgram

\* The links that are followed: f is the n-th cause, or NoError past the last.
Linking(f, platform, errors, top) ==
    /\ f \in [Nat -> Errors \cup {NoError}]
    /\ f[0] = top
    /\ \A n \in Nat :
          f[n + 1] = IF f[n] = NoError THEN NoError ELSE NextOf(platform, errors, f[n])

LinkedBy(f, platform, errors, top) ==
    /\ Linking(f, platform, errors, top)
    /\ \A n \in 0 .. MAX_CAUSE_DEPTH - 1 : Links(platform, errors, top)[n + 1] = f[n]

LEMMA LinksAre ==
    ASSUME NEW errors, IsProgram(errors), NEW platform, NEW top \in Errors
    PROVE  \E f : LinkedBy(f, platform, errors, top)
<1> DEFINE V == Errors \cup {NoError}
           after == [v \in V |-> IF v = NoError THEN NoError ELSE NextOf(platform, errors, v)]
           next == [n \in Nat |-> after]
           P(g) == g = [d \in 1 .. MAX_CAUSE_DEPTH |->
                          IF d = 1 THEN top
                          ELSE IF g[d - 1] = NoError THEN NoError
                          ELSE NextOf(platform, errors, g[d - 1])]
           L == Links(platform, errors, top)
<1>0. MAX_CAUSE_DEPTH \in Nat \ {0}  BY GroupingAssumption
<1>1. after \in [V -> V]  BY NextOfType
<1>2. PICK f : Iterates(f, V, top, next)
  <2>1. next \in [Nat -> [V -> V]] /\ top \in V  BY <1>1
  <2> HIDE DEF next, V
  <2>2. QED  BY <2>1, RecursionExists
<1>f. f \in [Nat -> V] /\ f[0] = top /\ \A n \in Nat : f[n + 1] = next[n][f[n]]
  BY <1>2 DEF Iterates
<1>3. Linking(f, platform, errors, top)
  <2>1. ASSUME NEW n \in Nat
        PROVE  f[n + 1] = IF f[n] = NoError THEN NoError ELSE NextOf(platform, errors, f[n])
    <3>1. f[n] \in V  BY <1>f
    <3>2. f[n + 1] = after[f[n]]  BY <1>f
    <3>3. QED  BY <3>1, <3>2
  <2>2. QED  BY <1>f, <2>1 DEF Linking
<1>4. P([d \in 1 .. MAX_CAUSE_DEPTH |-> f[d - 1]])
  <2>1. ASSUME NEW d \in 1 .. MAX_CAUSE_DEPTH, d # 1
        PROVE  /\ d - 1 \in 1 .. MAX_CAUSE_DEPTH
               /\ f[d - 1] = IF f[d - 1 - 1] = NoError THEN NoError
                            ELSE NextOf(platform, errors, f[d - 1 - 1])
    <3>1. d - 2 \in Nat /\ (d - 2) + 1 = d - 1 /\ d - 1 - 1 = d - 2 /\ d - 1 \in 1 .. MAX_CAUSE_DEPTH
      BY <1>0, <2>1
    <3>2. QED  BY <1>3, <3>1 DEF Linking
  <2>2. QED  BY <1>0, <1>f, <2>1
<1>5. P(L)
  <2>1. L = CHOOSE g : P(g)  BY DEF Links
  <2> HIDE DEF P
  <2>2. QED  BY <1>4, <2>1
<1>6. \A n \in 0 .. MAX_CAUSE_DEPTH - 1 : L[n + 1] = f[n]
  <2> DEFINE S == {n \in Nat : n < MAX_CAUSE_DEPTH => L[n + 1] = f[n]}
  <2> HIDE DEF L
  <2>1. 0 \in S  BY <1>0, <1>f, <1>5
  <2>2. ASSUME NEW n \in Nat, n \in S  PROVE n + 1 \in S
    <3>1. CASE n + 1 < MAX_CAUSE_DEPTH
      <4>1. L[n + 1] = f[n]  BY <1>0, <2>2, <3>1
      <4>2. n + 2 \in 1 .. MAX_CAUSE_DEPTH /\ n + 2 # 1 /\ (n + 2) - 1 = n + 1
        BY <1>0, <3>1
      <4>3. L[n + 2] = IF L[n + 1] = NoError THEN NoError ELSE NextOf(platform, errors, L[n + 1])
        BY <1>5, <4>2
      <4>4. L[n + 2] = f[n + 1] /\ (n + 1) + 1 = n + 2  BY <1>3, <4>1, <4>3 DEF Linking
      <4>5. QED  BY <4>4
    <3>2. CASE ~ (n + 1 < MAX_CAUSE_DEPTH)  BY <3>2
    <3>3. QED  BY <3>1, <3>2
  <2> HIDE DEF S
  <2>3. Nat \subseteq S  BY <2>1, <2>2, AllFollow
  <2>4. QED  BY <1>0, <2>3 DEF S
<1>7. QED  BY <1>3, <1>6 DEF LinkedBy

\* The causes a reader names: f is the n-th cause, or the last.
Naming(f, platform, errors, top) ==
    /\ f \in [Nat -> Errors]
    /\ f[0] = top
    /\ \A n \in Nat :
          f[n + 1] = IF NextOf(platform, errors, f[n]) = NoError THEN f[n]
                     ELSE NextOf(platform, errors, f[n])

LEMMA CausesAre ==
    ASSUME NEW errors, IsProgram(errors), NEW platform, NEW top \in Errors, NEW distance \in Nat
    PROVE  \E f : /\ Naming(f, platform, errors, top)
                  /\ CauseAt(platform, errors, top, distance) = f[distance]
<1> DEFINE after == [v \in Errors |-> IF NextOf(platform, errors, v) = NoError THEN v
                                      ELSE NextOf(platform, errors, v)]
           next == [n \in Nat |-> after]
           P(g) == g = [n \in 0 .. distance |->
                          IF n = 0 THEN top
                          ELSE IF NextOf(platform, errors, g[n - 1]) = NoError THEN g[n - 1]
                          ELSE NextOf(platform, errors, g[n - 1])]
           at == CHOOSE g : P(g)
<1>1. after \in [Errors -> Errors]  BY NextOfType
<1>2. PICK f : Iterates(f, Errors, top, next)
  <2>1. next \in [Nat -> [Errors -> Errors]] /\ top \in Errors  BY <1>1
  <2> HIDE DEF next
  <2>2. QED  BY <2>1, RecursionExists
<1>f. f \in [Nat -> Errors] /\ f[0] = top /\ \A n \in Nat : f[n + 1] = next[n][f[n]]
  BY <1>2 DEF Iterates
<1>3. Naming(f, platform, errors, top)
  <2>1. ASSUME NEW n \in Nat
        PROVE  f[n + 1] = IF NextOf(platform, errors, f[n]) = NoError THEN f[n]
                          ELSE NextOf(platform, errors, f[n])
    <3>1. f[n] \in Errors  BY <1>f
    <3>2. f[n + 1] = after[f[n]]  BY <1>f
    <3>3. QED  BY <3>1, <3>2
  <2>2. QED  BY <1>f, <2>1 DEF Naming
<1>4. P([n \in 0 .. distance |-> f[n]])
  <2>1. ASSUME NEW n \in 0 .. distance, n # 0
        PROVE  /\ n - 1 \in 0 .. distance
               /\ f[n] = IF NextOf(platform, errors, f[n - 1]) = NoError THEN f[n - 1]
                         ELSE NextOf(platform, errors, f[n - 1])
    <3>1. n - 1 \in Nat /\ (n - 1) + 1 = n /\ n - 1 \in 0 .. distance  BY <2>1
    <3>2. QED  BY <1>3, <3>1 DEF Naming
  <2>2. QED  BY <1>f, <2>1
<1>5. P(at)
  <2> HIDE DEF P
  <2>1. QED  BY <1>4
<1>6. CauseAt(platform, errors, top, distance) = at[distance]  BY DEF CauseAt
<1> HIDE DEF at
<1>7. at[distance] = f[distance]
  <2> DEFINE S == {n \in Nat : n <= distance => at[n] = f[n]}
  <2>1. 0 \in S  BY <1>f, <1>5
  <2>2. ASSUME NEW n \in Nat, n \in S  PROVE n + 1 \in S
    <3>1. CASE n + 1 <= distance
      <4>1. at[n] = f[n]  BY <2>2, <3>1
      <4>2. n + 1 \in 0 .. distance /\ n + 1 # 0 /\ (n + 1) - 1 = n  BY <3>1
      <4>3. at[n + 1] = IF NextOf(platform, errors, at[n]) = NoError THEN at[n]
                        ELSE NextOf(platform, errors, at[n])
        BY <1>5, <4>2
      <4>4. at[n + 1] = f[n + 1]  BY <1>3, <4>1, <4>3 DEF Naming
      <4>5. QED  BY <4>4
    <3>2. CASE ~ (n + 1 <= distance)  BY <3>2
    <3>3. QED  BY <3>1, <3>2
  <2> HIDE DEF S
  <2>3. Nat \subseteq S  BY <2>1, <2>2, AllFollow
  <2>4. QED  BY <2>3 DEF S
<1>8. QED  BY <1>3, <1>6, <1>7

\* The chain that is sent holds at least the error presented and at most MAX_CAUSE_DEPTH
\* errors, and it ends with the root cause.
LEMMA ChainEnds ==
    ASSUME NEW errors, IsProgram(errors), NEW platform, NEW top \in Errors
    PROVE  LET chain == Chain(platform, errors, top) IN
           /\ chain \in Seq(Errors) /\ Len(chain) \in 1 .. MAX_CAUSE_DEPTH
           /\ chain[Len(chain)] = CauseAt(platform, errors, top, MAX_CAUSE_DEPTH - 1)
<1> DEFINE last == MAX_CAUSE_DEPTH - 1
           L == Links(platform, errors, top)
<1>0. MAX_CAUSE_DEPTH \in Nat \ {0} /\ last \in Nat /\ NoError \notin Errors  BY GroupingAssumption
<1>1. PICK f : Linking(f, platform, errors, top) /\ \A n \in 0 .. last : L[n + 1] = f[n]
  <2>1. PICK f : LinkedBy(f, platform, errors, top)  BY LinksAre
  <2>2. QED  BY <2>1, Zenon DEF LinkedBy
<1>2. PICK c : Naming(c, platform, errors, top) /\ CauseAt(platform, errors, top, last) = c[last]
  BY <1>0, CausesAre
<1>3. PICK m \in Nat : /\ m = last \/ f[m + 1] = NoError
                       /\ m <= last
                       /\ \A n \in Nat : n < m => f[n + 1] # NoError
  <2> DEFINE Ends == {n \in Nat : n = last \/ f[n + 1] = NoError}
  <2>1. last \in Ends /\ Ends \subseteq Nat  BY <1>0
  <2>2. PICK m \in Ends : \A n \in Ends : m <= n
    <3> HIDE DEF Ends
    <3>1. QED  BY <2>1, LeastExists
  <2>3. ASSUME NEW n \in Nat, n < m  PROVE f[n + 1] # NoError
    <3>1. n \notin Ends  BY <2>1, <2>2, <2>3
    <3>2. QED  BY <3>1
  <2>4. QED  BY <2>1, <2>2, <2>3
<1> DEFINE Same == {n \in Nat : n <= m => f[n] = c[n] /\ f[n] \in Errors}
<1>4. 0 \in Same  BY <1>1, <1>2 DEF Linking, Naming
<1>5. ASSUME NEW n \in Nat, n \in Same  PROVE n + 1 \in Same
  <2>1. CASE n + 1 <= m
    <3>1. f[n] = c[n] /\ f[n] \in Errors /\ f[n + 1] # NoError  BY <1>3, <1>5, <2>1
    <3>2. f[n + 1] = NextOf(platform, errors, f[n]) /\ f[n + 1] \in Errors
      BY <1>0, <1>1, <3>1 DEF Linking
    <3>3. c[n + 1] = f[n + 1]  BY <1>2, <3>1, <3>2 DEF Naming
    <3>4. QED  BY <3>2, <3>3
  <2>2. CASE ~ (n + 1 <= m)  BY <2>2
  <2>3. QED  BY <2>1, <2>2
<1>6. \A n \in 0 .. m : f[n] = c[n] /\ f[n] \in Errors
  <2> HIDE DEF Same
  <2>1. Nat \subseteq Same  BY <1>4, <1>5, AllFollow
  <2>2. QED  BY <2>1 DEF Same
<1>7. m < last => \A n \in Nat : n > m => f[n] = NoError /\ c[n] = c[m]
  <2> SUFFICES ASSUME m < last  PROVE \A n \in Nat : n > m => f[n] = NoError /\ c[n] = c[m]
    OBVIOUS
  <2>1. f[m + 1] = NoError /\ f[m] = c[m] /\ f[m] \in Errors  BY <1>0, <1>3, <1>6
  <2>2. NextOf(platform, errors, c[m]) = NoError  BY <1>0, <1>1, <2>1 DEF Linking
  <2> DEFINE Past == {n \in Nat : n > m => f[n] = NoError /\ c[n] = c[m]}
  <2>3. 0 \in Past  OBVIOUS
  <2>4. ASSUME NEW n \in Nat, n \in Past  PROVE n + 1 \in Past
    <3>1. CASE n > m
      <4>1. f[n] = NoError /\ c[n] = c[m]  BY <2>4, <3>1
      <4>2. f[n + 1] = NoError  BY <1>1, <4>1 DEF Linking
      <4>3. c[n + 1] = c[m]  BY <1>2, <2>2, <4>1 DEF Naming
      <4>4. QED  BY <4>2, <4>3
    <3>2. CASE n = m
      <4>1. c[n + 1] = c[m]  BY <1>2, <2>2, <3>2 DEF Naming
      <4>2. QED  BY <2>1, <3>2, <4>1
    <3>3. CASE n < m  BY <3>3
    <3>4. QED  BY <3>1, <3>2, <3>3
  <2> HIDE DEF Past
  <2>5. Nat \subseteq Past  BY <2>3, <2>4, AllFollow
  <2>6. QED  BY <2>5 DEF Past
<1>8. {d \in 1 .. MAX_CAUSE_DEPTH : L[d] # NoError} = 1 .. m + 1
  <2>1. ASSUME NEW d \in 1 .. MAX_CAUSE_DEPTH  PROVE L[d] # NoError <=> d <= m + 1
    <3>1. d - 1 \in 0 .. last /\ (d - 1) + 1 = d /\ d - 1 \in Nat  BY <1>0, <2>1
    <3>2. L[d] = f[d - 1]  BY <1>1, <3>1
    <3>3. CASE d - 1 <= m
      <4>1. d - 1 \in 0 .. m  BY <3>1, <3>3
      <4>2. QED  BY <1>0, <1>6, <3>1, <3>2, <3>3, <4>1
    <3>4. CASE d - 1 > m
      <4>1. m < last  BY <1>0, <3>1, <3>4
      <4>2. QED  BY <1>7, <3>1, <3>2, <3>4, <4>1
    <3>5. QED  BY <1>3, <3>1, <3>3, <3>4
  <2>2. QED  BY <1>0, <1>3, <2>1
<1>9. Chain(platform, errors, top) = [d \in 1 .. m + 1 |-> L[d]]
  <2>1. Chain(platform, errors, top)
          = [d \in {d \in 1 .. MAX_CAUSE_DEPTH : L[d] # NoError} |-> L[d]]
    BY DEF Chain
  <2>2. QED  BY <1>8, <2>1
<1> HIDE DEF L
<1>10. \A d \in 1 .. m + 1 : L[d] \in Errors /\ L[d] = f[d - 1]
  <2>1. ASSUME NEW d \in 1 .. m + 1  PROVE L[d] \in Errors /\ L[d] = f[d - 1]
    <3>1. d - 1 \in 0 .. m /\ d - 1 \in 0 .. last /\ (d - 1) + 1 = d  BY <1>0, <1>3, <2>1
    <3>2. QED  BY <1>1, <1>6, <3>1
  <2>2. QED  BY <2>1
<1>11. c[m] = c[last]
  <2>1. CASE m = last  BY <2>1
  <2>2. CASE m < last  BY <1>0, <1>7, <2>2
  <2>3. QED  BY <1>0, <1>3, <2>1, <2>2
<1>12. L[m + 1] = c[last]
  <2>1. m + 1 \in 1 .. m + 1 /\ (m + 1) - 1 = m /\ m \in 0 .. m  OBVIOUS
  <2>2. QED  BY <1>6, <1>10, <1>11, <2>1
<1>13. PICK chain : chain = [d \in 1 .. m + 1 |-> L[d]]  OBVIOUS
<1>14. chain \in Seq(Errors) /\ Len(chain) = m + 1 /\ chain[m + 1] = L[m + 1]
  BY <1>10, <1>13
<1>15. Len(chain) \in 1 .. MAX_CAUSE_DEPTH  BY <1>0, <1>3, <1>14
<1>16. QED  BY <1>2, <1>9, <1>12, <1>13, <1>14, <1>15

-----------------------------------------------------------------------------
(* The frames of an exception, as the worker keeps them.                   *)

StackFrames == [file : Names, func : Names, line : Nat, in_app : BOOLEAN]

Normal(frames) ==
    LET capped == Capped(frames) IN [n \in DOMAIN capped |-> _normalize_frame(capped[n])]

LEMMA FrameCut ==
    ASSUME NEW f, NEW file, NEW func, NEW line, NEW in_app,
           f = [file |-> file, func |-> func, line |-> line, in_app |-> in_app]
    PROVE  _normalize_frame(f)
             = [file |-> Cut[file], func |-> Cut[func], line |-> line, in_app |-> in_app]
<1>1. PICK g : g = [f EXCEPT !.file = Cut[file]]  OBVIOUS
<1>2. g = [file |-> Cut[file], func |-> func, line |-> line, in_app |-> in_app]  BY <1>1
<1>3. [g EXCEPT !.func = Cut[func]]
        = [file |-> Cut[file], func |-> Cut[func], line |-> line, in_app |-> in_app]
  BY <1>2
<1>4. _normalize_frame(f) = [f EXCEPT !.file = Cut[file], !.func = Cut[func]]
  BY DEF _normalize_frame
<1>5. QED  BY <1>1, <1>3, <1>4

LEMMA FrameNormal ==
    ASSUME NEW f \in StackFrames
    PROVE  /\ _normalize_frame(f) \in StackFrames
           /\ _normalize_frame(f).file = Cut[f.file] /\ _normalize_frame(f).func = Cut[f.func]
           /\ _normalize_frame(f).in_app = f.in_app
           /\ _normalize_frame(_normalize_frame(f)) = _normalize_frame(f)
<1>1. PICK file \in Names, func \in Names, line \in Nat, in_app \in BOOLEAN :
          f = [file |-> file, func |-> func, line |-> line, in_app |-> in_app]
  BY DEF StackFrames
<1>2. \A n \in Names : Cut[n] \in Names /\ Cut[Cut[n]] = Cut[n]  BY GroupingAssumption
<1>3. _normalize_frame(f)
        = [file |-> Cut[file], func |-> Cut[func], line |-> line, in_app |-> in_app]
  BY <1>1, FrameCut
<1>4. PICK g : g = _normalize_frame(f)  OBVIOUS
<1>5. g \in StackFrames  BY <1>2, <1>3, <1>4 DEF StackFrames
<1>6. _normalize_frame(g)
        = [file |-> Cut[Cut[file]], func |-> Cut[Cut[func]], line |-> line, in_app |-> in_app]
  BY <1>3, <1>4, FrameCut
<1>7. _normalize_frame(g) = g  BY <1>2, <1>3, <1>4, <1>6
<1>8. QED  BY <1>1, <1>3, <1>4, <1>5, <1>7

LEMMA NormalIs ==
    ASSUME NEW F \in Seq(StackFrames)
    PROVE  /\ Normal(F) \in Seq(StackFrames)
           /\ Len(Normal(F)) = IF Len(F) > MAX_FRAMES THEN MAX_FRAMES ELSE Len(F)
           /\ \A k \in 1 .. Len(Normal(F)) :
                 Normal(F)[k] = _normalize_frame(F[Len(F) - Len(Normal(F)) + k])
<1>0. MAX_FRAMES \in Nat \ {0}  BY GroupingAssumption
<1>1. PICK c : c = Capped(F)  OBVIOUS
<1>2. /\ c \in Seq(StackFrames) /\ Len(c) = IF Len(F) > MAX_FRAMES THEN MAX_FRAMES ELSE Len(F)
      /\ \A k \in 1 .. Len(c) : c[k] = F[Len(F) - Len(c) + k]
  BY <1>0, <1>1, LastNIs DEF Capped
<1>3. Normal(F) = [n \in 1 .. Len(c) |-> _normalize_frame(c[n])]  BY <1>1, <1>2 DEF Normal
<1>4. \A n \in 1 .. Len(c) : _normalize_frame(c[n]) \in StackFrames
  <2>1. \A n \in 1 .. Len(c) : c[n] \in StackFrames  BY <1>2
  <2>2. QED  BY <2>1, FrameNormal
<1>5. PICK m : m = [n \in 1 .. Len(c) |-> _normalize_frame(c[n])]  OBVIOUS
<1>6. Len(c) \in Nat  BY <1>2
<1>7. m \in Seq(StackFrames) /\ Len(m) = Len(c)  BY <1>4, <1>5, <1>6
<1>8. \A k \in 1 .. Len(c) : m[k] = _normalize_frame(F[Len(F) - Len(c) + k])  BY <1>2, <1>5
<1>9. QED  BY <1>2, <1>3, <1>5, <1>7, <1>8

LEMMA NormalTwice ==
    ASSUME NEW F \in Seq(StackFrames)
    PROVE  Normal(Normal(F)) = Normal(F)
<1>0. MAX_FRAMES \in Nat \ {0}  BY GroupingAssumption
<1>1. PICK m : m = Normal(F)  OBVIOUS
<1>2. /\ m \in Seq(StackFrames) /\ Len(m) = IF Len(F) > MAX_FRAMES THEN MAX_FRAMES ELSE Len(F)
      /\ \A k \in 1 .. Len(m) : m[k] = _normalize_frame(F[Len(F) - Len(m) + k])
  BY <1>1, NormalIs
<1>3. ~ (Len(m) > MAX_FRAMES)  BY <1>0, <1>2
<1>4. Capped(m) = m  BY <1>3 DEF Capped, LastN
<1>5. Normal(m) = [n \in 1 .. Len(m) |-> _normalize_frame(m[n])]  BY <1>2, <1>4 DEF Normal
<1>6. ASSUME NEW n \in 1 .. Len(m)  PROVE _normalize_frame(m[n]) = m[n]
  <2>1. Len(F) - Len(m) + n \in 1 .. Len(F)  BY <1>0, <1>2
  <2>2. F[Len(F) - Len(m) + n] \in StackFrames  BY <2>1
  <2>3. QED  BY <1>2, <2>2, FrameNormal
<1>7. m = [n \in 1 .. Len(m) |-> m[n]]  BY <1>2
<1>8. QED  BY <1>1, <1>5, <1>6, <1>7

\* What the SDK cuts off, the worker would have.
LEMMA NormalSent ==
    ASSUME NEW platform, NEW F \in Seq(StackFrames)
    PROVE  /\ BuildFrames(platform, F) \in Seq(StackFrames)
           /\ Normal(BuildFrames(platform, F)) = Normal(F)
<1>0. MAX_FRAMES \in Nat \ {0}  BY GroupingAssumption
<1>1. CASE platform = "python"
  <2>1. BuildFrames(platform, F) = LastN(F, MAX_FRAMES)  BY <1>1 DEF BuildFrames
  <2>2. LastN(F, MAX_FRAMES) \in Seq(StackFrames)  BY <1>0, LastNIs
  <2>3. LastN(LastN(F, MAX_FRAMES), MAX_FRAMES) = LastN(F, MAX_FRAMES)  BY <1>0, LastNTwice
  <2>4. QED  BY <2>1, <2>2, <2>3 DEF Normal, Capped
<1>2. CASE platform # "python"
  <2>1. BuildFrames(platform, F) = F  BY <1>2, ReverseTwice DEF BuildFrames
  <2>2. QED  BY <2>1
<1>3. QED  BY <1>1, <1>2

-----------------------------------------------------------------------------
(* The frames of the application, in their order.                          *)

UpTo(P, k) == Cardinality({j \in P : j <= k})
Above(P, k) == Cardinality({j \in P : j > k})

\* C lists the frames of m that are at the places P.
Lists(C, P, m) ==
    /\ C \in Seq(StackFrames) /\ Len(C) = Cardinality(P)
    /\ \A k \in P : C[UpTo(P, k)] = m[k]
    /\ \A i \in 1 .. Len(C) : \E k \in P : UpTo(P, k) = i

LEMMA PlacesFinite ==
    ASSUME NEW n \in Nat, NEW P \in SUBSET (1 .. n)
    PROVE  IsFiniteSet(P) /\ Cardinality(P) \in Nat
<1>1. IsFiniteSet(1 .. n)  BY FS_Interval
<1>2. IsFiniteSet(P)  BY <1>1, FS_Subset
<1>3. QED  BY <1>2, FS_CardinalityType

LEMMA AllListed ==
    ASSUME NEW m \in Seq(StackFrames)
    PROVE  Lists(m, 1 .. Len(m), m)
<1>0. Len(m) \in Nat  OBVIOUS
<1>1. Cardinality(1 .. Len(m)) = Len(m)
  <2>1. PICK n \in Nat : n = Len(m)  BY <1>0
  <2>2. Cardinality(1 .. n) = n  BY FS_Interval
  <2>3. QED  BY <2>1, <2>2
<1>2. ASSUME NEW k \in 1 .. Len(m)  PROVE UpTo(1 .. Len(m), k) = k
  <2>1. {j \in 1 .. Len(m) : j <= k} = 1 .. k  BY <1>0
  <2>2. Cardinality(1 .. k) = k  BY FS_Interval
  <2>3. QED  BY <2>1, <2>2 DEF UpTo
<1>3. QED  BY <1>1, <1>2 DEF Lists

LEMMA OneMoreListed ==
    ASSUME NEW m \in Seq(StackFrames), NEW n \in Nat, n + 1 <= Len(m),
           NEW P \in SUBSET (1 .. n), NEW C, Lists(C, P, m)
    PROVE  Lists(Append(C, m[n + 1]), P \cup {n + 1}, m)
<1> DEFINE Q == P \cup {n + 1}
<1>0. \A j \in P : j \in 1 .. n  OBVIOUS
<1>1. IsFiniteSet(P) /\ Cardinality(P) \in Nat /\ n + 1 \notin P
  <2>1. n + 1 \notin P  BY <1>0
  <2>2. QED  BY <2>1, PlacesFinite
<1>2. Cardinality(Q) = Cardinality(P) + 1  BY <1>1, FS_AddElement
<1>3. ASSUME NEW k \in P  PROVE UpTo(Q, k) = UpTo(P, k)
  <2>1. {j \in Q : j <= k} = {j \in P : j <= k}  OBVIOUS
  <2>2. QED  BY <2>1 DEF UpTo
<1>4. UpTo(Q, n + 1) = Cardinality(P) + 1
  <2>1. \A j \in Q : j <= n + 1  BY <1>0
  <2>2. {j \in Q : j <= n + 1} = Q  BY <2>1
  <2>3. QED  BY <1>2, <2>2 DEF UpTo
<1>5. PICK f : f = m[n + 1]  OBVIOUS
<1>6. f \in StackFrames
  <2>1. n + 1 \in 1 .. Len(m)  OBVIOUS
  <2>2. QED  BY <1>5, <2>1
<1>7. C \in Seq(StackFrames) /\ Len(C) = Cardinality(P)  BY DEF Lists
<1>8. PICK D : D = Append(C, f)  OBVIOUS
<1>9. /\ D \in Seq(StackFrames) /\ Len(D) = Len(C) + 1 /\ D[Len(C) + 1] = f
      /\ \A i \in 1 .. Len(C) : D[i] = C[i]
  BY <1>6, <1>7, <1>8
<1>10. ASSUME NEW k \in P  PROVE UpTo(P, k) \in 1 .. Len(C)
  <2>1. {j \in P : j <= k} \in SUBSET P /\ {j \in P : j <= k} # {}  OBVIOUS
  <2>2. UpTo(P, k) \in Nat /\ UpTo(P, k) <= Cardinality(P) /\ UpTo(P, k) # 0
    BY <1>1, <2>1, FS_Subset, FS_CardinalityType, FS_EmptySet DEF UpTo
  <2>3. QED  BY <1>7, <2>2
<1>11. ASSUME NEW k \in Q  PROVE D[UpTo(Q, k)] = m[k]
  <2>1. CASE k \in P
    <3>1. C[UpTo(P, k)] = m[k]  BY <2>1 DEF Lists
    <3>2. QED  BY <1>3, <1>9, <1>10, <2>1, <3>1
  <2>2. CASE k = n + 1  BY <1>4, <1>5, <1>7, <1>9, <2>2
  <2>3. QED  BY <2>1, <2>2
<1>12. ASSUME NEW i \in 1 .. Len(D)  PROVE \E k \in Q : UpTo(Q, k) = i
  <2>1. CASE i \in 1 .. Len(C)
    <3>1. PICK k \in P : UpTo(P, k) = i  BY <2>1 DEF Lists
    <3>2. QED  BY <1>3, <3>1
  <2>2. CASE i = Len(C) + 1  BY <1>4, <1>7, <2>2
  <2>3. i \in 1 .. Len(C) \/ i = Len(C) + 1  BY <1>1, <1>7, <1>9
  <2>4. QED  BY <2>1, <2>2, <2>3
<1>13. Lists(D, Q, m)  BY <1>2, <1>7, <1>9, <1>11, <1>12 DEF Lists
<1>14. QED  BY <1>5, <1>8, <1>13

Kept(frames) == {k \in 1 .. Len(frames) : frames[k].in_app}

LEMMA InAppIs ==
    ASSUME NEW m \in Seq(StackFrames)
    PROVE  Lists(InApp(m), Kept(m), m)
<1> DEFINE V == Seq(StackFrames)
           after(n) == [v \in V |-> IF n < Len(m) /\ m[n + 1].in_app
                                    THEN Append(v, m[n + 1]) ELSE v]
           next == [n \in Nat |-> after(n)]
           P(g) == g = [n \in 0 .. Len(m) |->
                          IF n = 0 THEN <<>>
                          ELSE IF m[n].in_app THEN Append(g[n - 1], m[n]) ELSE g[n - 1]]
           kept == CHOOSE g : P(g)
<1>0. Len(m) \in Nat /\ \A n \in 1 .. Len(m) : m[n] \in StackFrames /\ m[n].in_app \in BOOLEAN
  <2>1. \A n \in 1 .. Len(m) : m[n] \in StackFrames  OBVIOUS
  <2>2. QED  BY <2>1 DEF StackFrames
<1>1. \A n \in Nat : after(n) \in [V -> V]
  <2>1. ASSUME NEW n \in Nat, n < Len(m), NEW v \in V  PROVE Append(v, m[n + 1]) \in V
    <3>1. m[n + 1] \in StackFrames  BY <1>0, <2>1
    <3>2. QED  BY <3>1
  <2>2. QED  BY <2>1
<1>2. PICK f : Iterates(f, V, <<>>, next)
  <2>1. next \in [Nat -> [V -> V]] /\ <<>> \in V  BY <1>1
  <2> HIDE DEF next, V
  <2>2. QED  BY <2>1, RecursionExists
<1>3. /\ f \in [Nat -> V] /\ f[0] = <<>>
      /\ \A n \in 0 .. Len(m) - 1 :
            f[n + 1] = IF m[n + 1].in_app THEN Append(f[n], m[n + 1]) ELSE f[n]
  <2>1. f \in [Nat -> V] /\ f[0] = <<>> /\ \A n \in Nat : f[n + 1] = next[n][f[n]]
    BY <1>2 DEF Iterates
  <2>2. ASSUME NEW n \in 0 .. Len(m) - 1
        PROVE  f[n + 1] = IF m[n + 1].in_app THEN Append(f[n], m[n + 1]) ELSE f[n]
    <3>1. n \in Nat /\ n < Len(m) /\ f[n] \in V
      <4> HIDE DEF V, next
      <4>1. n \in Nat /\ n < Len(m)  BY <1>0
      <4>2. QED  BY <2>1, <4>1
    <3>2. f[n + 1] = after(n)[f[n]]
      <4> HIDE DEF after, V
      <4>1. next[n] = after(n)  BY <3>1
      <4>2. f[n + 1] = next[n][f[n]]  BY <2>1, <3>1
      <4> HIDE DEF next
      <4>3. QED  BY <4>1, <4>2
    <3>3. QED  BY <3>1, <3>2
  <2>3. QED  BY <2>1, <2>2
<1>4. P([n \in 0 .. Len(m) |-> f[n]])
  <2>1. ASSUME NEW n \in 0 .. Len(m), n # 0
        PROVE  /\ n - 1 \in 0 .. Len(m)
               /\ f[n] = IF m[n].in_app THEN Append(f[n - 1], m[n]) ELSE f[n - 1]
    <3>1. n - 1 \in 0 .. Len(m) - 1 /\ (n - 1) + 1 = n /\ n - 1 \in 0 .. Len(m)  BY <1>0, <2>1
    <3>2. QED  BY <1>3, <3>1
  <2>2. QED  BY <1>0, <1>3, <2>1
<1>5. P(kept)
  <2> HIDE DEF P
  <2>1. QED  BY <1>4
<1>6. InApp(m) = kept[Len(m)]  BY DEF InApp
<1> HIDE DEF kept
<1> DEFINE places(n) == {k \in 1 .. n : m[k].in_app}
           S == {n \in Nat : n <= Len(m) => kept[n] = f[n] /\ Lists(f[n], places(n), m)}
<1>7. 0 \in S
  <2>1. places(0) = {} /\ <<>> \in Seq(StackFrames) /\ Len(<<>>) = 0  OBVIOUS
  <2>2. Lists(<<>>, {}, m)  BY <2>1, FS_EmptySet DEF Lists
  <2>3. QED  BY <1>0, <1>3, <1>5, <2>1, <2>2
<1>8. ASSUME NEW n \in Nat, n \in S  PROVE n + 1 \in S
  <2>1. CASE n + 1 <= Len(m)
    <3>1. kept[n] = f[n] /\ Lists(f[n], places(n), m)  BY <1>0, <1>8, <2>1
    <3>2. n + 1 \in 0 .. Len(m) /\ n + 1 # 0 /\ (n + 1) - 1 = n /\ n \in 0 .. Len(m) - 1  BY <1>0, <2>1
    <3>3. kept[n + 1] = IF m[n + 1].in_app THEN Append(kept[n], m[n + 1]) ELSE kept[n]
      BY <1>5, <3>2
    <3>4. kept[n + 1] = f[n + 1]  BY <1>3, <3>1, <3>2, <3>3
    <3>5. Lists(f[n + 1], places(n + 1), m)
      <4>1. CASE m[n + 1].in_app
        <5>1. places(n + 1) = places(n) \cup {n + 1}  BY <4>1
        <5>2. Lists(Append(f[n], m[n + 1]), places(n) \cup {n + 1}, m)
          <6>1. places(n) \in SUBSET (1 .. n)  OBVIOUS
          <6> HIDE DEF places
          <6>2. QED  BY <2>1, <3>1, <6>1, OneMoreListed
        <5>3. f[n + 1] = Append(f[n], m[n + 1])  BY <1>3, <3>2, <4>1
        <5>4. QED  BY <5>1, <5>2, <5>3
      <4>2. CASE ~ m[n + 1].in_app
        <5>1. places(n + 1) = places(n)  BY <4>2
        <5>2. f[n + 1] = f[n]  BY <1>3, <3>2, <4>2
        <5>3. QED  BY <3>1, <5>1, <5>2
      <4>3. QED  BY <4>1, <4>2
    <3>6. QED  BY <3>4, <3>5
  <2>2. CASE ~ (n + 1 <= Len(m))  BY <2>2
  <2>3. QED  BY <2>1, <2>2
<1>9. Lists(f[Len(m)], places(Len(m)), m) /\ kept[Len(m)] = f[Len(m)]
  <2> HIDE DEF S
  <2>1. Nat \subseteq S  BY <1>7, <1>8, AllFollow
  <2>2. Len(m) \in S /\ Len(m) <= Len(m)  BY <1>0, <2>1
  <2> HIDE DEF places
  <2>3. QED  BY <2>2 DEF S
<1>10. QED  BY <1>6, <1>9 DEF Kept

\* Counted from the end.
LEMMA ListedFromEnd ==
    ASSUME NEW n \in Nat, NEW P \in SUBSET (1 .. n), NEW m, NEW C, Lists(C, P, m), NEW k \in P
    PROVE  /\ UpTo(P, k) \in 1 .. Len(C)
           /\ Above(P, k) = Len(C) - UpTo(P, k)
<1> DEFINE A == {j \in P : j <= k}
           B == {j \in P : j > k}
<1>1. IsFiniteSet(P) /\ Cardinality(P) \in Nat  BY PlacesFinite
<1>2. A \in SUBSET P /\ B \in SUBSET P /\ A \cup B = P /\ A \cap B = {} /\ k \in A
  <2>1. \A j \in P : j \in Nat  OBVIOUS
  <2>2. \A j \in P : j > k <=> ~ (j <= k)  BY <2>1
  <2>3. \A j : j \in B <=> j \in P /\ j \notin A  BY <2>2
  <2>4. k \in A  BY <2>1
  <2> HIDE DEF B
  <2>5. A \subseteq P  OBVIOUS
  <2> HIDE DEF A
  <2>6. B = P \ A  BY <2>3
  <2>7. QED  BY <2>4, <2>5, <2>6
<1> HIDE DEF A, B
<1>3. /\ IsFiniteSet(A) /\ IsFiniteSet(B)
      /\ Cardinality(A) \in Nat /\ Cardinality(B) \in Nat
  BY <1>1, <1>2, FS_Subset, FS_CardinalityType
<1>4. Cardinality(A) # 0  BY <1>2, <1>3, FS_EmptySet
<1>5. Cardinality(P) = Cardinality(A) + Cardinality(B) - Cardinality(A \cap B)
  BY <1>2, <1>3, FS_Union
<1>6. Cardinality(A \cap B) = 0  BY <1>2, FS_EmptySet
<1>7. Len(C) = Cardinality(A) + Cardinality(B)  BY <1>3, <1>5, <1>6 DEF Lists
<1>8. QED  BY <1>3, <1>4, <1>7 DEF UpTo, Above, A, B

-----------------------------------------------------------------------------
(* The place of a crash, as the fingerprint has it and as CrashSite says it.  *)

Signature(frames) ==
    LET norm == Normal(frames)
        in_app == InApp(norm)
        candidates == IF in_app # <<>> THEN in_app ELSE norm
        selected == LastN(candidates, FINGERPRINT_FRAME_LIMIT)
    IN  [n \in DOMAIN selected |-> <<selected[n].file, selected[n].func>>]

Spots(S) == {<<Len(S) - i, S[i][1], S[i][2]>> : i \in 1 .. Len(S)}

\* The spots of a sequence tell which sequence it is.
LEMMA SpotsTell ==
    ASSUME NEW S \in Seq(Names \X Names), NEW T \in Seq(Names \X Names), Spots(S) = Spots(T)
    PROVE  S = T
<1>1. ASSUME NEW U \in Seq(Names \X Names), NEW W \in Seq(Names \X Names), Spots(U) = Spots(W),
             NEW i \in 1 .. Len(U)
      PROVE  Len(U) - i < Len(W) /\ W[Len(W) - (Len(U) - i)] = U[i]
  <2>1. <<Len(U) - i, U[i][1], U[i][2]>> \in Spots(W)  BY <1>1 DEF Spots
  <2>2. PICK j \in 1 .. Len(W) : <<Len(U) - i, U[i][1], U[i][2]>> = <<Len(W) - j, W[j][1], W[j][2]>>
    BY <2>1 DEF Spots
  <2>3. Len(U) - i = Len(W) - j /\ U[i][1] = W[j][1] /\ U[i][2] = W[j][2]  BY <2>2
  <2>4. U[i] \in Names \X Names /\ W[j] \in Names \X Names  BY <1>1
  <2>5. U[i] = W[j]
    <3>1. \A p \in Names \X Names : p = <<p[1], p[2]>>  OBVIOUS
    <3>2. U[i] = <<U[i][1], U[i][2]>> /\ W[j] = <<W[j][1], W[j][2]>>  BY <2>4, <3>1
    <3>3. QED  BY <2>3, <3>2
  <2>6. Len(U) \in Nat /\ Len(W) \in Nat  BY <1>1
  <2>7. j = Len(W) - (Len(U) - i) /\ Len(U) - i < Len(W)  BY <2>3, <2>6
  <2>8. QED  BY <2>5, <2>7
<1>2. ASSUME NEW U \in Seq(Names \X Names), NEW W \in Seq(Names \X Names), Spots(U) = Spots(W)
      PROVE  Len(U) <= Len(W)
  <2>1. Len(U) \in Nat /\ Len(W) \in Nat  BY <1>2
  <2>2. CASE Len(U) # 0
    <3>1. 1 \in 1 .. Len(U)  BY <2>1, <2>2
    <3>2. Len(U) - 1 < Len(W)  BY <1>1, <1>2, <3>1
    <3>3. QED  BY <2>1, <3>2
  <2>3. CASE Len(U) = 0  BY <2>1, <2>3
  <2>4. QED  BY <2>2, <2>3
<1>3. Len(S) = Len(T)
  <2>1. Len(S) <= Len(T) /\ Len(T) <= Len(S)  BY <1>2
  <2>2. Len(S) \in Nat /\ Len(T) \in Nat  OBVIOUS
  <2>3. QED  BY <2>1, <2>2
<1>4. ASSUME NEW i \in 1 .. Len(S)  PROVE S[i] = T[i]
  <2>1. T[Len(T) - (Len(S) - i)] = S[i]  BY <1>1
  <2>2. Len(T) - (Len(S) - i) = i  BY <1>3
  <2>3. QED  BY <2>1, <2>2
<1>5. QED  BY <1>3, <1>4

\* What a list of the frames at P tells, each with its rank from the end.
Site(P, m) ==
    {<<Above(P, k), m[k].file, m[k].func>> :
        k \in {j \in P : Above(P, j) < FINGERPRINT_FRAME_LIMIT}}

Pairs(selected) == [n \in DOMAIN selected |-> <<selected[n].file, selected[n].func>>]

LEMMA SpotsOfList ==
    ASSUME NEW n \in Nat, NEW P \in SUBSET (1 .. n), NEW m, NEW C, Lists(C, P, m)
    PROVE  LET S == Pairs(LastN(C, FINGERPRINT_FRAME_LIMIT)) IN
           S \in Seq(Names \X Names) /\ Spots(S) = Site(P, m)
<1> DEFINE L == FINGERPRINT_FRAME_LIMIT
<1>0. L \in Nat \ {0} /\ C \in Seq(StackFrames) /\ Len(C) \in Nat  BY GroupingAssumption DEF Lists
<1>1. PICK s : s = LastN(C, L)  OBVIOUS
<1>2. /\ s \in Seq(StackFrames) /\ Len(s) = IF Len(C) > L THEN L ELSE Len(C)
      /\ \A k \in 1 .. Len(s) : s[k] = C[Len(C) - Len(s) + k]
  BY <1>0, <1>1, LastNIs
<1>3. PICK S : S = Pairs(s)  OBVIOUS
<1>4. Len(s) \in Nat /\ \A k \in 1 .. Len(s) : s[k].file \in Names /\ s[k].func \in Names
  <2>1. \A k \in 1 .. Len(s) : s[k] \in StackFrames  BY <1>2
  <2>2. QED  BY <1>2, <2>1 DEF StackFrames
<1>5. S = [k \in 1 .. Len(s) |-> <<s[k].file, s[k].func>>]  BY <1>2, <1>3 DEF Pairs
<1>6. S \in Seq(Names \X Names) /\ Len(S) = Len(s)  BY <1>4, <1>5
<1>7. \A i \in 1 .. Len(S) : S[i][1] = s[i].file /\ S[i][2] = s[i].func  BY <1>5, <1>6
<1> DEFINE d == Len(C) - Len(S)
<1>8. ASSUME NEW k \in P, Above(P, k) < L
      PROVE  <<Above(P, k), m[k].file, m[k].func>> \in Spots(S)
  <2>1. PICK j : j = UpTo(P, k)  OBVIOUS
  <2>2. j \in 1 .. Len(C) /\ Above(P, k) = Len(C) - j  BY <2>1, ListedFromEnd
  <2>3. C[j] = m[k]  BY <2>1 DEF Lists
  <2>4. j - d \in 1 .. Len(S) /\ Len(S) - (j - d) = Len(C) - j /\ d + (j - d) = j
    <3>1. Len(C) - j < L /\ j \in 1 .. Len(C)  BY <1>8, <2>2
    <3>2. CASE Len(C) > L
      <4>1. Len(S) = L  BY <1>2, <1>6, <3>2
      <4>2. QED  BY <1>0, <3>1, <3>2, <4>1
    <3>3. CASE ~ (Len(C) > L)
      <4>1. Len(S) = Len(C)  BY <1>2, <1>6, <3>3
      <4>2. QED  BY <1>0, <3>1, <4>1
    <3>4. QED  BY <3>2, <3>3
  <2>5. PICK i : i = j - d  OBVIOUS
  <2>6. i \in 1 .. Len(S) /\ Len(S) - i = Above(P, k) /\ d + i = j  BY <2>2, <2>4, <2>5
  <2>7. s[i] = m[k]  BY <1>2, <1>6, <2>3, <2>6
  <2>8. S[i][1] = m[k].file /\ S[i][2] = m[k].func  BY <1>7, <2>6, <2>7
  <2>9. QED  BY <2>6, <2>8 DEF Spots
<1>9. ASSUME NEW i \in 1 .. Len(S)
      PROVE  <<Len(S) - i, S[i][1], S[i][2]>> \in Site(P, m)
  <2>1. d + i \in 1 .. Len(C) /\ Len(C) - (d + i) = Len(S) - i /\ Len(S) - i < L
    BY <1>0, <1>2, <1>6
  <2>2. PICK j : j = d + i  OBVIOUS
  <2>3. PICK k \in P : UpTo(P, k) = j  BY <2>1, <2>2 DEF Lists
  <2>4. Above(P, k) = Len(C) - j  BY <2>3, ListedFromEnd
  <2>5. C[j] = m[k]  BY <2>3 DEF Lists
  <2>6. Above(P, k) = Len(S) - i /\ Above(P, k) < L  BY <2>1, <2>2, <2>4
  <2>7. s[i] = m[k]  BY <1>2, <1>6, <2>2, <2>5
  <2>8. S[i][1] = m[k].file /\ S[i][2] = m[k].func  BY <1>7, <2>7
  <2>9. QED  BY <2>6, <2>8 DEF Site
<1>10. Spots(S) = Site(P, m)
  <2>1. Site(P, m) \subseteq Spots(S)  BY <1>8 DEF Site
  <2>2. Spots(S) \subseteq Site(P, m)  BY <1>9 DEF Spots
  <2>3. QED  BY <2>1, <2>2
<1>11. QED  BY <1>1, <1>3, <1>6, <1>10

LEMMA ShiftedSize ==
    ASSUME NEW A, IsFiniteSet(A), A \subseteq Nat, NEW B, NEW c \in Nat,
           \A b : b \in B <=> b \in Nat /\ b - c \in A
    PROVE  Cardinality(B) = Cardinality(A)
<1> DEFINE f == [a \in A |-> a + c]
<1>1. \A a \in A : a \in Nat /\ a + c \in Nat /\ (a + c) - c = a  OBVIOUS
<1>2. f \in [A -> B]  BY <1>1
<1>3. \A a1, a2 \in A : f[a1] = f[a2] => a1 = a2  BY <1>1
<1>4. \A b \in B : \E a \in A : f[a] = b
  <2>1. ASSUME NEW b \in B  PROVE b - c \in A /\ f[b - c] = b  OBVIOUS
  <2>2. QED  BY <2>1
<1> HIDE DEF f
<1>5. f \in Bijection(A, B)
  BY <1>2, <1>3, <1>4 DEF Bijection, Injection, IsInjective, Surjection
<1>6. ExistsBijection(A, B)  BY <1>5 DEF ExistsBijection
<1>7. QED  BY <1>6, FS_Bijection

\* The crash site of a stack is the site of what the worker keeps of it: the frames that
\* are cut off are not near, and those that are left keep their rank.
LEMMA SiteIsNormal ==
    ASSUME NEW F \in Seq(StackFrames), NEW m, m = Normal(F), NEW P,
           P = IF Kept(m) = {} THEN 1 .. Len(m) ELSE Kept(m)
    PROVE  CrashSite(F) = Site(P, m)
<1> DEFINE c == Len(F) - Len(m)
           near == {n \in DOMAIN F : Len(F) - n < MAX_FRAMES}
           app == {n \in near : F[n].in_app}
           pool == IF app = {} THEN near ELSE app
           rank(n) == Cardinality({k \in pool : k > n})
<1>0. /\ MAX_FRAMES \in Nat \ {0} /\ Len(F) \in Nat
      /\ m \in Seq(StackFrames) /\ Len(m) = IF Len(F) > MAX_FRAMES THEN MAX_FRAMES ELSE Len(F)
      /\ \A k \in 1 .. Len(m) : m[k] = _normalize_frame(F[c + k])
  <2>1. MAX_FRAMES \in Nat \ {0}  BY GroupingAssumption
  <2>2. /\ m \in Seq(StackFrames) /\ Len(m) = IF Len(F) > MAX_FRAMES THEN MAX_FRAMES ELSE Len(F)
        /\ \A k \in 1 .. Len(m) : m[k] = _normalize_frame(F[Len(F) - Len(m) + k])
    BY NormalIs
  <2>3. Len(F) \in Nat  OBVIOUS
  <2>4. QED  BY <2>1, <2>2, <2>3, Zenon
<1>1. c \in Nat /\ Len(m) \in Nat /\ DOMAIN F = 1 .. Len(F)  BY <1>0
<1>2. near = c + 1 .. Len(F)
  <2>1. ASSUME NEW n \in 1 .. Len(F)  PROVE Len(F) - n < MAX_FRAMES <=> n >= c + 1
    BY <1>0
  <2>2. QED  BY <1>1, <2>1
<1>3. ASSUME NEW k \in 1 .. Len(m)
      PROVE  /\ c + k \in near /\ m[k].in_app = F[c + k].in_app
             /\ m[k].file = Cut[F[c + k].file] /\ m[k].func = Cut[F[c + k].func]
  <2>1. c + k \in 1 .. Len(F) /\ c + k \in c + 1 .. Len(F)  BY <1>0, <1>1
  <2>2. F[c + k] \in StackFrames  BY <2>1
  <2>3. m[k] = _normalize_frame(F[c + k])  BY <1>0
  <2>4. QED  BY <1>2, <2>1, <2>2, <2>3, FrameNormal
<1>4. \A n \in near : n - c \in 1 .. Len(m) /\ c + (n - c) = n /\ n \in Nat  BY <1>0, <1>1, <1>2
<1>5. \A n \in near : n \in app <=> n - c \in Kept(m)
  <2>1. ASSUME NEW n \in near  PROVE n \in app <=> n - c \in Kept(m)
    <3>1. PICK k : k = n - c  OBVIOUS
    <3>2. k \in 1 .. Len(m) /\ c + k = n  BY <1>4, <3>1
    <3>3. m[k].in_app = F[n].in_app  BY <1>3, <3>2
    <3>4. QED  BY <3>1, <3>2, <3>3 DEF Kept
  <2>2. QED  BY <2>1
<1>6. P \in SUBSET (1 .. Len(m))  BY DEF Kept
<1>7. app = {} <=> Kept(m) = {}
  <2>1. ASSUME NEW k \in Kept(m)  PROVE c + k \in app
    <3>1. k \in 1 .. Len(m)  BY DEF Kept
    <3> HIDE DEF app, near
    <3>2. c + k \in near  BY <1>3, <3>1
    <3>3. (c + k) - c = k  BY <1>1, <3>1
    <3>4. QED  BY <1>5, <3>2, <3>3
  <2> HIDE DEF near
  <2>2. app \subseteq near  OBVIOUS
  <2> HIDE DEF app
  <2>3. QED  BY <1>5, <2>1, <2>2
<1>8. /\ \A n \in pool : n \in near
      /\ \A n \in near : n \in pool <=> n - c \in P
  <2>1. app \subseteq near  OBVIOUS
  <2> HIDE DEF app, near
  <2>2. CASE app = {}
    <3>1. pool = near /\ P = 1 .. Len(m)  BY <1>7, <2>2
    <3>2. QED  BY <1>4, <3>1
  <2>3. CASE app # {}
    <3>1. pool = app /\ P = Kept(m)  BY <1>7, <2>3
    <3>2. QED  BY <1>5, <2>1, <3>1
  <2>4. QED  BY <2>2, <2>3
<1> HIDE DEF app, pool
<1>9. \A k \in P : k \in 1 .. Len(m) /\ c + k \in pool /\ (c + k) - c = k
  <2>1. ASSUME NEW k \in P  PROVE k \in 1 .. Len(m) /\ c + k \in pool /\ (c + k) - c = k
    <3>1. k \in 1 .. Len(m)  BY <1>6
    <3>2. c + k \in near /\ (c + k) - c = k  BY <1>1, <1>3, <3>1
    <3> HIDE DEF near
    <3>3. QED  BY <1>8, <3>1, <3>2
  <2>2. QED  BY <2>1
<1>10. ASSUME NEW k \in P  PROVE rank(c + k) = Above(P, k)
  <2> DEFINE A == {p \in P : p > k}
             B == {q \in pool : q > c + k}
  <2>1. A \in SUBSET (1 .. Len(m)) /\ A \subseteq Nat  BY <1>1, <1>6
  <2>2. IsFiniteSet(A)
    <3> HIDE DEF A
    <3>1. QED  BY <1>1, <2>1, PlacesFinite
  <2>3. \A b : b \in B <=> b \in Nat /\ b - c \in A
    <3>1. ASSUME NEW b \in B  PROVE b \in Nat /\ b - c \in A
      <4>1. b \in pool /\ b > c + k  OBVIOUS
      <4>2. b \in near  BY <1>8, <4>1
      <4> HIDE DEF near
      <4>3. b \in Nat /\ b - c \in P  BY <1>4, <1>8, <4>1, <4>2
      <4>4. k \in Nat  BY <1>1, <1>9
      <4>5. b - c > k  BY <1>1, <4>1, <4>3, <4>4
      <4>6. QED  BY <4>3, <4>5
    <3>2. ASSUME NEW b, b \in Nat, b - c \in A  PROVE b \in B
      <4>1. b - c \in P /\ b - c > k  BY <3>2
      <4>2. c + (b - c) \in pool  BY <1>9, <4>1
      <4>3. c + (b - c) = b /\ k \in Nat  BY <1>1, <1>9, <3>2
      <4>4. b > c + k  BY <1>1, <3>2, <4>1, <4>3
      <4>5. QED  BY <4>2, <4>3, <4>4
    <3>3. QED  BY <3>1, <3>2
  <2>4. Cardinality(B) = Cardinality(A)
    <3> HIDE DEF A, B
    <3>1. QED  BY <1>1, <2>1, <2>2, <2>3, ShiftedSize
  <2>5. QED  BY <2>4 DEF Above
<1>11. CrashSite(F) = {<<rank(n), Cut[F[n].file], Cut[F[n].func]>> :
                          n \in {k \in pool : rank(k) < FINGERPRINT_FRAME_LIMIT}}
  BY DEF CrashSite, pool, app
<1> HIDE DEF near, rank
<1>12. ASSUME NEW n \in pool, rank(n) < FINGERPRINT_FRAME_LIMIT
       PROVE  <<rank(n), Cut[F[n].file], Cut[F[n].func]>> \in Site(P, m)
  <2>1. PICK k : k = n - c  OBVIOUS
  <2>2. k \in P /\ c + k = n  BY <1>4, <1>8, <2>1
  <2>3. rank(n) = Above(P, k)  BY <1>10, <2>2
  <2>4. m[k].file = Cut[F[n].file] /\ m[k].func = Cut[F[n].func]  BY <1>3, <1>9, <2>2
  <2>5. QED  BY <1>12, <2>2, <2>3, <2>4 DEF Site
<1>13. ASSUME NEW k \in P, Above(P, k) < FINGERPRINT_FRAME_LIMIT
       PROVE  <<Above(P, k), m[k].file, m[k].func>> \in CrashSite(F)
  <2>1. PICK n : n = c + k  OBVIOUS
  <2>2. n \in pool /\ rank(n) = Above(P, k)  BY <1>9, <1>10, <2>1
  <2>3. m[k].file = Cut[F[n].file] /\ m[k].func = Cut[F[n].func]  BY <1>3, <1>9, <2>1
  <2>4. QED  BY <1>11, <1>13, <2>2, <2>3
<1>14. Site(P, m) \subseteq CrashSite(F)
  <2> SUFFICES ASSUME NEW spot \in Site(P, m)  PROVE spot \in CrashSite(F)  OBVIOUS
  <2>1. PICK k \in P : /\ Above(P, k) < FINGERPRINT_FRAME_LIMIT
                       /\ spot = <<Above(P, k), m[k].file, m[k].func>>
    BY DEF Site
  <2>2. QED  BY <1>13, <2>1
<1>15. CrashSite(F) \subseteq Site(P, m)
  <2> SUFFICES ASSUME NEW spot \in CrashSite(F)  PROVE spot \in Site(P, m)  OBVIOUS
  <2>1. PICK n \in pool : /\ rank(n) < FINGERPRINT_FRAME_LIMIT
                          /\ spot = <<rank(n), Cut[F[n].file], Cut[F[n].func]>>
    BY <1>11
  <2>2. QED  BY <1>12, <2>1
<1>16. QED  BY <1>14, <1>15

LEMMA SignatureIs ==
    ASSUME NEW F \in Seq(StackFrames)
    PROVE  Signature(F) \in Seq(Names \X Names) /\ Spots(Signature(F)) = CrashSite(F)
<1>1. PICK m : m = Normal(F)  OBVIOUS
<1>2. m \in Seq(StackFrames) /\ Len(m) \in Nat  BY <1>1, NormalIs
<1>3. PICK P : P = IF Kept(m) = {} THEN 1 .. Len(m) ELSE Kept(m)  OBVIOUS
<1>4. PICK C : C = IF InApp(m) # <<>> THEN InApp(m) ELSE m  OBVIOUS
<1>5. Kept(m) \in SUBSET (1 .. Len(m)) /\ P \in SUBSET (1 .. Len(m))  BY <1>3 DEF Kept
<1>6. Lists(InApp(m), Kept(m), m)  BY <1>2, InAppIs
<1>7. InApp(m) = <<>> <=> Kept(m) = {}
  <2>1. IsFiniteSet(Kept(m))  BY <1>2, <1>5, PlacesFinite
  <2>2. Len(InApp(m)) = Cardinality(Kept(m)) /\ InApp(m) \in Seq(StackFrames)  BY <1>6 DEF Lists
  <2>3. Cardinality(Kept(m)) = 0 <=> Kept(m) = {}  BY <2>1, FS_EmptySet
  <2>4. QED  BY <2>2, <2>3
<1>8. Lists(C, P, m)
  <2>1. CASE Kept(m) = {}
    <3>1. C = m /\ P = 1 .. Len(m)  BY <1>3, <1>4, <1>7, <2>1
    <3>2. QED  BY <1>2, <3>1, AllListed
  <2>2. CASE Kept(m) # {}
    <3>1. C = InApp(m) /\ P = Kept(m)  BY <1>3, <1>4, <1>7, <2>2
    <3>2. QED  BY <1>6, <3>1
  <2>3. QED  BY <2>1, <2>2
<1>9. Signature(F) = Pairs(LastN(C, FINGERPRINT_FRAME_LIMIT))  BY <1>1, <1>4 DEF Signature, Pairs
<1>10. CrashSite(F) = Site(P, m)  BY <1>1, <1>3, SiteIsNormal
<1>11. QED  BY <1>2, <1>5, <1>8, <1>9, <1>10, SpotsOfList

-----------------------------------------------------------------------------
(* What the worker makes of a report.                                      *)

Excepted(type, frames) == [type |-> type, frames |-> frames]

LEMMA ExceptionNormal ==
    ASSUME NEW type, NEW frames
    PROVE  _normalize_exception(Excepted(type, frames)) = Excepted(type, Normal(frames))
<1>1. PICK x : x = Excepted(type, frames)  OBVIOUS
<1>2. PICK kept : kept = Normal(frames)  OBVIOUS
<1>3. x = [type |-> type, frames |-> frames]  BY <1>1 DEF Excepted
<1>4. _normalize_exception(x) = [x EXCEPT !.frames = kept]
  BY <1>2, <1>3 DEF _normalize_exception, Normal
<1>5. [x EXCEPT !.frames = kept] = [type |-> type, frames |-> kept]  BY <1>3
<1>6. QED  BY <1>1, <1>2, <1>4, <1>5 DEF Excepted

\* An envelope with the exceptions of a chain.
Enveloped(platform, exception) ==
    [platform |-> platform, level |-> "error", message |-> <<>>, exception |-> exception]

\* A chain of types and stacks, and what is left of it by normalize_envelope.
Chained(n, type, stack) == [d \in 1 .. n |-> Excepted(type[d], stack[d])]

LEMMA EnvelopeNormal ==
    ASSUME NEW platform, NEW n \in 1 .. MAX_CAUSE_DEPTH, NEW type, NEW stack
    PROVE  normalize_envelope(Enveloped(platform, Chained(n, type, stack)))
             = Enveloped(platform, Chained(n, type, [d \in 1 .. n |-> Normal(stack[d])]))
<1>0. MAX_CAUSE_DEPTH \in Nat  BY GroupingAssumption
<1>1. PICK x : x = Chained(n, type, stack)  OBVIOUS
<1>2. PICK env : env = Enveloped(platform, x)  OBVIOUS
<1>3. env = [platform |-> platform, level |-> "error", message |-> <<>>, exception |-> x]
  BY <1>2 DEF Enveloped
<1>4. x = [d \in 1 .. n |-> Excepted(type[d], stack[d])]  BY <1>1 DEF Chained
<1>5. {d \in DOMAIN x : d <= MAX_CAUSE_DEPTH} = 1 .. n  BY <1>0, <1>4
<1>6. PICK y : y = [d \in 1 .. n |-> _normalize_exception(x[d])]  OBVIOUS
<1>7. normalize_envelope(env) = [env EXCEPT !.exception = y]
  <2>1. env.exception = x  BY <1>3
  <2>2. normalize_envelope(env)
          = [env EXCEPT !.exception = [d \in 1 .. n |-> _normalize_exception(env.exception[d])]]
    BY <1>5, <2>1 DEF normalize_envelope
  <2>3. QED  BY <1>6, <2>1, <2>2
<1>8. [env EXCEPT !.exception = y]
        = [platform |-> platform, level |-> "error", message |-> <<>>, exception |-> y]
  BY <1>3
<1>9. y = Chained(n, type, [d \in 1 .. n |-> Normal(stack[d])])
  <2>1. ASSUME NEW d \in 1 .. n
        PROVE  _normalize_exception(x[d]) = Excepted(type[d], Normal(stack[d]))
    <3>1. x[d] = Excepted(type[d], stack[d])  BY <1>4
    <3>2. QED  BY <3>1, ExceptionNormal
  <2>2. PICK normal : normal = [d \in 1 .. n |-> Normal(stack[d])]  OBVIOUS
  <2>3. \A d \in 1 .. n : _normalize_exception(x[d]) = Excepted(type[d], normal[d])
    BY <2>1, <2>2
  <2>4. QED  BY <1>6, <2>2, <2>3 DEF Chained
<1>10. QED  BY <1>1, <1>2, <1>7, <1>8, <1>9 DEF Enveloped

\* The fingerprint of such an envelope, normalised: that of its last error.
LEMMA FingerprintOfChain ==
    ASSUME NEW platform, NEW n \in 1 .. MAX_CAUSE_DEPTH, NEW type, NEW stack
    PROVE  Fingerprint(Enveloped(platform, Chained(n, type, stack)))
             = [platform |-> platform, type |-> type[n], frames |-> Signature(stack[n])]
<1>0. MAX_CAUSE_DEPTH \in Nat /\ n \in Nat /\ n # 0  BY GroupingAssumption
<1>1. PICK normal : normal = [d \in 1 .. n |-> Normal(stack[d])]  OBVIOUS
<1>2. PICK x : x = Chained(n, type, normal)  OBVIOUS
<1>3. PICK env : env = Enveloped(platform, x)  OBVIOUS
<1>4. Fingerprint(Enveloped(platform, Chained(n, type, stack))) = compute_fingerprint(env)
  BY <1>1, <1>2, <1>3, EnvelopeNormal DEF Fingerprint
<1>5. env.exception = x /\ env.platform = platform  BY <1>3 DEF Enveloped
<1>6. x = [d \in 1 .. n |-> Excepted(type[d], normal[d])]  BY <1>2 DEF Chained
<1>7. Len(x) = n /\ x # <<>>
  <2>1. x \in Seq({Excepted(type[d], normal[d]) : d \in 1 .. n})  BY <1>0, <1>6
  <2>2. QED  BY <1>0, <1>6, <2>1
<1>8. walk_to_root_cause(x) = Excepted(type[n], Normal(stack[n]))
  <2>1. n \in 1 .. n  BY <1>0
  <2>2. x[n] = Excepted(type[n], normal[n]) /\ normal[n] = Normal(stack[n])  BY <1>1, <1>6, <2>1
  <2>3. QED  BY <1>7, <2>2 DEF walk_to_root_cause
<1>9. PICK root : root = walk_to_root_cause(x)  OBVIOUS
<1>10. root.type = type[n] /\ root.frames = Normal(stack[n])  BY <1>8, <1>9 DEF Excepted
<1>11. PICK selected :
          selected = LastN(IF InApp(root.frames) # <<>> THEN InApp(root.frames) ELSE root.frames,
                           FINGERPRINT_FRAME_LIMIT)
  OBVIOUS
<1>12. compute_fingerprint(env)
         = [platform |-> platform, type |-> root.type,
            frames |-> [k \in DOMAIN selected |-> <<selected[k].file, selected[k].func>>]]
  BY <1>5, <1>7, <1>9, <1>11 DEF compute_fingerprint
<1>13. Signature(stack[n]) = [k \in DOMAIN selected |-> <<selected[k].file, selected[k].func>>]
  BY <1>10, <1>11 DEF Signature
<1>14. QED  BY <1>4, <1>10, <1>12, <1>13

\* The worker sees of a stack what it keeps of it.
LEMMA SignatureOfKept ==
    ASSUME NEW F, NEW G, Normal(F) = Normal(G)
    PROVE  Signature(F) = Signature(G)
BY DEF Signature

ReportRecords == [platform : Platforms, errors : Programs, top : Errors]

\* The issue of a report is its platform, the type of its root cause, and the signature of
\* the stack of that one.
LEMMA FingerprintIs ==
    ASSUME NEW r \in ReportRecords
    PROVE  LET root == RootCause(r)
               issue == [platform |-> r.platform, type |-> root.type,
                         frames |-> Signature(root.frames)]
           IN  /\ root.frames \in Seq(StackFrames)
               /\ Fingerprint(Sent(r)) = issue
               /\ Fingerprint(normalize_envelope(Sent(r))) = issue
<1>1. PICK platform, errors, top : platform = r.platform /\ errors = r.errors /\ top = r.top
  OBVIOUS
<1>2. IsProgram(errors) /\ top \in Errors  BY <1>1, GroupingAssumption DEF ReportRecords
<1>3. PICK chain : chain = Chain(platform, errors, top)  OBVIOUS
<1>4. PICK n : n = Len(chain)  OBVIOUS
<1>5. PICK e : e = CauseAt(platform, errors, top, MAX_CAUSE_DEPTH - 1)  OBVIOUS
<1>6. chain \in Seq(Errors) /\ n \in 1 .. MAX_CAUSE_DEPTH /\ chain[n] = e
  BY <1>2, <1>3, <1>4, <1>5, ChainEnds
<1>7. MAX_CAUSE_DEPTH \in Nat /\ n \in Nat /\ n \in 1 .. n /\ DOMAIN chain = 1 .. n
  BY <1>4, <1>6, GroupingAssumption
<1>8. ASSUME NEW d \in 1 .. n  PROVE errors[chain[d]].frames \in Seq(StackFrames)
  <2>1. chain[d] \in Errors  BY <1>6, <1>7
  <2>2. QED  BY <1>2, <2>1 DEF IsProgram, StackFrames
<1>9. RootCause(r) = errors[e]  BY <1>1, <1>5 DEF RootCause
<1>10. PICK type : type = [d \in 1 .. n |-> errors[chain[d]].type]  OBVIOUS
<1>11. PICK stack : stack = [d \in 1 .. n |-> BuildFrames(platform, errors[chain[d]].frames)]
  OBVIOUS
<1>12. PICK normal : normal = [d \in 1 .. n |-> Normal(stack[d])]  OBVIOUS
<1>13. Sent(r) = Enveloped(platform, Chained(n, type, stack))
  <2>1. \A d \in 1 .. n : /\ errors[chain[d]].type = type[d]
                          /\ BuildFrames(platform, errors[chain[d]].frames) = stack[d]
    BY <1>10, <1>11
  <2>2. [d \in 1 .. n |-> [type |-> errors[chain[d]].type,
                           frames |-> BuildFrames(platform, errors[chain[d]].frames)]]
          = Chained(n, type, stack)
    BY <2>1 DEF Chained, Excepted
  <2>3. Sent(r) = [platform |-> platform, level |-> "error", message |-> <<>>,
                   exception |-> [d \in 1 .. n |->
                      [type |-> errors[chain[d]].type,
                       frames |-> BuildFrames(platform, errors[chain[d]].frames)]]]
    BY <1>1, <1>3, <1>7 DEF Sent, build_event
  <2>4. QED  BY <2>2, <2>3 DEF Enveloped
<1>14. type[n] = errors[e].type /\ stack[n] = BuildFrames(platform, errors[e].frames)
       /\ normal[n] = Normal(stack[n])
  BY <1>6, <1>7, <1>10, <1>11, <1>12
<1>15. errors[e].frames \in Seq(StackFrames)  BY <1>6, <1>7, <1>8
<1>16. Normal(stack[n]) = Normal(errors[e].frames) /\ stack[n] \in Seq(StackFrames)
  BY <1>14, <1>15, NormalSent
<1>17. Normal(normal[n]) = Normal(errors[e].frames)  BY <1>14, <1>16, NormalTwice
<1>18. /\ Signature(stack[n]) = Signature(errors[e].frames)
       /\ Signature(normal[n]) = Signature(errors[e].frames)
  BY <1>16, <1>17, SignatureOfKept
<1>19. PICK issue : issue = [platform |-> platform, type |-> errors[e].type,
                             frames |-> Signature(errors[e].frames)]
  OBVIOUS
<1>20. Fingerprint(Sent(r)) = issue
  BY <1>6, <1>13, <1>14, <1>18, <1>19, FingerprintOfChain
<1>21. Fingerprint(normalize_envelope(Sent(r))) = issue
  <2>1. normalize_envelope(Sent(r)) = Enveloped(platform, Chained(n, type, normal))
    BY <1>6, <1>12, <1>13, EnvelopeNormal
  <2>2. Fingerprint(Enveloped(platform, Chained(n, type, normal)))
          = [platform |-> platform, type |-> type[n], frames |-> Signature(normal[n])]
    BY <1>6, FingerprintOfChain
  <2>3. QED  BY <1>14, <1>18, <1>19, <2>1, <2>2
<1>22. QED  BY <1>1, <1>9, <1>15, <1>19, <1>20, <1>21

\* Fingerprints are equal just when the crashes are.
LEMMA FingerprintTells ==
    ASSUME NEW r \in ReportRecords, NEW s \in ReportRecords
    PROVE  (Fingerprint(Sent(r)) = Fingerprint(Sent(s))) <=> SameCrash(r, s)
<1>1. PICK rtype, rframes : rtype = RootCause(r).type /\ rframes = RootCause(r).frames  OBVIOUS
<1>2. PICK stype, sframes : stype = RootCause(s).type /\ sframes = RootCause(s).frames  OBVIOUS
<1>3. /\ rframes \in Seq(StackFrames)
      /\ Fingerprint(Sent(r))
           = [platform |-> r.platform, type |-> rtype, frames |-> Signature(rframes)]
  BY <1>1, FingerprintIs
<1>4. /\ sframes \in Seq(StackFrames)
      /\ Fingerprint(Sent(s))
           = [platform |-> s.platform, type |-> stype, frames |-> Signature(sframes)]
  BY <1>2, FingerprintIs
<1>5. (Signature(rframes) = Signature(sframes)) <=> (CrashSite(rframes) = CrashSite(sframes))
  <2>1. Signature(rframes) \in Seq(Names \X Names) /\ Spots(Signature(rframes)) = CrashSite(rframes)
    BY <1>3, SignatureIs
  <2>2. Signature(sframes) \in Seq(Names \X Names) /\ Spots(Signature(sframes)) = CrashSite(sframes)
    BY <1>4, SignatureIs
  <2>3. CASE Signature(rframes) = Signature(sframes)  BY <2>1, <2>2, <2>3
  <2>4. CASE CrashSite(rframes) = CrashSite(sframes)  BY <2>1, <2>2, <2>4, SpotsTell
  <2>5. QED  BY <2>3, <2>4
<1>6. Fingerprint(Sent(r)) = Fingerprint(Sent(s))
        <=> r.platform = s.platform /\ rtype = stype /\ Signature(rframes) = Signature(sframes)
  BY <1>3, <1>4
<1>7. SameCrash(r, s)
        <=> r.platform = s.platform /\ rtype = stype /\ CrashSite(rframes) = CrashSite(sframes)
  BY <1>1, <1>2 DEF SameCrash
<1>8. QED  BY <1>5, <1>6, <1>7

ReportsKept == reports \in Seq(ReportRecords)

\* The worker's issues are the crashes: of any programs, whatever their errors' links and
\* stacks, any limits, and any number of reports, two are of one issue just when their root
\* causes are the same error at the same place (IssuesAreCrashes).
THEOREM IssuesAreCrashesHolds == GroupingSpec => []IssuesAreCrashes
<1>1. GroupingInit => ReportsKept  BY DEF GroupingInit, ReportsKept
<1>2. ReportsKept /\ [GroupingNext]_reports => ReportsKept'
  <2> SUFFICES ASSUME ReportsKept, [GroupingNext]_reports  PROVE ReportsKept'  OBVIOUS
  <2>1. CASE GroupingNext
    <3>1. PICK platform \in Platforms, errors \in Programs, top \in Errors :
              Report(platform, errors, top)
      BY <2>1 DEF GroupingNext
    <3>2. [platform |-> platform, errors |-> errors, top |-> top] \in ReportRecords
      BY DEF ReportRecords
    <3>3. QED  BY <3>1, <3>2 DEF Report, ReportsKept
  <2>2. CASE UNCHANGED reports  BY <2>2 DEF ReportsKept
  <2>3. QED  BY <2>1, <2>2
<1>3. ReportsKept => IssuesAreCrashes
  <2> SUFFICES ASSUME ReportsKept  PROVE IssuesAreCrashes  OBVIOUS
  <2>1. \A i \in DOMAIN reports : reports[i] \in ReportRecords  BY DEF ReportsKept
  <2>2. ASSUME NEW i \in DOMAIN reports, NEW j \in DOMAIN reports
        PROVE  (Fingerprint(Sent(reports[i])) = Fingerprint(Sent(reports[j])))
                  <=> SameCrash(reports[i], reports[j])
    BY <2>1, FingerprintTells
  <2>3. ASSUME NEW i \in DOMAIN reports
        PROVE  Fingerprint(normalize_envelope(Sent(reports[i]))) = Fingerprint(Sent(reports[i]))
    <3>1. PICK r \in ReportRecords : r = reports[i]  BY <2>1
    <3>2. QED  BY <3>1, FingerprintIs
  <2>4. QED  BY <2>2, <2>3 DEF IssuesAreCrashes
<1>4. QED  BY <1>1, <1>2, <1>3, PTL DEF GroupingSpec

-----------------------------------------------------------------------------
(* Reading a source map: a fold, and the numbers.                          *)

\* A function may be defined by its first value and each next one by the last, up to m.
Folds(g, m, V, base, next) ==
    /\ g \in [0 .. m -> V]
    /\ g = [n \in 0 .. m |-> IF n = 0 THEN base ELSE next[n][g[n - 1]]]

LEMMA FoldExists ==
    ASSUME NEW V, NEW base, base \in V, NEW m \in Nat, NEW next, next \in [1 .. m -> [V -> V]]
    PROVE  \E g : Folds(g, m, V, base, next)
<1> DEFINE same == [v \in V |-> v]
           step == [n \in Nat |-> IF n + 1 \in 1 .. m THEN next[n + 1] ELSE same]
<1>1. PICK f : Iterates(f, V, base, step)
  <2>1. same \in [V -> V]  OBVIOUS
  <2> HIDE DEF same
  <2>2. step \in [Nat -> [V -> V]]  BY <2>1
  <2> HIDE DEF step
  <2>3. QED  BY <2>2, RecursionExists
<1>2. f \in [Nat -> V] /\ f[0] = base /\ \A n \in Nat : f[n + 1] = step[n][f[n]]
  BY <1>1 DEF Iterates
<1>3. ASSUME NEW n \in 0 .. m, n # 0
      PROVE  n - 1 \in 0 .. m /\ f[n] = next[n][f[n - 1]]
  <2>1. n - 1 \in Nat /\ n - 1 \in 0 .. m /\ (n - 1) + 1 = n /\ n \in 1 .. m  BY <1>3
  <2>2. step[n - 1] = next[n]
    <3> HIDE DEF same
    <3>1. QED  BY <2>1
  <2> HIDE DEF step
  <2>3. f[(n - 1) + 1] = step[n - 1][f[n - 1]]  BY <1>2, <2>1
  <2>4. QED  BY <2>1, <2>2, <2>3
<1> DEFINE g == [n \in 0 .. m |-> f[n]]
<1>4. g \in [0 .. m -> V]  BY <1>2
<1>5. ASSUME NEW n \in 0 .. m
      PROVE  g[n] = IF n = 0 THEN base ELSE next[n][g[n - 1]]
  <2>1. CASE n = 0  BY <1>2, <2>1
  <2>2. CASE n # 0
    <3>1. n - 1 \in 0 .. m /\ f[n] = next[n][f[n - 1]]  BY <1>3, <2>2
    <3>2. g[n - 1] = f[n - 1] /\ g[n] = f[n]  BY <3>1
    <3>3. QED  BY <2>2, <3>1, <3>2
  <2>3. QED  BY <2>1, <2>2
<1>6. g = [n \in 0 .. m |-> IF n = 0 THEN base ELSE next[n][g[n - 1]]]
  <2> HIDE DEF g
  <2>1. QED  BY <1>4, <1>5
<1> HIDE DEF g
<1>7. QED  BY <1>4, <1>6 DEF Folds

DigitStates ==
    [values : Seq(Int), acc : Int, weight : Int, have_bits : BOOLEAN, valid : BOOLEAN]

LEMMA SignedType == ASSUME NEW acc \in Int  PROVE Signed(acc) \in Int
BY DEF Signed

LEMMA DigitType ==
    ASSUME NEW st \in DigitStates, NEW digit \in Int
    PROVE  DecodeDigit(st, digit) \in DigitStates
<1>1. PICK acc : acc = st.acc + (digit % VLQ_CONTINUATION) * st.weight  OBVIOUS
<1>2. acc \in Int /\ Signed(acc) \in Int
  <2>1. digit % VLQ_CONTINUATION \in Int /\ st.acc \in Int /\ st.weight \in Int
    BY DEF VLQ_CONTINUATION, DigitStates
  <2>2. QED  BY <1>1, <2>1, SignedType
<1>3. DecodeDigit(st, digit) =
        IF digit < 0 THEN [st EXCEPT !.valid = FALSE]
        ELSE IF digit > VLQ_MASK
        THEN [values |-> st.values, acc |-> acc, weight |-> 32 * st.weight,
              have_bits |-> TRUE, valid |-> st.valid]
        ELSE FirstDigit(Append(st.values, Signed(acc)), st.valid)
  BY <1>1 DEF DecodeDigit
<1>4. [st EXCEPT !.valid = FALSE] \in DigitStates  BY DEF DigitStates
<1>5. [values |-> st.values, acc |-> acc, weight |-> 32 * st.weight,
       have_bits |-> TRUE, valid |-> st.valid] \in DigitStates
  BY <1>2 DEF DigitStates
<1>6. FirstDigit(Append(st.values, Signed(acc)), st.valid) \in DigitStates
  <2>1. Append(st.values, Signed(acc)) \in Seq(Int)  BY <1>2 DEF DigitStates
  <2>2. QED  BY <2>1 DEF DigitStates, FirstDigit
<1>7. QED  BY <1>3, <1>4, <1>5, <1>6

LEMMA DigitRunIs ==
    ASSUME NEW s \in Seq(Int)
    PROVE  /\ DigitRun(s) \in [0 .. Len(s) -> DigitStates]
           /\ DigitRun(s)[0] = FirstDigit(<<>>, TRUE)
           /\ \A n \in 1 .. Len(s) : DigitRun(s)[n] = DecodeDigit(DigitRun(s)[n - 1], s[n])
<1> DEFINE V == DigitStates
           base == FirstDigit(<<>>, TRUE)
           next == [n \in 1 .. Len(s) |-> [v \in V |-> DecodeDigit(v, s[n])]]
           P(g) == g = [n \in 0 .. Len(s) |->
                          IF n = 0 THEN base ELSE DecodeDigit(g[n - 1], s[n])]
           run == CHOOSE g : P(g)
<1>0. Len(s) \in Nat  OBVIOUS
<1>1. base \in V  BY DEF FirstDigit, DigitStates
<1>2. next \in [1 .. Len(s) -> [V -> V]]
  <2>1. ASSUME NEW n \in 1 .. Len(s), NEW v \in V  PROVE DecodeDigit(v, s[n]) \in V
    BY DigitType
  <2>2. QED  BY <2>1
<1>3. PICK g : Folds(g, Len(s), V, base, next)
  <2> HIDE DEF V, base, next
  <2>1. QED  BY <1>0, <1>1, <1>2, FoldExists
<1>4. g \in [0 .. Len(s) -> V] /\ P(g)
  <2>1. /\ g \in [0 .. Len(s) -> V]
        /\ g = [n \in 0 .. Len(s) |-> IF n = 0 THEN base ELSE next[n][g[n - 1]]]
    <3> HIDE DEF V, base, next
    <3>1. QED  BY <1>3 DEF Folds
  <2>2. ASSUME NEW n \in 0 .. Len(s), n # 0
        PROVE  next[n][g[n - 1]] = DecodeDigit(g[n - 1], s[n])
    <3>1. n \in 1 .. Len(s) /\ n - 1 \in 0 .. Len(s)  BY <1>0, <2>2
    <3> HIDE DEF base
    <3>2. g[n - 1] \in V  BY <2>1, <3>1
    <3>3. QED  BY <3>1, <3>2
  <2> HIDE DEF V, base, next
  <2>3. QED  BY <2>1, <2>2
<1>5. P(run)
  <2> HIDE DEF P
  <2>1. QED  BY <1>4
<1>6. DigitRun(s) = run  BY DEF DigitRun
<1> HIDE DEF run
<1>7. ASSUME NEW n \in 1 .. Len(s)  PROVE run[n] = DecodeDigit(run[n - 1], s[n])
  <2>1. n \in 0 .. Len(s) /\ n # 0  BY <1>0
  <2> HIDE DEF base
  <2>2. QED  BY <1>5, <2>1
<1>8. run[0] = base
  <2>1. 0 \in 0 .. Len(s)  BY <1>0
  <2> HIDE DEF base
  <2>2. QED  BY <1>5, <2>1
<1>9. run \in [0 .. Len(s) -> V]
  <2> DEFINE S == {n \in Nat : n <= Len(s) => run[n] \in V}
  <2>1. 0 \in S  BY <1>1, <1>8
  <2>2. ASSUME NEW n \in Nat, n \in S  PROVE n + 1 \in S
    <3>1. CASE n + 1 <= Len(s)
      <4>1. run[n] \in V /\ n + 1 \in 1 .. Len(s) /\ (n + 1) - 1 = n  BY <1>0, <2>2, <3>1
      <4>2. run[n + 1] = DecodeDigit(run[n], s[n + 1])  BY <1>7, <4>1
      <4>3. s[n + 1] \in Int  BY <4>1
      <4>4. run[n + 1] \in V  BY <4>1, <4>2, <4>3, DigitType
      <4>5. QED  BY <4>4
    <3>2. CASE ~ (n + 1 <= Len(s))  BY <3>2
    <3>3. QED  BY <3>1, <3>2
  <2> HIDE DEF S
  <2>3. Nat \subseteq S  BY <2>1, <2>2, AllFollow
  <2>4. \A n \in 0 .. Len(s) : run[n] \in V  BY <1>0, <2>3 DEF S
  <2>5. run = [n \in 0 .. Len(s) |-> run[n]]
    <3> HIDE DEF base
    <3>1. QED  BY <1>5
  <2> HIDE DEF V
  <2>6. QED  BY <2>4, <2>5
<1>10. QED  BY <1>6, <1>7, <1>8, <1>9

\* What is read of a segment.
Decoding(s) == DigitRun(s)[Len(s)]

LEMMA DecodingIs ==
    /\ Decoding(<<>>) = FirstDigit(<<>>, TRUE)
    /\ \A s \in Seq(Int) : Decoding(s) \in DigitStates
    /\ \A s \in Seq(Int), digit \in Int :
          Decoding(Append(s, digit)) = DecodeDigit(Decoding(s), digit)
<1>1. Decoding(<<>>) = FirstDigit(<<>>, TRUE)
  <2>1. <<>> \in Seq(Int) /\ Len(<<>>) = 0  OBVIOUS
  <2>2. QED  BY <2>1, DigitRunIs DEF Decoding
<1>2. ASSUME NEW s \in Seq(Int)  PROVE Decoding(s) \in DigitStates
  <2>1. Len(s) \in 0 .. Len(s)  OBVIOUS
  <2>2. QED  BY <2>1, DigitRunIs DEF Decoding
<1>3. ASSUME NEW s \in Seq(Int), NEW digit \in Int
      PROVE  Decoding(Append(s, digit)) = DecodeDigit(Decoding(s), digit)
  <2>1. PICK t : t = Append(s, digit)  OBVIOUS
  <2>2. /\ t \in Seq(Int) /\ Len(t) = Len(s) + 1 /\ Len(s) \in Nat
        /\ t[Len(s) + 1] = digit /\ \A n \in 1 .. Len(s) : t[n] = s[n]
    BY <2>1
  <2> DEFINE S == {n \in Nat : n <= Len(s) => DigitRun(t)[n] = DigitRun(s)[n]}
  <2>3. 0 \in S  BY <2>2, DigitRunIs
  <2>4. ASSUME NEW n \in Nat, n \in S  PROVE n + 1 \in S
    <3>1. CASE n + 1 <= Len(s)
      <4>1. n + 1 \in 1 .. Len(s) /\ n + 1 \in 1 .. Len(t) /\ (n + 1) - 1 = n
            /\ DigitRun(t)[n] = DigitRun(s)[n]
        BY <2>2, <2>4, <3>1
      <4>2. DigitRun(t)[n + 1] = DecodeDigit(DigitRun(t)[n], t[n + 1])  BY <2>2, <4>1, DigitRunIs
      <4>3. DigitRun(s)[n + 1] = DecodeDigit(DigitRun(s)[n], s[n + 1])  BY <4>1, DigitRunIs
      <4>4. t[n + 1] = s[n + 1]  BY <2>2, <4>1
      <4>5. QED  BY <4>1, <4>2, <4>3, <4>4
    <3>2. CASE ~ (n + 1 <= Len(s))  BY <3>2
    <3>3. QED  BY <3>1, <3>2
  <2> HIDE DEF S
  <2>5. Nat \subseteq S  BY <2>3, <2>4, AllFollow
  <2>6. DigitRun(t)[Len(s)] = DigitRun(s)[Len(s)]  BY <2>2, <2>5 DEF S
  <2>7. Len(t) \in 1 .. Len(t) /\ Len(t) - 1 = Len(s)  BY <2>2
  <2>8. DigitRun(t)[Len(t)] = DecodeDigit(DigitRun(t)[Len(s)], t[Len(t)])
    BY <2>2, <2>7, DigitRunIs
  <2>9. t[Len(t)] = digit  BY <2>2
  <2>10. QED  BY <2>1, <2>6, <2>8, <2>9 DEF Decoding
<1>4. QED  BY <1>1, <1>2, <1>3

\* A number without its low digits is smaller, down to none.
LEMMA RestsAre ==
    ASSUME NEW n \in Nat
    PROVE  /\ Rests(n) \in [0 .. n + 1 -> Nat]
           /\ Rests(n)[0] = n
           /\ \A k \in 1 .. n + 1 : Rests(n)[k] = Rests(n)[k - 1] \div 32
           /\ \E k \in 1 .. n + 1 : Rests(n)[k] = 0
<1> DEFINE next == [k \in 1 .. n + 1 |-> [v \in Nat |-> v \div 32]]
           P(g) == g = [k \in 0 .. n + 1 |-> IF k = 0 THEN n ELSE g[k - 1] \div 32]
           run == CHOOSE g : P(g)
<1>2. next \in [1 .. n + 1 -> [Nat -> Nat]]
  <2>1. \A v \in Nat : v \div 32 \in Nat  OBVIOUS
  <2>2. QED  BY <2>1
<1>3. PICK g : Folds(g, n + 1, Nat, n, next)
  <2> HIDE DEF next
  <2>1. n + 1 \in Nat  OBVIOUS
  <2>2. QED  BY <2>1, <1>2, FoldExists
<1>4. P(g)
  <2>1. /\ g \in [0 .. n + 1 -> Nat]
        /\ g = [k \in 0 .. n + 1 |-> IF k = 0 THEN n ELSE next[k][g[k - 1]]]
    <3> HIDE DEF next
    <3>1. QED  BY <1>3 DEF Folds
  <2>2. ASSUME NEW k \in 0 .. n + 1, k # 0
        PROVE  next[k][g[k - 1]] = g[k - 1] \div 32
    <3>1. k \in 1 .. n + 1 /\ k - 1 \in 0 .. n + 1  BY <2>2
    <3>2. g[k - 1] \in Nat  BY <2>1, <3>1
    <3>3. QED  BY <3>1, <3>2
  <2> HIDE DEF next
  <2>3. QED  BY <2>1, <2>2
<1>5. P(run)
  <2> HIDE DEF P
  <2>1. QED  BY <1>4
<1>6. Rests(n) = run  BY DEF Rests
<1> HIDE DEF run
<1>7. run[0] = n /\ \A k \in 1 .. n + 1 : run[k] = run[k - 1] \div 32
  <2>1. 0 \in 0 .. n + 1 /\ \A k \in 1 .. n + 1 : k \in 0 .. n + 1 /\ k # 0  OBVIOUS
  <2>2. QED  BY <1>5, <2>1
<1>8. ASSUME NEW k \in 0 .. n + 1
      PROVE  run[k] \in Nat /\ (k <= n => run[k] <= n - k) /\ (k > n => run[k] = 0)
  <2> DEFINE S == {j \in Nat : j <= n + 1 =>
                      run[j] \in Nat /\ (j <= n => run[j] <= n - j) /\ (j > n => run[j] = 0)}
  <2>1. 0 \in S  BY <1>7
  <2>2. ASSUME NEW j \in Nat, j \in S  PROVE j + 1 \in S
    <3>1. CASE j + 1 <= n + 1
      <4>1. run[j] \in Nat /\ run[j] <= n - j  BY <2>2, <3>1
      <4>2. j + 1 \in 1 .. n + 1 /\ (j + 1) - 1 = j  BY <3>1
      <4>3. run[j + 1] = run[j] \div 32  BY <1>7, <4>2
      <4>4. run[j + 1] \in Nat /\ (run[j] = 0 => run[j + 1] = 0)
            /\ (run[j] # 0 => run[j + 1] <= run[j] - 1)
        BY <4>1, <4>3
      <4>5. QED  BY <3>1, <4>1, <4>4
    <3>2. CASE ~ (j + 1 <= n + 1)  BY <3>2
    <3>3. QED  BY <3>1, <3>2
  <2> HIDE DEF S
  <2>3. Nat \subseteq S  BY <2>1, <2>2, AllFollow
  <2>4. k \in S /\ k <= n + 1  BY <2>3
  <2>5. QED  BY <2>4 DEF S
<1>9. run \in [0 .. n + 1 -> Nat]
  <2>1. run = [k \in 0 .. n + 1 |-> run[k]]  BY <1>5
  <2>2. QED  BY <1>8, <2>1
<1>10. run[n + 1] = 0 /\ n + 1 \in 1 .. n + 1  BY <1>8
<1>11. QED  BY <1>6, <1>7, <1>9, <1>10

LEMMA DigitsAre ==
    ASSUME NEW n \in Nat
    PROVE  \E size \in Nat \ {0} :
              /\ size <= n + 1 /\ Rests(n)[size] = 0
              /\ Digits(n) \in Seq(Int) /\ Len(Digits(n)) = size
              /\ \A k \in 1 .. size : Digits(n)[k] \in 0 .. 63
              /\ \A k \in 1 .. size :
                    Digits(n)[k] = (Rests(n)[k - 1] % 32) + (IF k < size THEN 32 ELSE 0)
<1> DEFINE Size(k) == Rests(n)[k] = 0 /\ \A j \in 1 .. k - 1 : Rests(n)[j] # 0
           Ends == {k \in 1 .. n + 1 : Rests(n)[k] = 0}
<1>1. PICK least \in Ends : \A k \in Ends : least <= k
  <2>0. PICK k \in 1 .. n + 1 : Rests(n)[k] = 0  BY RestsAre
  <2>1. Ends \subseteq Nat /\ Ends # {}  BY <2>0
  <2> HIDE DEF Ends
  <2>2. QED  BY <2>1, LeastExists
<1>2. least \in 1 .. n + 1 /\ Size(least)
  <2>1. \A j \in 1 .. least - 1 : j \in 1 .. n + 1 /\ ~ (least <= j)  OBVIOUS
  <2>2. QED  BY <1>1, <2>1
<1> DEFINE size == CHOOSE k \in 1 .. n + 1 : Size(k)
<1>3. size \in 1 .. n + 1 /\ Rests(n)[size] = 0
  <2>1. size \in 1 .. n + 1 /\ Size(size)
    <3> HIDE DEF Size
    <3>1. QED  BY <1>2
  <2>2. QED  BY <2>1
<1>4. Digits(n) = [k \in 1 .. size |-> (Rests(n)[k - 1] % 32) + (IF k < size THEN 32 ELSE 0)]
  BY DEF Digits, VLQ_CONTINUATION
<1> HIDE DEF size
<1>5. ASSUME NEW k \in 1 .. size
      PROVE  (Rests(n)[k - 1] % 32) + (IF k < size THEN 32 ELSE 0) \in 0 .. 63
  <2>1. k - 1 \in 0 .. n + 1  BY <1>3
  <2>2. PICK r \in Nat : r = Rests(n)[k - 1]  BY <2>1, RestsAre
  <2>3. r % 32 \in 0 .. 31  BY <2>2
  <2>4. QED  BY <2>2, <2>3
<1>6. size \in Nat \ {0}  BY <1>3
<1>7. Digits(n) \in Seq(Int) /\ Len(Digits(n)) = size
  <2>1. PICK D : D = Digits(n)  OBVIOUS
  <2>2. D \in [1 .. size -> Int]  BY <1>4, <1>5, <2>1
  <2>3. D \in Seq(Int) /\ Len(D) = size  BY <1>6, <2>2
  <2>4. QED  BY <2>1, <2>3
<1>8. \A k \in 1 .. size : Digits(n)[k] = (Rests(n)[k - 1] % 32) + (IF k < size THEN 32 ELSE 0)
  BY <1>4
<1>9. \A k \in 1 .. size : Digits(n)[k] \in 0 .. 63  BY <1>5, <1>8
<1>10. QED  BY <1>3, <1>6, <1>7, <1>8, <1>9

\* The numbers written after what was read are read, and nothing else is changed.
LEMMA DigitsRead ==
    ASSUME NEW s \in Seq(Int), NEW values \in Seq(Int), Decoding(s) = FirstDigit(values, TRUE),
           NEW n \in Nat
    PROVE  Decoding(s \o Digits(n)) = FirstDigit(Append(values, Signed(n)), TRUE)
<1>1. PICK size \in Nat \ {0} :
              /\ size <= n + 1 /\ Rests(n)[size] = 0
              /\ Digits(n) \in Seq(Int) /\ Len(Digits(n)) = size
              /\ \A k \in 1 .. size : Digits(n)[k] \in 0 .. 63
              /\ \A k \in 1 .. size :
                    Digits(n)[k] = (Rests(n)[k - 1] % 32) + (IF k < size THEN 32 ELSE 0)
  BY DigitsAre
<1>2. PICK D : D = Digits(n)  OBVIOUS
<1>3. D \in Seq(Int) /\ Len(D) = size /\ \A k \in 1 .. size : D[k] \in 0 .. 63  BY <1>1, <1>2
<1> DEFINE pre(k) == s \o SubSeq(D, 1, k)
<1>4. pre(0) = s
  <2>1. SubSeq(D, 1, 0) = <<>>  BY <1>3
  <2>2. QED  BY <2>1
<1>5. pre(size) = s \o D
  <2>1. SubSeq(D, 1, size) = D  BY <1>3
  <2>2. QED  BY <2>1
<1>6. ASSUME NEW k \in 1 .. size
      PROVE  pre(k - 1) \in Seq(Int) /\ pre(k) = Append(pre(k - 1), D[k])
  <2>1. PICK a : a = SubSeq(D, 1, k - 1)  OBVIOUS
  <2>2. PICK b : b = SubSeq(D, 1, k)  OBVIOUS
  <2>3. a \in Seq(Int) /\ Len(a) = k - 1 /\ \A i \in 1 .. k - 1 : a[i] = D[i]
    BY <1>3, <2>1
  <2>4. b \in Seq(Int) /\ Len(b) = k /\ \A i \in 1 .. k : b[i] = D[i]
    BY <1>3, <2>2
  <2>5. s \o a \in Seq(Int)  BY <2>3
  <2>6. b = Append(a, D[k])
    <3>1. D[k] \in Int  BY <1>3
    <3>2. Append(a, D[k]) \in Seq(Int) /\ Len(Append(a, D[k])) = k
          /\ \A i \in 1 .. k : Append(a, D[k])[i] = D[i]
      BY <2>3, <3>1
    <3>3. PICK c \in Seq(Int) : c = Append(a, D[k])  BY <3>2
    <3>4. Len(c) = Len(b) /\ \A i \in 1 .. Len(b) : c[i] = b[i]  BY <2>4, <3>2, <3>3
    <3>5. c = b  BY <2>4, <3>4
    <3>6. QED  BY <3>3, <3>5
  <2>7. s \o Append(a, D[k]) = Append(s \o a, D[k])  BY <1>3, <2>3, SMTT(30)
  <2>8. QED  BY <2>1, <2>2, <2>5, <2>6, <2>7
<1> DEFINE Read(k) ==
              LET st == Decoding(pre(k)) IN
              /\ st.values = values /\ st.valid = TRUE
              /\ st.acc + st.weight * Rests(n)[k] = n
           S == {k \in Nat : k < size => Read(k)}
<1>7. 0 \in S
  <2>1. Rests(n)[0] = n  BY RestsAre
  <2>2. PICK st : st = Decoding(pre(0))  OBVIOUS
  <2>3. st.values = values /\ st.valid = TRUE /\ st.acc = 0 /\ st.weight = 1
    <3> HIDE DEF pre
    <3>1. st = FirstDigit(values, TRUE)  BY <1>4, <2>2
    <3>2. QED  BY <3>1 DEF FirstDigit
  <2>4. Read(0)
    <3> HIDE DEF pre
    <3>1. 0 + 1 * n = n  OBVIOUS
    <3>2. QED  BY <2>1, <2>2, <2>3, <3>1
  <2>5. QED  BY <2>4
<1>8. ASSUME NEW j \in Nat, NEW k \in 1 .. size, k = j + 1, Read(j)
      PROVE  \E acc \in Int, weight \in Int, rest \in Nat :
                LET st == Decoding(pre(j)) IN
                /\ rest = Rests(n)[j] /\ acc = st.acc /\ weight = st.weight
                /\ acc + weight * rest = n
                /\ Rests(n)[k] = rest \div 32
                /\ D[k] = (rest % 32) + (IF k < size THEN 32 ELSE 0)
                /\ Decoding(pre(k)) = DecodeDigit(st, D[k])
  <2>0. k - 1 = j  BY <1>8
  <2>1. pre(j) \in Seq(Int) /\ pre(k) = Append(pre(j), D[k])
    <3> HIDE DEF pre
    <3>1. QED  BY <1>6, <2>0
  <2> HIDE DEF pre
  <2>2. PICK st : st = Decoding(pre(j))  OBVIOUS
  <2>3. st \in DigitStates  BY <2>1, <2>2, DecodingIs
  <2>4. Decoding(pre(k)) = DecodeDigit(st, D[k])
    <3>1. D[k] \in Int  BY <1>3
    <3>2. QED  BY <2>1, <2>2, <3>1, DecodingIs
  <2>5. j \in 0 .. n + 1 /\ k \in 1 .. n + 1  BY <1>1, <1>8
  <2>6. Rests(n)[j] \in Nat /\ Rests(n)[k] = Rests(n)[j] \div 32
    BY <2>0, <2>5, RestsAre
  <2>7. D[k] = (Rests(n)[j] % 32) + (IF k < size THEN 32 ELSE 0)  BY <1>1, <1>2, <2>0
  <2>8. st.acc \in Int /\ st.weight \in Int  BY <2>3 DEF DigitStates
  <2>9. st.acc + st.weight * Rests(n)[j] = n  BY <1>8, <2>2
  <2>10. QED  BY <2>2, <2>4, <2>6, <2>7, <2>8, <2>9
<1>9. ASSUME NEW k \in Nat, k \in S  PROVE k + 1 \in S
  <2>1. CASE k + 1 < size
    <3>1. Read(k) /\ k + 1 \in 1 .. size /\ (k + 1) - 1 = k  BY <1>9, <2>1
    <3>2. PICK acc \in Int, weight \in Int, rest \in Nat :
                LET st == Decoding(pre(k)) IN
                /\ rest = Rests(n)[k] /\ acc = st.acc /\ weight = st.weight
                /\ acc + weight * rest = n
                /\ Rests(n)[k + 1] = rest \div 32
                /\ D[k + 1] = (rest % 32) + (IF k + 1 < size THEN 32 ELSE 0)
                /\ Decoding(pre(k + 1)) = DecodeDigit(st, D[k + 1])
      <4> HIDE DEF pre, Read
      <4>1. QED  BY <1>8, <3>1
    <3>3. PICK st : st = Decoding(pre(k))  OBVIOUS
    <3>4. st.values = values /\ st.valid = TRUE /\ acc = st.acc /\ weight = st.weight
      BY <3>1, <3>2, <3>3
    <3>5. D[k + 1] >= 32 /\ D[k + 1] % 32 = rest % 32
      <4>1. PICK low \in 0 .. 31 : low = rest % 32  OBVIOUS
      <4>2. D[k + 1] = low + 32 /\ (low + 32) % 32 = low  BY <2>1, <3>2, <4>1
      <4>3. QED  BY <4>1, <4>2
    <3>6. PICK sum : sum = acc + (rest % 32) * weight  OBVIOUS
    <3>7. Decoding(pre(k + 1)) =
            [values |-> values, acc |-> sum, weight |-> 32 * weight,
             have_bits |-> TRUE, valid |-> TRUE]
      <4> HIDE DEF pre
      <4>1. ~ (D[k + 1] < 0) /\ D[k + 1] > 31  BY <1>3, <3>1, <3>5
      <4>2. DecodeDigit(st, D[k + 1]) =
              [values |-> st.values, acc |-> st.acc + (D[k + 1] % 32) * st.weight,
               weight |-> 32 * st.weight, have_bits |-> TRUE, valid |-> st.valid]
        BY <4>1 DEF DecodeDigit, VLQ_MASK, VLQ_CONTINUATION
      <4>3. QED  BY <3>2, <3>3, <3>4, <3>5, <3>6, <4>2
    <3>8. sum + (32 * weight) * (rest \div 32) = n
      <4>1. PICK q \in Nat, low \in Nat : q = rest \div 32 /\ low = rest % 32 /\ rest = 32 * q + low
        OBVIOUS
      <4>2. sum = acc + low * weight /\ acc + weight * (32 * q + low) = n  BY <3>2, <3>6, <4>1
      <4>3. weight * (32 * q + low) = (32 * weight) * q + low * weight  OBVIOUS
      <4>4. QED  BY <4>1, <4>2, <4>3
    <3>9. Read(k + 1)
      <4> HIDE DEF pre
      <4>1. QED  BY <3>2, <3>7, <3>8, SMTT(30)
    <3>10. QED  BY <3>9
  <2>2. CASE ~ (k + 1 < size)  BY <2>2
  <2>3. QED  BY <2>1, <2>2
<1>10. Read(size - 1)
  <2> HIDE DEF S, Read
  <2>1. Nat \subseteq S  BY <1>7, <1>9, AllFollow
  <2>2. size - 1 \in Nat /\ size - 1 < size  OBVIOUS
  <2>3. size - 1 \in S  BY <2>1, <2>2
  <2>4. QED  BY <2>2, <2>3 DEF S
<1>11. PICK acc \in Int, weight \in Int, rest \in Nat :
                LET st == Decoding(pre(size - 1)) IN
                /\ rest = Rests(n)[size - 1] /\ acc = st.acc /\ weight = st.weight
                /\ acc + weight * rest = n
                /\ Rests(n)[size] = rest \div 32
                /\ D[size] = (rest % 32) + (IF size < size THEN 32 ELSE 0)
                /\ Decoding(pre(size)) = DecodeDigit(st, D[size])
  <2>1. size \in 1 .. size /\ size - 1 \in Nat /\ size = (size - 1) + 1  OBVIOUS
  <2> HIDE DEF pre, Read
  <2>2. QED  BY <1>8, <1>10, <2>1
<1>12. rest \div 32 = 0 /\ rest % 32 = rest /\ D[size] = rest /\ rest < 32
  <2>1. rest \div 32 = 0  BY <1>1, <1>11
  <2>2. rest % 32 = rest /\ rest < 32  BY <2>1
  <2>3. QED  BY <1>11, <2>1, <2>2
<1>13. Decoding(pre(size)) = FirstDigit(Append(values, Signed(n)), TRUE)
  <2>1. PICK st : st = Decoding(pre(size - 1))  OBVIOUS
  <2>2. st.values = values /\ st.valid = TRUE /\ acc = st.acc /\ weight = st.weight
    BY <1>10, <1>11, <2>1
  <2> HIDE DEF pre
  <2>3. DecodeDigit(st, rest) =
          FirstDigit(Append(st.values, Signed(st.acc + (rest % 32) * st.weight)), st.valid)
    BY <1>12 DEF DecodeDigit, VLQ_MASK, VLQ_CONTINUATION
  <2>4. acc + (rest % 32) * weight = n
    <3>1. weight * rest = rest * weight  OBVIOUS
    <3>2. QED  BY <1>11, <1>12, <3>1
  <2>5. QED  BY <1>11, <1>12, <2>1, <2>2, <2>3, <2>4
<1>14. QED  BY <1>2, <1>5, <1>13

LEMMA NumberRead ==
    ASSUME NEW s \in Seq(Int), NEW values \in Seq(Int), Decoding(s) = FirstDigit(values, TRUE),
           NEW n \in Int
    PROVE  /\ s \o EncodeNumber(n) \in Seq(Int)
           /\ Decoding(s \o EncodeNumber(n)) = FirstDigit(Append(values, n), TRUE)
<1>1. PICK m : m = IF n < 0 THEN 2 * (-n) + 1 ELSE 2 * n  OBVIOUS
<1>2. m \in Nat /\ Signed(m) = n
  <2>1. CASE n < 0
    <3>1. m \in Nat /\ m % 2 = 1 /\ m \div 2 = -n  BY <1>1, <2>1
    <3>2. QED  BY <3>1 DEF Signed
  <2>2. CASE ~ (n < 0)
    <3>1. m \in Nat /\ m % 2 = 0 /\ m \div 2 = n  BY <1>1, <2>2
    <3>2. QED  BY <3>1 DEF Signed
  <2>3. QED  BY <2>1, <2>2
<1>3. EncodeNumber(n) = Digits(m)  BY <1>1 DEF EncodeNumber
<1>4. Digits(m) \in Seq(Int)
  <2>1. QED  BY <1>2, DigitsAre
<1>5. s \o Digits(m) \in Seq(Int)  BY <1>4
<1>6. Decoding(s \o Digits(m)) = FirstDigit(Append(values, Signed(m)), TRUE)
  <2>1. m \in Nat  BY <1>2
  <2>2. QED  BY <2>1, DigitsRead
<1>7. QED  BY <1>2, <1>3, <1>5, <1>6

-----------------------------------------------------------------------------
(* Reading a source map: what a compiler writes.                           *)

\* Lines of segments, in the order of their columns.
ProgramKept ==
    /\ program \in Seq(Seq(Segments)) /\ Len(program) > 0
    /\ \A l \in DOMAIN program : \A m, n \in DOMAIN program[l] :
          m <= n => program[l][m].gen <= program[l][n].gen

Mark(x) == x.src \in Int /\ x.line \in Int /\ x.col \in Int /\ x.name \in Int

LEMMA SegmentIs ==
    ASSUME NEW seg \in Segments
    PROVE  /\ seg = [gen |-> seg.gen, src |-> seg.src, line |-> seg.line, col |-> seg.col,
                     name |-> seg.name]
           /\ seg.gen \in Nat /\ Mark(seg)
           /\ Bound(seg) => seg.src \in Nat /\ seg.line \in Nat /\ seg.col \in Nat
           /\ Bound(seg) /\ ~Named(seg) => seg.name = NoName
BY DecodeAssumption DEF IsSegment, Bound, Named, NoName, Mark

LEMMA PlaceIs ==
    ASSUME ProgramKept
    PROVE  /\ \A l \in DOMAIN program : l \in Nat \ {0} /\ l <= Len(program)
                                        /\ DOMAIN program[l] = 1 .. Len(program[l])
                                        /\ Len(program[l]) \in Nat
           /\ \A p \in Places : /\ p = <<p[1], p[2]>>
                                /\ p[1] \in DOMAIN program /\ p[2] \in DOMAIN program[p[1]]
           /\ \A l \in DOMAIN program : \A n \in DOMAIN program[l] :
                 <<l, n>> \in Places /\ At(<<l, n>>) = program[l][n] /\ program[l][n] \in Segments
<1>1. ASSUME NEW l \in DOMAIN program
      PROVE  /\ l \in Nat \ {0} /\ l <= Len(program)
             /\ DOMAIN program[l] = 1 .. Len(program[l]) /\ Len(program[l]) \in Nat
             /\ \A n \in DOMAIN program[l] : program[l][n] \in Segments
  <2>1. program[l] \in Seq(Segments) /\ l \in 1 .. Len(program) /\ Len(program) \in Nat
    BY DEF ProgramKept
  <2>2. PICK row \in Seq(Segments) : row = program[l]  BY <2>1
  <2>3. DOMAIN row = 1 .. Len(row) /\ Len(row) \in Nat /\ \A n \in DOMAIN row : row[n] \in Segments
    OBVIOUS
  <2>4. QED  BY <2>1, <2>2, <2>3
<1>2. ASSUME NEW p \in Places
      PROVE  p = <<p[1], p[2]>> /\ p[1] \in DOMAIN program /\ p[2] \in DOMAIN program[p[1]]
  <2>1. PICK l \in DOMAIN program : p \in {l} \X DOMAIN program[l]  BY DEF Places
  <2>2. PICK n \in DOMAIN program[l] : p = <<l, n>>  BY <2>1
  <2>3. QED  BY <2>2
<1>3. ASSUME NEW l \in DOMAIN program, NEW n \in DOMAIN program[l]
      PROVE  <<l, n>> \in Places /\ At(<<l, n>>) = program[l][n]
  <2>1. <<l, n>> \in {l} \X DOMAIN program[l]  OBVIOUS
  <2>2. QED  BY <2>1 DEF Places, At
<1>4. QED  BY <1>1, <1>2, <1>3

Before(places, p) == {q \in places : Earlier(q, p)}
Latest(places, q) == \A r \in places : r = q \/ Earlier(r, q)

LEMMA LatestExists ==
    ASSUME ProgramKept, NEW places \in SUBSET Places, places # {}
    PROVE  \E q \in places : Latest(places, q)
<1> DEFINE ls == {p[1] : p \in places}
<1>1. \A p \in places : /\ p = <<p[1], p[2]>>
                        /\ p[1] \in Nat \ {0} /\ p[1] <= Len(program)
                        /\ p[2] \in Nat /\ p[2] <= Len(program[p[1]])
                        /\ Len(program[p[1]]) \in Nat
  <2>1. ASSUME NEW p \in places
        PROVE  p = <<p[1], p[2]>> /\ p[1] \in DOMAIN program /\ p[2] \in DOMAIN program[p[1]]
    BY PlaceIs
  <2>2. ASSUME NEW p \in places
        PROVE  /\ p[1] \in Nat \ {0} /\ p[1] <= Len(program) /\ Len(program[p[1]]) \in Nat
               /\ p[2] \in 1 .. Len(program[p[1]])
    BY <2>1, PlaceIs
  <2>3. QED  BY <2>1, <2>2
<1>2. PICK l \in ls : \A k \in ls : k <= l
  <2>1. Len(program) \in Nat  BY DEF ProgramKept
  <2>2. ls \subseteq 0 .. Len(program) /\ ls # {}  BY <1>1, <2>1
  <2> HIDE DEF ls
  <2>3. QED  BY <2>1, <2>2, GreatestExists
<1> DEFINE ns == {p[2] : p \in {q \in places : q[1] = l}}
<1>3. PICK n \in ns : \A k \in ns : k <= n
  <2>1. PICK p \in places : p[1] = l  BY <1>2
  <2>2. Len(program[l]) \in Nat /\ ns \subseteq 0 .. Len(program[l]) /\ ns # {}  BY <1>1, <2>1
  <2> HIDE DEF ns
  <2>3. QED  BY <2>2, GreatestExists
<1>4. PICK q \in places : q[1] = l /\ q[2] = n  BY <1>3
<1>5. ASSUME NEW r \in places  PROVE r = q \/ Earlier(r, q)
  <2>1. r[1] \in ls /\ r[1] <= l  BY <1>2
  <2>2. r[1] = l => r[2] \in ns /\ r[2] <= n  BY <1>3
  <2>3. r = <<r[1], r[2]>> /\ q = <<q[1], q[2]>> /\ r[1] \in Nat /\ r[2] \in Nat
        /\ q[1] \in Nat /\ q[2] \in Nat
    BY <1>1
  <2> HIDE DEF ls, ns
  <2>4. CASE r[1] < l  BY <1>4, <2>4 DEF Earlier
  <2>5. CASE r[1] = l /\ r[2] < n  BY <1>4, <2>5 DEF Earlier
  <2>6. CASE r[1] = l /\ r[2] = n  BY <1>4, <2>3, <2>6
  <2>7. QED  BY <1>4, <2>1, <2>2, <2>3, <2>4, <2>5, <2>6
<1>6. QED  BY <1>5 DEF Latest

\* The last segment before p is at the latest of the places.
LEMMA LastIs ==
    ASSUME ProgramKept, NEW places \in SUBSET Places, NEW p,
           NEW q \in Before(places, p), Latest(Before(places, p), q)
    PROVE  LastBefore(places, p) = At(q)
<1> DEFINE prior == {r \in places : Earlier(r, p)}
           L(s) == \A r \in prior : r = s \/ Earlier(r, s)
<1>1. q \in prior /\ L(q)  BY DEF Before, Latest
<1>2. ASSUME NEW s \in prior, L(s)  PROVE s = q
  <2>1. /\ s = <<s[1], s[2]>> /\ q = <<q[1], q[2]>> /\ s[1] \in Nat /\ s[2] \in Nat
        /\ q[1] \in Nat /\ q[2] \in Nat
    <3>1. s \in Places /\ q \in Places  BY <1>1
    <3>2. QED  BY <3>1, PlaceIs
  <2>2. (q = s \/ Earlier(q, s)) /\ (s = q \/ Earlier(s, q))  BY <1>1, <1>2
  <2>3. QED  BY <2>1, <2>2 DEF Earlier
<1>3. (CHOOSE s \in prior : L(s)) = q
  <2> HIDE DEF prior, L
  <2>1. QED  BY <1>1, <1>2
<1>4. prior # {}  BY <1>1
<1>5. QED  BY <1>3, <1>4 DEF LastBefore

LEMMA LastMark ==
    ASSUME ProgramKept, NEW places \in SUBSET Places, NEW p
    PROVE  Mark(LastBefore(places, p))
<1>1. CASE Before(places, p) = {}
  <2>1. LastBefore(places, p) = [src |-> 0, line |-> 0, col |-> 0, name |-> 0]
    BY <1>1 DEF LastBefore, Before
  <2>2. QED  BY <2>1 DEF Mark
<1>2. CASE Before(places, p) # {}
  <2>1. Before(places, p) \in SUBSET Places  BY DEF Before
  <2>2. PICK q \in Before(places, p) : Latest(Before(places, p), q)  BY <1>2, <2>1, LatestExists
  <2>3. LastBefore(places, p) = At(q)  BY <2>2, LastIs
  <2>4. q \in Places  BY <2>1
  <2>5. q = <<q[1], q[2]>> /\ q[1] \in DOMAIN program /\ q[2] \in DOMAIN program[q[1]]
    BY <2>4, PlaceIs
  <2>6. At(q) \in Segments  BY <2>5, PlaceIs
  <2>7. QED  BY <2>3, <2>6, SegmentIs
<1>3. QED  BY <1>1, <1>2

LatestOf(prior) ==
    IF prior = {} THEN [src |-> 0, line |-> 0, col |-> 0, name |-> 0]
    ELSE At(CHOOSE q \in prior : Latest(prior, q))

LEMMA LastDepends ==
    ASSUME NEW places, NEW p, NEW q, Before(places, p) = Before(places, q)
    PROVE  LastBefore(places, p) = LastBefore(places, q)
<1>1. LastBefore(places, p) = LatestOf(Before(places, p))
  BY DEF LastBefore, LatestOf, Before, Latest
<1>2. LastBefore(places, q) = LatestOf(Before(places, q))
  BY DEF LastBefore, LatestOf, Before, Latest
<1>3. QED  BY <1>1, <1>2

\* From one place of a line to the next, and from one line to the next.
LEMMA LastMoves ==
    ASSUME ProgramKept, NEW places \in SUBSET Places,
           NEW l \in DOMAIN program, NEW n \in DOMAIN program[l]
    PROVE  LastBefore(places, <<l, n + 1>>)
             = IF <<l, n>> \in places THEN program[l][n] ELSE LastBefore(places, <<l, n>>)
<1>1. l \in Nat /\ n \in Nat  BY PlaceIs
<1>2. \A q \in places : q = <<q[1], q[2]>> /\ q[1] \in Nat /\ q[2] \in Nat
  <2>1. \A q \in places : q = <<q[1], q[2]>> /\ q[1] \in DOMAIN program /\ q[2] \in DOMAIN program[q[1]]
    BY PlaceIs
  <2>2. \A q \in places : q[1] \in Nat /\ q[2] \in Nat  BY <2>1, PlaceIs
  <2>3. QED  BY <2>1, <2>2
<1>3. ASSUME NEW q \in places
      PROVE  Earlier(q, <<l, n + 1>>) <=> Earlier(q, <<l, n>>) \/ q = <<l, n>>
  <2>1. q = <<q[1], q[2]>> /\ q[1] \in Nat /\ q[2] \in Nat  BY <1>2
  <2>2. q = <<l, n>> <=> q[1] = l /\ q[2] = n  BY <2>1
  <2>3. QED  BY <1>1, <2>1, <2>2 DEF Earlier
<1>4. CASE <<l, n>> \in places
  <2>1. <<l, n>> \in Before(places, <<l, n + 1>>)  BY <1>3, <1>4 DEF Before
  <2>2. ASSUME NEW r \in Before(places, <<l, n + 1>>)  PROVE r = <<l, n>> \/ Earlier(r, <<l, n>>)
    BY <1>3 DEF Before
  <2>3. LastBefore(places, <<l, n + 1>>) = At(<<l, n>>)  BY <2>1, <2>2, LastIs DEF Latest
  <2>4. QED  BY <1>4, <2>3, PlaceIs
<1>5. CASE <<l, n>> \notin places
  <2>1. Before(places, <<l, n + 1>>) = Before(places, <<l, n>>)  BY <1>3, <1>5 DEF Before
  <2>2. QED  BY <1>5, <2>1, LastDepends
<1>6. QED  BY <1>4, <1>5

LEMMA LastOverLine ==
    ASSUME ProgramKept, NEW places \in SUBSET Places, NEW l \in DOMAIN program
    PROVE  LastBefore(places, <<l + 1, 1>>) = LastBefore(places, <<l, Len(program[l]) + 1>>)
<1>1. l \in Nat /\ Len(program[l]) \in Nat  BY PlaceIs
<1>2. ASSUME NEW q \in places
      PROVE  Earlier(q, <<l + 1, 1>>) <=> Earlier(q, <<l, Len(program[l]) + 1>>)
  <2>1. q[1] \in DOMAIN program /\ q[2] \in DOMAIN program[q[1]]  BY PlaceIs
  <2>2. q[1] \in Nat /\ q[2] \in 1 .. Len(program[q[1]]) /\ Len(program[q[1]]) \in Nat
    BY <2>1, PlaceIs
  <2>3. QED  BY <1>1, <2>2 DEF Earlier
<1>3. Before(places, <<l + 1, 1>>) = Before(places, <<l, Len(program[l]) + 1>>)
  BY <1>2 DEF Before
<1>4. QED  BY <1>3, LastDepends

LEMMA LastNone ==
    ASSUME ProgramKept, NEW places \in SUBSET Places
    PROVE  LastBefore(places, <<1, 1>>) = [src |-> 0, line |-> 0, col |-> 0, name |-> 0]
<1>1. ASSUME NEW q \in places  PROVE ~Earlier(q, <<1, 1>>)
  <2>1. q[1] \in DOMAIN program /\ q[2] \in DOMAIN program[q[1]]  BY PlaceIs
  <2>2. q[1] \in Nat \ {0} /\ q[2] \in 1 .. Len(program[q[1]]) /\ Len(program[q[1]]) \in Nat
    BY <2>1, PlaceIs
  <2>3. QED  BY <2>2 DEF Earlier
<1>2. {q \in places : Earlier(q, <<1, 1>>)} = {}  BY <1>1
<1>3. QED  BY <1>2 DEF LastBefore

LEMMA OneMore ==
    ASSUME NEW u \in Seq(Int), NEW v \in Seq(Int), NEW x \in Int,
           Len(v) = Len(u) + 1, v[Len(v)] = x, \A k \in 1 .. Len(u) : v[k] = u[k]
    PROVE  Append(u, x) = v
<1>1. PICK w : w = Append(u, x)  OBVIOUS
<1>2. /\ w \in Seq(Int) /\ Len(w) = Len(u) + 1 /\ w[Len(u) + 1] = x
      /\ \A k \in 1 .. Len(u) : w[k] = u[k]
  BY <1>1
<1>3. ASSUME NEW k \in 1 .. Len(v)  PROVE w[k] = v[k]
  <2>1. Len(u) \in Nat /\ (k \in 1 .. Len(u) \/ k = Len(u) + 1)  OBVIOUS
  <2>2. QED  BY <1>2, <2>1
<1>4. w = v  BY <1>2, <1>3
<1>5. QED  BY <1>1, <1>4

TupleFacts(c, a, b, d, e) ==
    /\ Append(<<>>, c) = <<c>>
    /\ <<c>> \in Seq(Int) /\ Append(<<c>>, a) = <<c, a>>
    /\ <<c, a>> \in Seq(Int) /\ Append(<<c, a>>, b) = <<c, a, b>>
    /\ <<c, a, b>> \in Seq(Int) /\ Append(<<c, a, b>>, d) = <<c, a, b, d>>
    /\ <<c, a, b, d>> \in Seq(Int) /\ Append(<<c, a, b, d>>, e) = <<c, a, b, d, e>>

LEMMA Tuples ==
    ASSUME NEW c \in Int, NEW a \in Int, NEW b \in Int, NEW d \in Int, NEW e \in Int
    PROVE  TupleFacts(c, a, b, d, e)
<1>1. PICK t1 : t1 = <<c>>  OBVIOUS
<1>2. PICK t2 : t2 = <<c, a>>  OBVIOUS
<1>3. PICK t3 : t3 = <<c, a, b>>  OBVIOUS
<1>4. PICK t4 : t4 = <<c, a, b, d>>  OBVIOUS
<1>5. PICK t5 : t5 = <<c, a, b, d, e>>  OBVIOUS
<1>6. t1 \in Seq(Int) /\ Len(t1) = 1 /\ t1[1] = c  BY <1>1
<1>7. t2 \in Seq(Int) /\ Len(t2) = 2 /\ t2[1] = c /\ t2[2] = a  BY <1>2
<1>8. t3 \in Seq(Int) /\ Len(t3) = 3 /\ t3[1] = c /\ t3[2] = a /\ t3[3] = b  BY <1>3
<1>9. t4 \in Seq(Int) /\ Len(t4) = 4 /\ t4[1] = c /\ t4[2] = a /\ t4[3] = b /\ t4[4] = d  BY <1>4
<1>10. t5 \in Seq(Int) /\ Len(t5) = 5 /\ t5[1] = c /\ t5[2] = a /\ t5[3] = b /\ t5[4] = d /\ t5[5] = e
  BY <1>5
<1>11. Append(t1, a) = t2
  <2>1. \A k \in 1 .. Len(t1) : t2[k] = t1[k]  BY <1>6, <1>7
  <2>2. Len(t2) = Len(t1) + 1 /\ t2[Len(t2)] = a  BY <1>6, <1>7
  <2>3. t1 \in Seq(Int) /\ t2 \in Seq(Int)  BY <1>6, <1>7
  <2>4. QED  BY <2>1, <2>2, <2>3, OneMore
<1>12. Append(t2, b) = t3
  <2>1. \A k \in 1 .. Len(t2) : t3[k] = t2[k]  BY <1>7, <1>8
  <2>2. Len(t3) = Len(t2) + 1 /\ t3[Len(t3)] = b  BY <1>7, <1>8
  <2>3. t2 \in Seq(Int) /\ t3 \in Seq(Int)  BY <1>7, <1>8
  <2>4. QED  BY <2>1, <2>2, <2>3, OneMore
<1>13. Append(t3, d) = t4
  <2>1. \A k \in 1 .. Len(t3) : t4[k] = t3[k]  BY <1>8, <1>9
  <2>2. Len(t4) = Len(t3) + 1 /\ t4[Len(t4)] = d  BY <1>8, <1>9
  <2>3. t3 \in Seq(Int) /\ t4 \in Seq(Int)  BY <1>8, <1>9
  <2>4. QED  BY <2>1, <2>2, <2>3, OneMore
<1>14. Append(t4, e) = t5
  <2>1. \A k \in 1 .. Len(t4) : t5[k] = t4[k]  BY <1>9, <1>10
  <2>2. Len(t5) = Len(t4) + 1 /\ t5[Len(t5)] = e  BY <1>9, <1>10
  <2>3. t4 \in Seq(Int) /\ t5 \in Seq(Int)  BY <1>9, <1>10
  <2>4. QED  BY <2>1, <2>2, <2>3, OneMore
<1>15. Append(<<>>, c) = t1  BY <1>6
<1>16. QED
  BY <1>1, <1>2, <1>3, <1>4, <1>5, <1>6, <1>7, <1>8, <1>9, <1>11, <1>12, <1>13, <1>14, <1>15
  DEF TupleFacts

ReadAs(s, c, a, b, d, e) ==
    /\ EncodeNumber(c) \in Seq(Int)
    /\ Decoding(EncodeNumber(c)) = FirstDigit(<<c>>, TRUE)
    /\ s \in Seq(Int)
    /\ Decoding(s) = FirstDigit(<<c, a, b, d>>, TRUE)
    /\ s \o EncodeNumber(e) \in Seq(Int)
    /\ Decoding(s \o EncodeNumber(e)) = FirstDigit(<<c, a, b, d, e>>, TRUE)

LEMMA NumbersRead ==
    ASSUME NEW c \in Int, NEW a \in Int, NEW b \in Int, NEW d \in Int, NEW e \in Int,
           NEW s, s = EncodeNumber(c) \o EncodeNumber(a) \o EncodeNumber(b) \o EncodeNumber(d)
    PROVE  ReadAs(s, c, a, b, d, e)
<1>0. TupleFacts(c, a, b, d, e)  BY Tuples
<1>1. EncodeNumber(c) \in Seq(Int) /\ Decoding(EncodeNumber(c)) = FirstDigit(<<c>>, TRUE)
  <2>1. Decoding(<<>>) = FirstDigit(<<>>, TRUE)  BY DecodingIs
  <2>2. /\ <<>> \o EncodeNumber(c) \in Seq(Int)
        /\ Decoding(<<>> \o EncodeNumber(c)) = FirstDigit(Append(<<>>, c), TRUE)
    <3>1. <<>> \in Seq(Int)  OBVIOUS
    <3>2. QED  BY <2>1, <3>1, NumberRead
  <2>3. EncodeNumber(c) \in Seq(Int)
    <3>1. PICK m \in Nat : EncodeNumber(c) = Digits(m)
      <4>1. (c < 0 => 2 * (-c) + 1 \in Nat) /\ (~ (c < 0) => 2 * c \in Nat)  OBVIOUS
      <4>2. QED  BY <4>1 DEF EncodeNumber
    <3>2. QED  BY <3>1, DigitsAre
  <2>4. <<>> \o EncodeNumber(c) = EncodeNumber(c)  BY <2>3
  <2>5. Append(<<>>, c) = <<c>>  BY <1>0 DEF TupleFacts
  <2>6. QED  BY <2>2, <2>3, <2>4, <2>5
<1>2. PICK t1 \in Seq(Int) : t1 = EncodeNumber(c) /\ Decoding(t1) = FirstDigit(<<c>>, TRUE)  BY <1>1
<1>3. PICK t2 \in Seq(Int) : t2 = t1 \o EncodeNumber(a) /\ Decoding(t2) = FirstDigit(<<c, a>>, TRUE)
  <2>1. PICK v \in Seq(Int) : v = <<c>> /\ Append(v, a) = <<c, a>>  BY <1>0 DEF TupleFacts
  <2>2. t1 \o EncodeNumber(a) \in Seq(Int) /\ Decoding(t1 \o EncodeNumber(a)) = FirstDigit(Append(v, a), TRUE)
    BY <1>2, <2>1, NumberRead
  <2>3. QED  BY <2>1, <2>2
<1>4. PICK t3 \in Seq(Int) : t3 = t2 \o EncodeNumber(b) /\ Decoding(t3) = FirstDigit(<<c, a, b>>, TRUE)
  <2>1. PICK v \in Seq(Int) : v = <<c, a>> /\ Append(v, b) = <<c, a, b>>  BY <1>0 DEF TupleFacts
  <2>2. t2 \o EncodeNumber(b) \in Seq(Int) /\ Decoding(t2 \o EncodeNumber(b)) = FirstDigit(Append(v, b), TRUE)
    BY <1>3, <2>1, NumberRead
  <2>3. QED  BY <2>1, <2>2
<1>5. s \in Seq(Int) /\ Decoding(s) = FirstDigit(<<c, a, b, d>>, TRUE)
  <2>1. PICK v \in Seq(Int) : v = <<c, a, b>> /\ Append(v, d) = <<c, a, b, d>>  BY <1>0 DEF TupleFacts
  <2>2. t3 \o EncodeNumber(d) \in Seq(Int) /\ Decoding(t3 \o EncodeNumber(d)) = FirstDigit(Append(v, d), TRUE)
    BY <1>4, <2>1, NumberRead, ZenonT(30)
  <2>3. s = t3 \o EncodeNumber(d)  BY <1>2, <1>3, <1>4
  <2>4. QED  BY <2>1, <2>2, <2>3
<1>6. s \o EncodeNumber(e) \in Seq(Int) /\ Decoding(s \o EncodeNumber(e)) = FirstDigit(<<c, a, b, d, e>>, TRUE)
  <2>1. PICK v \in Seq(Int) : v = <<c, a, b, d>> /\ Append(v, e) = <<c, a, b, d, e>>  BY <1>0 DEF TupleFacts
  <2>2. s \o EncodeNumber(e) \in Seq(Int) /\ Decoding(s \o EncodeNumber(e)) = FirstDigit(Append(v, e), TRUE)
    BY <1>5, <2>1, NumberRead, ZenonT(30)
  <2>3. QED  BY <2>1, <2>2
<1>7. QED  BY <1>1, <1>5, <1>6 DEF ReadAs

\* How far a segment is from the last ones, and the numbers it is written with.
GenGap(l, n) == program[l][n].gen - (IF n = 1 THEN 0 ELSE program[l][n - 1].gen)
SrcGap(l, n) == program[l][n].src - LastBefore(BoundPlaces, <<l, n>>).src
LineGap(l, n) == program[l][n].line - LastBefore(BoundPlaces, <<l, n>>).line
ColGap(l, n) == program[l][n].col - LastBefore(BoundPlaces, <<l, n>>).col
NameGap(l, n) == program[l][n].name - LastBefore(NamedPlaces, <<l, n>>).name

WrittenFields(l, n) ==
    IF ~Bound(program[l][n]) THEN <<GenGap(l, n)>>
    ELSE IF ~Named(program[l][n]) THEN <<GenGap(l, n), SrcGap(l, n), LineGap(l, n), ColGap(l, n)>>
    ELSE <<GenGap(l, n), SrcGap(l, n), LineGap(l, n), ColGap(l, n), NameGap(l, n)>>

LEMMA GapsAre ==
    ASSUME ProgramKept, NEW l \in DOMAIN program, NEW n \in DOMAIN program[l]
    PROVE  /\ GenGap(l, n) \in Int /\ SrcGap(l, n) \in Int /\ LineGap(l, n) \in Int
           /\ ColGap(l, n) \in Int /\ NameGap(l, n) \in Int
<1>1. PICK seg \in Segments : seg = program[l][n]  BY PlaceIs
<1>2. PICK bound : bound = LastBefore(BoundPlaces, <<l, n>>)  OBVIOUS
<1>3. PICK named : named = LastBefore(NamedPlaces, <<l, n>>)  OBVIOUS
<1>4. Mark(bound) /\ Mark(named)
  <2>1. BoundPlaces \in SUBSET Places /\ NamedPlaces \in SUBSET Places  BY DEF BoundPlaces, NamedPlaces
  <2>2. QED  BY <1>2, <1>3, <2>1, LastMark
<1>5. Mark(seg) /\ seg.gen \in Int  BY SegmentIs
<1>6. (IF n = 1 THEN 0 ELSE program[l][n - 1].gen) \in Int
  <2>1. CASE n # 1
    <3>1. n - 1 \in DOMAIN program[l]  BY <2>1, PlaceIs
    <3>2. program[l][n - 1] \in Segments  BY <3>1, PlaceIs
    <3>3. program[l][n - 1].gen \in Int  BY <3>2, SegmentIs
    <3>4. QED  BY <2>1, <3>3
  <2>2. QED  BY <2>1
<1>7. GenGap(l, n) \in Int  BY <1>1, <1>5, <1>6 DEF GenGap
<1>8. SrcGap(l, n) \in Int /\ LineGap(l, n) \in Int /\ ColGap(l, n) \in Int
  BY <1>1, <1>2, <1>4, <1>5 DEF SrcGap, LineGap, ColGap, Mark
<1>9. NameGap(l, n) \in Int  BY <1>1, <1>3, <1>4, <1>5 DEF NameGap, Mark
<1>10. QED  BY <1>7, <1>8, <1>9

LEMMA SegmentRead ==
    ASSUME ProgramKept, NEW l \in DOMAIN program, NEW n \in DOMAIN program[l]
    PROVE  /\ EncodeSegment(l, n) \in Seq(Int)
           /\ Decoding(EncodeSegment(l, n)) = FirstDigit(WrittenFields(l, n), TRUE)
<1>1. PICK c \in Int : c = GenGap(l, n)  BY GapsAre
<1>2. PICK a \in Int : a = SrcGap(l, n)  BY GapsAre
<1>3. PICK b \in Int : b = LineGap(l, n)  BY GapsAre
<1>4. PICK d \in Int : d = ColGap(l, n)  BY GapsAre
<1>5. PICK e \in Int : e = NameGap(l, n)  BY GapsAre
<1>6. PICK s : s = EncodeNumber(c) \o EncodeNumber(a) \o EncodeNumber(b) \o EncodeNumber(d)  OBVIOUS
<1>7. EncodeSegment(l, n) = IF ~Bound(program[l][n]) THEN EncodeNumber(c)
                            ELSE IF ~Named(program[l][n]) THEN s ELSE s \o EncodeNumber(e)
  BY <1>1, <1>2, <1>3, <1>4, <1>5, <1>6, Zenon
  DEF EncodeSegment, GenGap, SrcGap, LineGap, ColGap, NameGap
<1>8. WrittenFields(l, n) = IF ~Bound(program[l][n]) THEN <<c>>
                      ELSE IF ~Named(program[l][n]) THEN <<c, a, b, d>> ELSE <<c, a, b, d, e>>
  BY <1>1, <1>2, <1>3, <1>4, <1>5 DEF WrittenFields
<1>9. ReadAs(s, c, a, b, d, e)  BY <1>6, NumbersRead
<1>10. QED  BY <1>7, <1>8, <1>9 DEF ReadAs

LEMMA SegmentDecoded ==
    ASSUME ProgramKept, NEW l \in DOMAIN program, NEW n \in DOMAIN program[l]
    PROVE  /\ decode_vlq(EncodeSegment(l, n)) = [values |-> WrittenFields(l, n), valid |-> TRUE]
           /\ WrittenFields(l, n) \in Seq(Int)
           /\ \A char \in {-1, 32} : ~decode_vlq(Append(EncodeSegment(l, n), char)).valid
<1>1. PICK s \in Seq(Int) : s = EncodeSegment(l, n)  BY SegmentRead
<1>2. PICK f : f = WrittenFields(l, n)  OBVIOUS
<1>3. PICK st : st = Decoding(s)  OBVIOUS
<1>4. st = [values |-> f, acc |-> 0, weight |-> 1, have_bits |-> FALSE, valid |-> TRUE]
  BY <1>1, <1>2, <1>3, SegmentRead DEF FirstDigit
<1>5. st.values = f /\ st.valid = TRUE /\ st.have_bits = FALSE  BY <1>4
<1>6. decode_vlq(s) = [values |-> f, valid |-> TRUE]
  <2>1. decode_vlq(s) = [values |-> st.values, valid |-> st.valid /\ ~st.have_bits]
    BY <1>3 DEF decode_vlq, Decoding
  <2>2. (st.valid /\ ~st.have_bits) = TRUE  BY <1>5
  <2>3. QED  BY <1>5, <2>1, <2>2
<1>7. f \in Seq(Int)
  <2>1. st \in DigitStates  BY <1>3, DecodingIs
  <2>2. st.values \in Seq(Int)  BY <2>1 DEF DigitStates
  <2>3. QED  BY <1>5, <2>2
<1>8. ASSUME NEW char \in {-1, 32}  PROVE ~decode_vlq(Append(s, char)).valid
  <2>1. PICK t : t = Decoding(Append(s, char))  OBVIOUS
  <2>2. t = DecodeDigit(st, char)  BY <1>3, <2>1, DecodingIs
  <2>3. decode_vlq(Append(s, char)).valid = (t.valid /\ ~t.have_bits)
    BY <2>1 DEF decode_vlq, Decoding
  <2>4. CASE char = -1
    <3>1. t = [st EXCEPT !.valid = FALSE]  BY <2>2, <2>4 DEF DecodeDigit
    <3>2. t.valid = FALSE  BY <1>4, <3>1
    <3>3. QED  BY <2>3, <3>2
  <2>5. CASE char = 32
    <3>1. t.have_bits = TRUE  BY <2>2, <2>5 DEF DecodeDigit, VLQ_MASK
    <3>2. QED  BY <2>3, <3>1
  <2>6. QED  BY <2>4, <2>5
<1>9. QED  BY <1>1, <1>2, <1>6, <1>7, <1>8

\* The numbers of a whole map.
File == [l \in DOMAIN program |-> [n \in DOMAIN program[l] |-> WrittenFields(l, n)]]

LEMMA MapParsed ==
    ASSUME ProgramKept
    PROVE  /\ parse_source_map(Encode).valid
           /\ parse_source_map(Encode).lines =
                [l \in DOMAIN program |-> ByColumn(ParseLine(FileRun(File)[l - 1], File[l]).row)]
           /\ SpoiltIsRejected
<1> DEFINE Decoded(m) == [l \in DOMAIN m |-> [n \in DOMAIN m[l] |-> decode_vlq(m[l][n])]]
           FileOf(m) == [l \in DOMAIN Decoded(m) |-> [n \in DOMAIN Decoded(m)[l] |-> Decoded(m)[l][n].values]]
<1>1. ASSUME NEW m
      PROVE  /\ parse_source_map(m).valid
                  = (\A l \in DOMAIN Decoded(m) : \A n \in DOMAIN Decoded(m)[l] : Decoded(m)[l][n].valid)
             /\ parse_source_map(m).lines
                  = [l \in DOMAIN FileOf(m) |-> ByColumn(ParseLine(FileRun(FileOf(m))[l - 1], FileOf(m)[l]).row)]
  <2> DEFINE valid == \A l \in DOMAIN Decoded(m) : \A n \in DOMAIN Decoded(m)[l] : Decoded(m)[l][n].valid
             lines == [l \in DOMAIN FileOf(m) |-> ByColumn(ParseLine(FileRun(FileOf(m))[l - 1], FileOf(m)[l]).row)]
  <2>1. parse_source_map(m) = [lines |-> lines, valid |-> valid]  BY DEF parse_source_map
  <2> HIDE DEF lines, valid
  <2>2. QED  BY <2>1, SMTT(30) DEF lines, valid
<1>2. PICK m : m = Encode  OBVIOUS
<1>3. /\ DOMAIN m = DOMAIN program
      /\ \A l \in DOMAIN program : /\ DOMAIN m[l] = DOMAIN program[l]
                                   /\ \A n \in DOMAIN program[l] : m[l][n] = EncodeSegment(l, n)
  BY <1>2 DEF Encode
<1>4. /\ DOMAIN Decoded(m) = DOMAIN program
      /\ \A l \in DOMAIN program :
            /\ DOMAIN Decoded(m)[l] = DOMAIN program[l]
            /\ \A n \in DOMAIN program[l] :
                  Decoded(m)[l][n].values = WrittenFields(l, n) /\ Decoded(m)[l][n].valid = TRUE
  <2>1. ASSUME NEW l \in DOMAIN program, NEW n \in DOMAIN program[l]
        PROVE  Decoded(m)[l][n].values = WrittenFields(l, n) /\ Decoded(m)[l][n].valid = TRUE
    <3>1. Decoded(m)[l][n] = decode_vlq(EncodeSegment(l, n))  BY <1>3
    <3> HIDE DEF Decoded
    <3>2. Decoded(m)[l][n] = [values |-> WrittenFields(l, n), valid |-> TRUE]  BY <3>1, SegmentDecoded
    <3>3. QED  BY <3>2
  <2>2. DOMAIN Decoded(m) = DOMAIN program
        /\ \A l \in DOMAIN program : DOMAIN Decoded(m)[l] = DOMAIN program[l]
    BY <1>3
  <2> HIDE DEF Decoded
  <2>3. QED  BY <2>1, <2>2
<1>5. FileOf(m) = File
  <2> HIDE DEF Decoded
  <2>1. \A l \in DOMAIN program :
           [n \in DOMAIN Decoded(m)[l] |-> Decoded(m)[l][n].values]
             = [n \in DOMAIN program[l] |-> WrittenFields(l, n)]
    BY <1>4
  <2>2. QED  BY <1>4, <2>1 DEF File
<1>6. parse_source_map(m).valid
  <2> HIDE DEF Decoded
  <2>1. \A l \in DOMAIN Decoded(m) : \A n \in DOMAIN Decoded(m)[l] : Decoded(m)[l][n].valid
    BY <1>4
  <2>2. QED  BY <1>1, <2>1
<1>7. DOMAIN File = DOMAIN program  BY DEF File
<1>8. parse_source_map(m).lines =
         [l \in DOMAIN program |-> ByColumn(ParseLine(FileRun(File)[l - 1], File[l]).row)]
  <2> HIDE DEF FileOf
  <2>1. QED  BY <1>1, <1>5, <1>7
<1>9. ASSUME NEW l \in DOMAIN program, NEW n \in DOMAIN program[l], NEW char \in {-1, 32}
      PROVE  ~parse_source_map([m EXCEPT ![l][n] = Append(@, char)]).valid
  <2>1. PICK s : s = [m EXCEPT ![l][n] = Append(@, char)]  OBVIOUS
  <2>2. l \in DOMAIN s /\ n \in DOMAIN s[l] /\ s[l][n] = Append(EncodeSegment(l, n), char)
    BY <1>3, <2>1
  <2>3. ~decode_vlq(s[l][n]).valid  BY <2>2, SegmentDecoded
  <2>4. l \in DOMAIN Decoded(s) /\ n \in DOMAIN Decoded(s)[l] /\ Decoded(s)[l][n] = decode_vlq(s[l][n])
    BY <2>2
  <2> HIDE DEF Decoded
  <2>5. ~(\A k \in DOMAIN Decoded(s) : \A i \in DOMAIN Decoded(s)[k] : Decoded(s)[k][i].valid)
    BY <2>3, <2>4
  <2>6. QED  BY <1>1, <2>1, <2>5
<1>10. QED  BY <1>2, <1>6, <1>8, <1>9 DEF SpoiltIsRejected

-----------------------------------------------------------------------------
(* Reading a source map: the parser.                                       *)

Marks == [gen : Int, src : Int, line : Int, col : Int, name : Int]
LineStates == [at : Marks, row : Seq(Marks)]

LEMMA ParseType ==
    ASSUME NEW st \in LineStates, NEW f \in Seq(Int)
    PROVE  ParseSegment(st, f) \in LineStates
<1>1. PICK at : at = Advance(st.at, f)  OBVIOUS
<1>2. CASE f = <<>>  BY <1>2 DEF ParseSegment
<1>3. CASE f # <<>>
  <2>1. Len(f) \in Nat /\ Len(f) >= 1  BY <1>3
  <2>2. /\ f[1] \in Int
        /\ Len(f) >= 4 => f[2] \in Int /\ f[3] \in Int /\ f[4] \in Int
        /\ Len(f) >= 5 => f[5] \in Int
    BY <2>1
  <2>3. st.at.gen \in Int /\ st.at.src \in Int /\ st.at.line \in Int /\ st.at.col \in Int
        /\ st.at.name \in Int
    BY DEF LineStates, Marks
  <2>4. at \in Marks
    <3>1. PICK g \in Int : g = st.at.gen + f[1]  BY <2>2, <2>3
    <3>2. PICK a \in Int : a = IF Len(f) < 4 THEN st.at.src ELSE st.at.src + f[2]
      BY <2>1, <2>2, <2>3, SMTT(30)
    <3>3. PICK b \in Int : b = IF Len(f) < 4 THEN st.at.line ELSE st.at.line + f[3]
      BY <2>1, <2>2, <2>3, SMTT(30)
    <3>4. PICK d \in Int : d = IF Len(f) < 4 THEN st.at.col ELSE st.at.col + f[4]
      BY <2>1, <2>2, <2>3, SMTT(30)
    <3>5. PICK e \in Int : e = IF Len(f) < 5 THEN st.at.name ELSE st.at.name + f[5]
      <4>1. CASE Len(f) < 5  BY <2>3, <4>1
      <4>2. CASE ~ (Len(f) < 5)
        <5>1. f[5] \in Int  BY <2>1, <2>2, <4>2
        <5>2. st.at.name + f[5] \in Int  BY <2>3, <5>1
        <5>3. QED  BY <4>2, <5>2
      <4>3. QED  BY <4>1, <4>2
    <3>6. at = [gen |-> g, src |-> a, line |-> b, col |-> d, name |-> e]
      BY <1>1, <3>1, <3>2, <3>3, <3>4, <3>5 DEF Advance
    <3>7. QED  BY <3>6 DEF Marks
  <2>5. PICK seg : seg = IF Len(f) = 4 THEN [at EXCEPT !.name = NoName] ELSE at  OBVIOUS
  <2>6. seg \in Marks  BY <2>4, <2>5 DEF Marks, NoName
  <2>7. PICK row : row = IF Len(f) < 4 THEN st.row ELSE Append(st.row, seg)  OBVIOUS
  <2>8. row \in Seq(Marks)
    <3>1. st.row \in Seq(Marks)  BY DEF LineStates
    <3>2. Append(st.row, seg) \in Seq(Marks)  BY <2>6, <3>1
    <3>3. QED  BY <2>7, <3>1, <3>2
  <2>9. ParseSegment(st, f) = [at |-> at, row |-> row]
    BY <1>1, <1>3, <2>5, <2>7 DEF ParseSegment
  <2>10. QED  BY <2>4, <2>8, <2>9 DEF LineStates
<1>4. QED  BY <1>2, <1>3

LEMMA LineRunIs ==
    ASSUME NEW at \in Marks, NEW fields \in Seq(Seq(Int))
    PROVE  /\ LineRun(at, fields)[0] = [at |-> [at EXCEPT !.gen = 0], row |-> <<>>]
           /\ \A n \in 1 .. Len(fields) :
                 LineRun(at, fields)[n] = ParseSegment(LineRun(at, fields)[n - 1], fields[n])
           /\ ParseLine(at, fields) \in LineStates
<1> DEFINE V == LineStates
           base == [at |-> [at EXCEPT !.gen = ColumnAtLineStart(at)], row |-> <<>>]
           next == [n \in 1 .. Len(fields) |-> [v \in V |-> ParseSegment(v, fields[n])]]
           P(g) == g = [n \in 0 .. Len(fields) |->
                          IF n = 0 THEN base ELSE ParseSegment(g[n - 1], fields[n])]
           run == CHOOSE g : P(g)
<1>0. Len(fields) \in Nat /\ \A n \in 1 .. Len(fields) : fields[n] \in Seq(Int)  OBVIOUS
<1>1. base \in V /\ base = [at |-> [at EXCEPT !.gen = 0], row |-> <<>>]
  <2>1. [at EXCEPT !.gen = 0] \in Marks  BY SMTT(30) DEF Marks
  <2>2. [at |-> [at EXCEPT !.gen = 0], row |-> <<>>] \in V
    <3>1. PICK b \in Marks : b = [at EXCEPT !.gen = 0]  BY <2>1
    <3>2. [at |-> b, row |-> <<>>] \in V  BY DEF LineStates
    <3>3. QED  BY <3>1, <3>2
  <2>3. QED  BY <2>2 DEF ColumnAtLineStart
<1>2. next \in [1 .. Len(fields) -> [V -> V]]
  <2>1. ASSUME NEW n \in 1 .. Len(fields), NEW v \in V  PROVE ParseSegment(v, fields[n]) \in V
    BY <1>0, ParseType
  <2>2. QED  BY <2>1
<1>3. PICK g : Folds(g, Len(fields), V, base, next)
  <2> HIDE DEF V, base, next
  <2>1. QED  BY <1>0, <1>1, <1>2, FoldExists
<1>4. P(g)
  <2>1. /\ g \in [0 .. Len(fields) -> V]
        /\ g = [n \in 0 .. Len(fields) |-> IF n = 0 THEN base ELSE next[n][g[n - 1]]]
    <3> HIDE DEF V, base, next
    <3>1. QED  BY <1>3 DEF Folds
  <2>2. ASSUME NEW n \in 0 .. Len(fields), n # 0
        PROVE  next[n][g[n - 1]] = ParseSegment(g[n - 1], fields[n])
    <3>1. n \in 1 .. Len(fields) /\ n - 1 \in 0 .. Len(fields)  BY <1>0, <2>2
    <3> HIDE DEF base, V
    <3>2. g[n - 1] \in V
      <4> HIDE DEF next
      <4>1. QED  BY <2>1, <3>1
    <3>3. QED  BY <3>1, <3>2
  <2> HIDE DEF V, base, next
  <2>3. QED  BY <2>1, <2>2
<1>5. P(run)
  <2> HIDE DEF P
  <2>1. QED  BY <1>4
<1>6. LineRun(at, fields) = run  BY DEF LineRun
<1> HIDE DEF run
<1>7. ASSUME NEW n \in 1 .. Len(fields)  PROVE run[n] = ParseSegment(run[n - 1], fields[n])
  <2>1. n \in 0 .. Len(fields) /\ n # 0  BY <1>0
  <2> HIDE DEF base
  <2>2. QED  BY <1>5, <2>1
<1>8. run[0] = base
  <2>1. 0 \in 0 .. Len(fields)  BY <1>0
  <2> HIDE DEF base
  <2>2. QED  BY <1>5, <2>1
<1>9. run[Len(fields)] \in V
  <2> DEFINE S == {n \in Nat : n <= Len(fields) => run[n] \in V}
  <2> HIDE DEF V, base
  <2>1. 0 \in S  BY <1>1, <1>8
  <2>2. ASSUME NEW n \in Nat, n \in S  PROVE n + 1 \in S
    <3>1. CASE n + 1 <= Len(fields)
      <4>1. run[n] \in V /\ n + 1 \in 1 .. Len(fields) /\ (n + 1) - 1 = n  BY <1>0, <2>2, <3>1
      <4>2. run[n + 1] = ParseSegment(run[n], fields[n + 1])  BY <1>7, <4>1
      <4>3. fields[n + 1] \in Seq(Int)  BY <1>0, <4>1
      <4>4. run[n + 1] \in V  BY <4>1, <4>2, <4>3, ParseType DEF V
      <4>5. QED  BY <4>4
    <3>2. CASE ~ (n + 1 <= Len(fields))  BY <3>2
    <3>3. QED  BY <3>1, <3>2
  <2> HIDE DEF S
  <2>3. Nat \subseteq S  BY <2>1, <2>2, AllFollow
  <2>4. QED  BY <1>0, <2>3 DEF S
<1>10. QED  BY <1>1, <1>6, <1>7, <1>8, <1>9 DEF ParseLine

LEMMA FileRunIs ==
    ASSUME NEW file \in Seq(Seq(Seq(Int)))
    PROVE  /\ FileRun(file) \in [0 .. Len(file) -> Marks]
           /\ FileRun(file)[0] = Start
           /\ \A l \in 1 .. Len(file) :
                 FileRun(file)[l] = ParseLine(FileRun(file)[l - 1], file[l]).at
<1> DEFINE V == Marks
           next == [n \in 1 .. Len(file) |-> [v \in V |-> ParseLine(v, file[n]).at]]
           P(g) == g = [l \in 0 .. Len(file) |->
                          IF l = 0 THEN Start ELSE ParseLine(g[l - 1], file[l]).at]
           run == CHOOSE g : P(g)
<1>0. Len(file) \in Nat /\ \A n \in 1 .. Len(file) : file[n] \in Seq(Seq(Int))  OBVIOUS
<1>1. Start \in V  BY DEF Start, Marks
<1>t. ASSUME NEW n \in 1 .. Len(file), NEW v \in V  PROVE ParseLine(v, file[n]).at \in V
  <2>1. ParseLine(v, file[n]) \in LineStates  BY <1>0, LineRunIs
  <2>2. QED  BY <2>1 DEF LineStates
<1>2. next \in [1 .. Len(file) -> [V -> V]]
  <2> HIDE DEF V
  <2>1. QED  BY <1>t
<1>3. PICK g : Folds(g, Len(file), V, Start, next)
  <2> HIDE DEF V, next
  <2>1. QED  BY <1>0, <1>1, <1>2, FoldExists
<1>4. P(g)
  <2>1. /\ g \in [0 .. Len(file) -> V]
        /\ g = [n \in 0 .. Len(file) |-> IF n = 0 THEN Start ELSE next[n][g[n - 1]]]
    <3> HIDE DEF V, next
    <3>1. QED  BY <1>3 DEF Folds
  <2>2. ASSUME NEW n \in 0 .. Len(file), n # 0
        PROVE  next[n][g[n - 1]] = ParseLine(g[n - 1], file[n]).at
    <3>1. n \in 1 .. Len(file) /\ n - 1 \in 0 .. Len(file)  BY <1>0, <2>2
    <3> HIDE DEF V
    <3>2. g[n - 1] \in V
      <4> HIDE DEF next
      <4>1. QED  BY <2>1, <3>1
    <3>3. QED  BY <3>1, <3>2
  <2> HIDE DEF V, next
  <2>3. QED  BY <2>1, <2>2
<1>5. P(run)
  <2> HIDE DEF P
  <2>1. QED  BY <1>4
<1>6. FileRun(file) = run  BY DEF FileRun
<1> HIDE DEF run
<1>7. ASSUME NEW n \in 1 .. Len(file)  PROVE run[n] = ParseLine(run[n - 1], file[n]).at
  <2>1. n \in 0 .. Len(file) /\ n # 0  BY <1>0
  <2>2. QED  BY <1>5, <2>1
<1>8. run[0] = Start
  <2>1. 0 \in 0 .. Len(file)  BY <1>0
  <2>2. QED  BY <1>5, <2>1
<1>9. run \in [0 .. Len(file) -> V]
  <2> DEFINE S == {n \in Nat : n <= Len(file) => run[n] \in V}
  <2> HIDE DEF V
  <2>1. 0 \in S  BY <1>1, <1>8
  <2>2. ASSUME NEW n \in Nat, n \in S  PROVE n + 1 \in S
    <3>1. CASE n + 1 <= Len(file)
      <4>1. run[n] \in V /\ n + 1 \in 1 .. Len(file) /\ (n + 1) - 1 = n  BY <1>0, <2>2, <3>1
      <4>2. run[n + 1] = ParseLine(run[n], file[n + 1]).at  BY <1>7, <4>1
      <4>3. run[n + 1] \in V  BY <1>t, <4>1, <4>2
      <4>4. QED  BY <4>3
    <3>2. CASE ~ (n + 1 <= Len(file))  BY <3>2
    <3>3. QED  BY <3>1, <3>2
  <2> HIDE DEF S
  <2>3. Nat \subseteq S  BY <2>1, <2>2, AllFollow
  <2>4. \A n \in 0 .. Len(file) : run[n] \in V  BY <1>0, <2>3 DEF S
  <2>5. run = [n \in 0 .. Len(file) |-> run[n]]  BY <1>5
  <2>6. QED  BY <2>4, <2>5
<1>10. QED  BY <1>6, <1>7, <1>8, <1>9

\* Where the parser should be after n segments of a line.
Expected(l, n) ==
    [gen |-> IF n = 0 THEN 0 ELSE program[l][n].gen,
     src |-> LastBefore(BoundPlaces, <<l, n + 1>>).src,
     line |-> LastBefore(BoundPlaces, <<l, n + 1>>).line,
     col |-> LastBefore(BoundPlaces, <<l, n + 1>>).col,
     name |-> LastBefore(NamedPlaces, <<l, n + 1>>).name]

LEMMA BoundAre ==
    ASSUME ProgramKept, NEW l \in DOMAIN program, NEW n \in DOMAIN program[l]
    PROVE  /\ BoundPlaces \in SUBSET Places /\ NamedPlaces \in SUBSET Places
           /\ (<<l, n>> \in BoundPlaces) <=> Bound(program[l][n])
           /\ (<<l, n>> \in NamedPlaces) <=> Named(program[l][n])
<1>1. <<l, n>> \in Places /\ At(<<l, n>>) = program[l][n]  BY PlaceIs
<1>2. QED  BY <1>1 DEF BoundPlaces, NamedPlaces

LEMMA ParserMoves ==
    ASSUME ProgramKept, NEW l \in DOMAIN program, NEW n \in Nat, n + 1 \in DOMAIN program[l],
           NEW st, st.at = Expected(l, n)
    PROVE  ParseSegment(st, WrittenFields(l, n + 1)).at = Expected(l, n + 1)
           /\ ParseSegment(st, WrittenFields(l, n + 1)).row
                = IF Bound(program[l][n + 1]) THEN Append(st.row, program[l][n + 1]) ELSE st.row
<1>1. PICK m \in Nat : m = n + 1  OBVIOUS
<1>2. m \in DOMAIN program[l] /\ m # 0 /\ m - 1 = n  BY <1>1
<1>3. PICK seg \in Segments : seg = program[l][m]  BY <1>2, PlaceIs
<1>4. PICK bound : bound = LastBefore(BoundPlaces, <<l, m>>)  OBVIOUS
<1>5. PICK named : named = LastBefore(NamedPlaces, <<l, m>>)  OBVIOUS
<1>6. PICK g : g = IF n = 0 THEN 0 ELSE program[l][n].gen  OBVIOUS
<1>7. st.at = [gen |-> g, src |-> bound.src, line |-> bound.line, col |-> bound.col, name |-> named.name]
  BY <1>1, <1>4, <1>5, <1>6 DEF Expected
<1>8. Mark(bound) /\ Mark(named) /\ g \in Int
  <2>1. BoundPlaces \in SUBSET Places /\ NamedPlaces \in SUBSET Places  BY <1>2, BoundAre
  <2>2. Mark(bound) /\ Mark(named)  BY <1>4, <1>5, <2>1, LastMark
  <2>3. n # 0 => program[l][n].gen \in Int
    <3>1. n # 0 => n \in DOMAIN program[l]  BY <1>2, PlaceIs
    <3>2. n # 0 => program[l][n] \in Segments  BY <3>1, PlaceIs
    <3>3. QED  BY <3>2, SegmentIs
  <2>4. QED  BY <1>6, <2>2, <2>3
<1>9. /\ seg.gen \in Int /\ Mark(seg) /\ (Bound(seg) /\ ~Named(seg) => seg.name = NoName)
      /\ seg = [gen |-> seg.gen, src |-> seg.src, line |-> seg.line, col |-> seg.col, name |-> seg.name]
  BY SegmentIs
<1>10. /\ GenGap(l, m) = seg.gen - g /\ SrcGap(l, m) = seg.src - bound.src
       /\ LineGap(l, m) = seg.line - bound.line /\ ColGap(l, m) = seg.col - bound.col
       /\ NameGap(l, m) = seg.name - named.name
  <2>1. (IF m = 1 THEN 0 ELSE program[l][m - 1].gen) = g  BY <1>1, <1>2, <1>6
  <2>2. QED  BY <1>3, <1>4, <1>5, <2>1 DEF GenGap, SrcGap, LineGap, ColGap, NameGap
<1>11. PICK now : now = IF Bound(seg) THEN seg ELSE bound  OBVIOUS
<1>12. PICK called : called = IF Named(seg) THEN seg ELSE named  OBVIOUS
<1>13. Expected(l, m) = [gen |-> seg.gen, src |-> now.src, line |-> now.line, col |-> now.col,
                         name |-> called.name]
  <2>1. LastBefore(BoundPlaces, <<l, m + 1>>) = now
    BY <1>2, <1>3, <1>4, <1>11, BoundAre, LastMoves
  <2>2. LastBefore(NamedPlaces, <<l, m + 1>>) = called
    BY <1>2, <1>3, <1>5, <1>12, BoundAre, LastMoves
  <2>3. QED  BY <1>2, <1>3, <2>1, <2>2 DEF Expected
<1>14. PICK f : f = WrittenFields(l, m)  OBVIOUS
<1>15. g + (seg.gen - g) = seg.gen /\ bound.src + (seg.src - bound.src) = seg.src
       /\ bound.line + (seg.line - bound.line) = seg.line
       /\ bound.col + (seg.col - bound.col) = seg.col
       /\ named.name + (seg.name - named.name) = seg.name
  BY <1>8, <1>9 DEF Mark
<1>16. CASE ~Bound(seg)
  <2>1. f = <<seg.gen - g>>  BY <1>3, <1>10, <1>14, <1>16 DEF WrittenFields
  <2>2. Len(f) = 1 /\ f[1] = seg.gen - g /\ f # <<>>  BY <2>1
  <2>3. Advance(st.at, f) = [gen |-> seg.gen, src |-> bound.src, line |-> bound.line,
                             col |-> bound.col, name |-> named.name]
    BY <1>7, <1>15, <2>2 DEF Advance
  <2>4. Advance(st.at, f) = Expected(l, m)
    BY <1>11, <1>12, <1>13, <1>16, <2>3 DEF Named
  <2>5. ParseSegment(st, f).at = Expected(l, m) /\ ParseSegment(st, f).row = st.row
    BY <2>2, <2>4 DEF ParseSegment
  <2>6. QED  BY <1>1, <1>3, <1>14, <1>16, <2>5
<1>17. CASE Bound(seg) /\ ~Named(seg)
  <2>1. f = <<seg.gen - g, seg.src - bound.src, seg.line - bound.line, seg.col - bound.col>>
    BY <1>3, <1>10, <1>14, <1>17 DEF WrittenFields
  <2>2. /\ Len(f) = 4 /\ f # <<>> /\ f[1] = seg.gen - g /\ f[2] = seg.src - bound.src
        /\ f[3] = seg.line - bound.line /\ f[4] = seg.col - bound.col
    BY <2>1
  <2>3. Advance(st.at, f) = [gen |-> seg.gen, src |-> seg.src, line |-> seg.line,
                             col |-> seg.col, name |-> named.name]
    BY <1>7, <1>15, <2>2 DEF Advance
  <2>4. Advance(st.at, f) = Expected(l, m)  BY <1>11, <1>12, <1>13, <1>17, <2>3
  <2>5. [Advance(st.at, f) EXCEPT !.name = NoName] = seg  BY <1>9, <1>17, <2>3
  <2>6. ParseSegment(st, f).at = Expected(l, m) /\ ParseSegment(st, f).row = Append(st.row, seg)
    BY <2>2, <2>4, <2>5 DEF ParseSegment
  <2>7. QED  BY <1>1, <1>3, <1>14, <1>17, <2>6
<1>18. CASE Bound(seg) /\ Named(seg)
  <2>1. f = <<seg.gen - g, seg.src - bound.src, seg.line - bound.line, seg.col - bound.col,
              seg.name - named.name>>
    BY <1>3, <1>10, <1>14, <1>18 DEF WrittenFields
  <2>2. /\ Len(f) = 5 /\ f # <<>> /\ f[1] = seg.gen - g /\ f[2] = seg.src - bound.src
        /\ f[3] = seg.line - bound.line /\ f[4] = seg.col - bound.col /\ f[5] = seg.name - named.name
    BY <2>1
  <2>3. Advance(st.at, f) = [gen |-> seg.gen, src |-> seg.src, line |-> seg.line,
                             col |-> seg.col, name |-> seg.name]
    BY <1>7, <1>15, <2>2 DEF Advance
  <2>4. Advance(st.at, f) = Expected(l, m) /\ Advance(st.at, f) = seg
    BY <1>9, <1>11, <1>12, <1>13, <1>18, <2>3
  <2>5. ParseSegment(st, f).at = Expected(l, m) /\ ParseSegment(st, f).row = Append(st.row, seg)
    BY <2>2, <2>4 DEF ParseSegment
  <2>6. QED  BY <1>1, <1>3, <1>14, <1>18, <2>5
<1>19. QED  BY <1>16, <1>17, <1>18

\* A row holds the first n segments of a line that are bound, in their order: idx says which.
Picks(idx, row, l, n) ==
    /\ row \in Seq(Marks) /\ idx \in Seq(Nat) /\ Len(idx) = Len(row)
    /\ \A k \in 1 .. Len(row) :
          idx[k] \in 1 .. n /\ Bound(program[l][idx[k]]) /\ row[k] = program[l][idx[k]]
    /\ \A j, k \in 1 .. Len(row) : j < k => idx[j] < idx[k]
    /\ \A m \in 1 .. n : Bound(program[l][m]) => \E k \in 1 .. Len(row) : idx[k] = m

LEMMA PickOne ==
    ASSUME ProgramKept, NEW l \in DOMAIN program, NEW n \in Nat, n + 1 \in DOMAIN program[l],
           NEW idx, NEW row, Picks(idx, row, l, n), Bound(program[l][n + 1])
    PROVE  Picks(Append(idx, n + 1), Append(row, program[l][n + 1]), l, n + 1)
<1>1. PICK seg \in Segments : seg = program[l][n + 1]  BY PlaceIs
<1>2. seg \in Marks  BY SegmentIs DEF Mark, Marks
<1>3. PICK r : r = Append(row, seg)  OBVIOUS
<1>4. PICK i : i = Append(idx, n + 1)  OBVIOUS
<1>5. row \in Seq(Marks) /\ idx \in Seq(Nat) /\ Len(idx) = Len(row) /\ Len(row) \in Nat  BY DEF Picks
<1>6. /\ r \in Seq(Marks) /\ Len(r) = Len(row) + 1 /\ r[Len(row) + 1] = seg
      /\ \A k \in 1 .. Len(row) : r[k] = row[k]
  BY <1>2, <1>3, <1>5
<1>7. /\ i \in Seq(Nat) /\ Len(i) = Len(row) + 1 /\ i[Len(row) + 1] = n + 1
      /\ \A k \in 1 .. Len(row) : i[k] = idx[k]
  BY <1>4, <1>5
<1>8. ASSUME NEW k \in 1 .. Len(r)
      PROVE  i[k] \in 1 .. n + 1 /\ Bound(program[l][i[k]]) /\ r[k] = program[l][i[k]]
  <2>1. CASE k \in 1 .. Len(row)
    <3>1. idx[k] \in 1 .. n /\ Bound(program[l][idx[k]]) /\ row[k] = program[l][idx[k]]
      BY <2>1 DEF Picks
    <3>2. QED  BY <1>6, <1>7, <2>1, <3>1
  <2>2. CASE k = Len(row) + 1  BY <1>1, <1>6, <1>7, <2>2
  <2>3. QED  BY <1>5, <1>6, <2>1, <2>2
<1>9. ASSUME NEW j \in 1 .. Len(r), NEW k \in 1 .. Len(r), j < k  PROVE i[j] < i[k]
  <2>1. j \in 1 .. Len(row) /\ idx[j] \in 1 .. n  BY <1>5, <1>6, <1>9 DEF Picks
  <2>2. CASE k \in 1 .. Len(row)
    <3>1. idx[j] < idx[k]  BY <1>9, <2>1, <2>2 DEF Picks
    <3>2. QED  BY <1>7, <2>1, <2>2, <3>1
  <2>3. CASE k = Len(row) + 1  BY <1>7, <2>1, <2>3, SMTT(30)
  <2>4. QED  BY <1>5, <1>6, <2>2, <2>3
<1>10. ASSUME NEW m \in 1 .. n + 1, Bound(program[l][m])  PROVE \E k \in 1 .. Len(r) : i[k] = m
  <2>1. CASE m \in 1 .. n
    <3>1. PICK k \in 1 .. Len(row) : idx[k] = m  BY <1>10, <2>1 DEF Picks
    <3>2. k \in 1 .. Len(r) /\ i[k] = m  BY <1>5, <1>6, <1>7, <3>1
    <3>3. QED  BY <3>2
  <2>2. CASE m = n + 1
    <3>1. Len(row) + 1 \in 1 .. Len(r)  BY <1>5, <1>6
    <3>2. QED  BY <1>7, <2>2, <3>1
  <2>3. QED  BY <2>1, <2>2
<1>11. Picks(i, r, l, n + 1)  BY <1>6, <1>7, <1>8, <1>9, <1>10 DEF Picks
<1>12. QED  BY <1>1, <1>3, <1>4, <1>11

LEMMA PickNone ==
    ASSUME NEW l, NEW n \in Nat, NEW idx, NEW row, Picks(idx, row, l, n), ~Bound(program[l][n + 1])
    PROVE  Picks(idx, row, l, n + 1)
<1>1. ASSUME NEW m \in 1 .. n + 1, Bound(program[l][m])  PROVE m \in 1 .. n
  BY <1>1
<1>2. \A k \in 1 .. Len(row) :
         idx[k] \in 1 .. n + 1 /\ Bound(program[l][idx[k]]) /\ row[k] = program[l][idx[k]]
  <2>1. \A k \in 1 .. Len(row) :
           idx[k] \in 1 .. n /\ Bound(program[l][idx[k]]) /\ row[k] = program[l][idx[k]]
    BY DEF Picks
  <2>2. QED  BY <2>1
<1>3. \A m \in 1 .. n + 1 : Bound(program[l][m]) => \E k \in 1 .. Len(row) : idx[k] = m
  BY <1>1 DEF Picks
<1>4. /\ row \in Seq(Marks) /\ idx \in Seq(Nat) /\ Len(idx) = Len(row)
      /\ \A j, k \in 1 .. Len(row) : j < k => idx[j] < idx[k]
  BY DEF Picks
<1>5. QED  BY <1>2, <1>3, <1>4 DEF Picks

LEMMA FileType ==
    ASSUME ProgramKept
    PROVE  /\ File \in Seq(Seq(Seq(Int))) /\ Len(File) = Len(program)
           /\ DOMAIN program = 1 .. Len(program) /\ Len(program) \in Nat
           /\ \A l \in DOMAIN program :
                 /\ File[l] \in Seq(Seq(Int)) /\ Len(File[l]) = Len(program[l])
                 /\ \A n \in DOMAIN program[l] : File[l][n] = WrittenFields(l, n)
<1>1. DOMAIN program = 1 .. Len(program) /\ Len(program) \in Nat  BY DEF ProgramKept
<1>2. ASSUME NEW l \in DOMAIN program
      PROVE  /\ File[l] \in Seq(Seq(Int)) /\ Len(File[l]) = Len(program[l])
             /\ \A n \in DOMAIN program[l] : File[l][n] = WrittenFields(l, n)
  <2>1. PICK m \in Nat : m = Len(program[l]) /\ DOMAIN program[l] = 1 .. m  BY PlaceIs
  <2>2. File[l] = [n \in 1 .. m |-> WrittenFields(l, n)]  BY <2>1 DEF File
  <2>3. \A n \in 1 .. m : WrittenFields(l, n) \in Seq(Int)  BY <2>1, SegmentDecoded
  <2>4. PICK f : f = File[l]  OBVIOUS
  <2>5. f \in [1 .. m -> Seq(Int)]  BY <2>2, <2>3, <2>4
  <2>6. f \in Seq(Seq(Int)) /\ Len(f) = m  BY <2>5
  <2>7. QED  BY <2>1, <2>2, <2>4, <2>6
<1>3. File \in Seq(Seq(Seq(Int))) /\ Len(File) = Len(program)
  <2>1. PICK m \in Nat : m = Len(program) /\ DOMAIN program = 1 .. m  BY <1>1
  <2>2. PICK f : f = File  OBVIOUS
  <2>3. DOMAIN f = 1 .. m /\ f = [l \in 1 .. m |-> f[l]]  BY <2>1, <2>2 DEF File
  <2>4. \A l \in 1 .. m : f[l] \in Seq(Seq(Int))  BY <1>2, <2>1, <2>2
  <2>5. f \in [1 .. m -> Seq(Seq(Int))]  BY <2>3, <2>4
  <2>6. f \in Seq(Seq(Seq(Int))) /\ Len(f) = m  BY <2>5
  <2>7. QED  BY <2>1, <2>2, <2>6
<1>4. QED  BY <1>1, <1>2, <1>3

\* The row of a line that is read.
RowIsRead(row, l) == \E idx : Picks(idx, row, l, Len(program[l]))

LEMMA LineParsed ==
    ASSUME ProgramKept, NEW l \in DOMAIN program, NEW at \in Marks,
           [at EXCEPT !.gen = 0] = Expected(l, 0)
    PROVE  /\ ParseLine(at, File[l]).at = Expected(l, Len(program[l]))
           /\ RowIsRead(ParseLine(at, File[l]).row, l)
<1>1. PICK fields \in Seq(Seq(Int)) : fields = File[l]  BY FileType
<1>2. PICK size \in Nat : /\ size = Len(program[l]) /\ size = Len(fields)
                          /\ DOMAIN program[l] = 1 .. size
                          /\ \A n \in 1 .. size : fields[n] = WrittenFields(l, n)
  BY <1>1, FileType, PlaceIs
<1>3. PICK run : run = LineRun(at, fields)  OBVIOUS
<1>4. /\ run[0] = [at |-> [at EXCEPT !.gen = 0], row |-> <<>>]
      /\ \A n \in 1 .. size : run[n] = ParseSegment(run[n - 1], fields[n])
  BY <1>2, <1>3, LineRunIs, ZenonT(30)
<1> DEFINE Read(n) == run[n].at = Expected(l, n) /\ \E idx : Picks(idx, run[n].row, l, n)
           S == {n \in Nat : n <= size => Read(n)}
<1>5. 0 \in S
  <2>1. run[0].at = Expected(l, 0) /\ run[0].row = <<>>  BY <1>4
  <2>2. Picks(<<>>, <<>>, l, 0)
    <3>1. <<>> \in Seq(Marks) /\ <<>> \in Seq(Nat) /\ Len(<<>>) = 0  OBVIOUS
    <3>2. QED  BY <3>1 DEF Picks
  <2>3. QED  BY <2>1, <2>2
<1>6. ASSUME NEW n \in Nat, n \in S  PROVE n + 1 \in S
  <2>1. CASE n + 1 <= size
    <3>1. n + 1 \in 1 .. size /\ n + 1 \in DOMAIN program[l] /\ (n + 1) - 1 = n /\ Read(n)
      BY <1>2, <1>6, <2>1
    <3>2. run[n + 1] = ParseSegment(run[n], WrittenFields(l, n + 1))  BY <1>2, <1>4, <3>1
    <3>3. PICK idx : Picks(idx, run[n].row, l, n)  BY <3>1
    <3>4. run[n].at = Expected(l, n)  BY <3>1
    <3>5. /\ run[n + 1].at = Expected(l, n + 1)
          /\ run[n + 1].row = IF Bound(program[l][n + 1]) THEN Append(run[n].row, program[l][n + 1])
                              ELSE run[n].row
      BY <3>1, <3>2, <3>4, ParserMoves
    <3>6. \E i : Picks(i, run[n + 1].row, l, n + 1)
      <4>1. CASE Bound(program[l][n + 1])
        <5>1. Picks(Append(idx, n + 1), Append(run[n].row, program[l][n + 1]), l, n + 1)
          BY <3>1, <3>3, <4>1, PickOne
        <5>2. QED  BY <3>5, <4>1, <5>1
      <4>2. CASE ~Bound(program[l][n + 1])
        <5>1. Picks(idx, run[n].row, l, n + 1)  BY <3>3, <4>2, PickNone
        <5>2. QED  BY <3>5, <4>2, <5>1
      <4>3. QED  BY <4>1, <4>2
    <3>7. QED  BY <3>5, <3>6
  <2>2. CASE ~ (n + 1 <= size)  BY <2>2
  <2>3. QED  BY <2>1, <2>2
<1>7. Read(size)
  <2> HIDE DEF S, Read
  <2>1. Nat \subseteq S  BY <1>5, <1>6, AllFollow
  <2>2. QED  BY <2>1 DEF S
<1>8. ParseLine(at, File[l]) = run[size]  BY <1>1, <1>2, <1>3 DEF ParseLine
<1>9. QED  BY <1>2, <1>7, <1>8 DEF RowIsRead

LEMMA FileParsed ==
    ASSUME ProgramKept, NEW l \in DOMAIN program
    PROVE  RowIsRead(ParseLine(FileRun(File)[l - 1], File[l]).row, l)
<1>1. PICK size \in Nat : size = Len(program) /\ DOMAIN program = 1 .. size /\ Len(File) = size
  BY FileType
<1>2. PICK run : run = FileRun(File)  OBVIOUS
<1>3. /\ run \in [0 .. size -> Marks] /\ run[0] = Start
      /\ \A k \in 1 .. size : run[k] = ParseLine(run[k - 1], File[k]).at
  BY <1>1, <1>2, FileType, FileRunIs
<1>p. BoundPlaces \in SUBSET Places /\ NamedPlaces \in SUBSET Places
  BY DEF BoundPlaces, NamedPlaces
<1> DEFINE Ready(k) == [run[k] EXCEPT !.gen = 0] = Expected(k + 1, 0)
           S == {k \in Nat : k <= size => Ready(k)}
<1>4. 0 \in S
  <2>1. LastBefore(BoundPlaces, <<1, 1>>) = [src |-> 0, line |-> 0, col |-> 0, name |-> 0]
        /\ LastBefore(NamedPlaces, <<1, 1>>) = [src |-> 0, line |-> 0, col |-> 0, name |-> 0]
    BY <1>p, LastNone
  <2>2. Expected(1, 0) = [gen |-> 0, src |-> 0, line |-> 0, col |-> 0, name |-> 0]
    BY <2>1 DEF Expected
  <2>3. QED  BY <1>3, <2>2 DEF Start
<1>5. ASSUME NEW k \in Nat, k \in S  PROVE k + 1 \in S
  <2>1. CASE k + 1 <= size
    <3>1. PICK m \in 1 .. size : m = k + 1 /\ m - 1 = k /\ m \in DOMAIN program  BY <1>1, <2>1
    <3>2. k \in 0 .. size /\ Ready(k)  BY <1>5, <2>1
    <3>3. run[k] \in Marks /\ [run[k] EXCEPT !.gen = 0] = Expected(m, 0)  BY <1>3, <3>1, <3>2
    <3>4. run[m] = Expected(m, Len(program[m]))
      <4>1. ParseLine(run[k], File[m]).at = Expected(m, Len(program[m]))  BY <3>1, <3>3, LineParsed
      <4>2. QED  BY <1>3, <3>1, <4>1
    <3>5. LastBefore(BoundPlaces, <<m + 1, 1>>) = LastBefore(BoundPlaces, <<m, Len(program[m]) + 1>>)
          /\ LastBefore(NamedPlaces, <<m + 1, 1>>) = LastBefore(NamedPlaces, <<m, Len(program[m]) + 1>>)
      BY <1>p, <3>1, LastOverLine
    <3>6. [Expected(m, Len(program[m])) EXCEPT !.gen = 0] = Expected(m + 1, 0)
      BY <3>5 DEF Expected
    <3>7. QED  BY <3>1, <3>4, <3>6
  <2>2. CASE ~ (k + 1 <= size)  BY <2>2
  <2>3. QED  BY <2>1, <2>2
<1>6. Ready(l - 1) /\ l - 1 \in 0 .. size
  <2> HIDE DEF S, Ready
  <2>1. Nat \subseteq S  BY <1>4, <1>5, AllFollow
  <2>2. l - 1 \in Nat /\ l - 1 <= size  BY <1>1
  <2>3. QED  BY <2>1, <2>2 DEF S
<1>7. (l - 1) + 1 = l  BY <1>1
<1>8. run[l - 1] \in Marks /\ [run[l - 1] EXCEPT !.gen = 0] = Expected(l, 0)  BY <1>3, <1>6, <1>7
<1>9. QED  BY <1>2, <1>8, LineParsed

-----------------------------------------------------------------------------
(* Reading a source map: looking a place up.                               *)

\* What is in order stays as it is.
LEMMA SortedStays ==
    ASSUME NEW row \in Seq(Marks), \A j, k \in 1 .. Len(row) : j <= k => row[j].gen <= row[k].gen
    PROVE  ByColumn(row) = row
<1>0. Len(row) \in Nat /\ DOMAIN row = 1 .. Len(row)  OBVIOUS
<1>t. \A k \in 1 .. Len(row) : row[k].gen \in Int
  <2>1. \A k \in 1 .. Len(row) : row[k] \in Marks  OBVIOUS
  <2>2. QED  BY <2>1 DEF Marks
<1>1. ASSUME NEW n \in 1 .. Len(row)  PROVE Rank(row, n) = n
  <2>1. ASSUME NEW k \in 1 .. Len(row)
        PROVE  (row[k].gen < row[n].gen \/ (row[k].gen = row[n].gen /\ k <= n)) <=> k <= n
    <3>1. row[k].gen \in Int /\ row[n].gen \in Int  BY <1>t
    <3>2. (k <= n => row[k].gen <= row[n].gen) /\ (n <= k => row[n].gen <= row[k].gen)  OBVIOUS
    <3>3. QED  BY <1>0, <3>1, <3>2
  <2>2. {k \in 1 .. Len(row) : row[k].gen < row[n].gen \/ (row[k].gen = row[n].gen /\ k <= n)}
          = {k \in 1 .. Len(row) : k <= n}
    BY <2>1
  <2>3. {k \in 1 .. Len(row) : k <= n} = 1 .. n  BY <1>0
  <2>4. n \in Nat  BY <1>0
  <2>5. Cardinality(1 .. n) = n  BY <2>4, FS_Interval
  <2>6. QED  BY <1>0, <2>2, <2>3, <2>5 DEF Rank
<1>2. ASSUME NEW k \in 1 .. Len(row)
      PROVE  (CHOOSE n \in DOMAIN row : Rank(row, n) = k) = k
  <2>1. \A n \in DOMAIN row : Rank(row, n) = n  BY <1>0, <1>1
  <2>2. QED  BY <1>0, <2>1
<1>3. ByColumn(row) = [k \in DOMAIN row |-> row[CHOOSE n \in DOMAIN row : Rank(row, n) = k]]
  BY DEF ByColumn
<1> DEFINE pick(k) == CHOOSE n \in DOMAIN row : Rank(row, n) = k
<1>4. \A k \in 1 .. Len(row) : pick(k) = k  BY <1>2
<1>5. ByColumn(row) = [k \in DOMAIN row |-> row[pick(k)]]  BY <1>3
<1> HIDE DEF pick
<1>6. row = [k \in 1 .. Len(row) |-> row[k]]  OBVIOUS
<1>7. QED  BY <1>0, <1>4, <1>5, <1>6

LEMMA RowSorted ==
    ASSUME ProgramKept, NEW l \in DOMAIN program, NEW row, NEW idx,
           Picks(idx, row, l, Len(program[l]))
    PROVE  /\ row \in Seq(Marks) /\ ByColumn(row) = row
           /\ \A j, k \in 1 .. Len(row) : j <= k => row[j].gen <= row[k].gen
<1>1. PICK size \in Nat : size = Len(program[l]) /\ DOMAIN program[l] = 1 .. size  BY PlaceIs
<1>2. row \in Seq(Marks) /\ idx \in Seq(Nat) /\ Len(idx) = Len(row)  BY DEF Picks
<1>3. ASSUME NEW j \in 1 .. Len(row), NEW k \in 1 .. Len(row), j <= k
      PROVE  row[j].gen <= row[k].gen
  <2>1. /\ idx[j] \in 1 .. size /\ row[j] = program[l][idx[j]]
        /\ idx[k] \in 1 .. size /\ row[k] = program[l][idx[k]]
    BY <1>1 DEF Picks
  <2>2. idx[j] <= idx[k]
    <3>1. CASE j < k  BY <2>1, <3>1 DEF Picks
    <3>2. CASE j = k  BY <2>1, <3>2
    <3>3. QED  BY <1>2, <1>3, <3>1, <3>2
  <2>3. program[l][idx[j]].gen <= program[l][idx[k]].gen  BY <1>1, <2>1, <2>2 DEF ProgramKept
  <2>4. QED  BY <2>1, <2>3
<1>4. QED  BY <1>2, <1>3, SortedStays

\* The segments with a source that start at or before a column.
Here(segs, gen_col) == {n \in DOMAIN segs : Bound(segs[n]) /\ segs[n].gen <= gen_col}

LEMMA BoundBeforeIs ==
    ASSUME NEW l \in DOMAIN program, l \in Nat, NEW gen_col
    PROVE  BoundBefore(l - 1, gen_col) = PlaceOfLast(program[l], Here(program[l], gen_col))
<1>1. (l - 1) + 1 = l  OBVIOUS
<1>2. SegmentsOf(l - 1) = program[l]  BY <1>1 DEF SegmentsOf
<1>3. {n \in Begun(l - 1, gen_col) : Bound(SegmentsOf(l - 1)[n])} = Here(program[l], gen_col)
  BY <1>2 DEF Begun, Here
<1>4. QED  BY <1>2, <1>3 DEF BoundBefore

\* Code that comes from somewhere comes from the last place of its line so far.
LEMMA OriginIsBound ==
    ASSUME ProgramKept, NEW l \in DOMAIN program, NEW gen_col \in Nat,
           ~FromNowhere(l - 1, gen_col)
    PROVE  Origin(l - 1, gen_col) = BoundBefore(l - 1, gen_col)
<1>1. PICK size \in Nat : size = Len(program[l]) /\ DOMAIN program[l] = 1 .. size  BY PlaceIs
<1>2. l \in Nat /\ (l - 1) + 1 = l  BY PlaceIs
<1>3. PICK segs : segs = program[l]  OBVIOUS
<1>4. SegmentsOf(l - 1) = segs  BY <1>2, <1>3 DEF SegmentsOf
<1>5. PICK started : started = Begun(l - 1, gen_col)  OBVIOUS
<1>6. PICK here : here = Here(segs, gen_col)  OBVIOUS
<1>7. /\ started = {n \in 1 .. size : segs[n].gen <= gen_col}
      /\ here = {n \in 1 .. size : Bound(segs[n]) /\ segs[n].gen <= gen_col}
  BY <1>1, <1>3, <1>4, <1>5, <1>6 DEF Begun, Here
<1>8. /\ Origin(l - 1, gen_col) = PlaceOfLast(segs, started)
      /\ BoundBefore(l - 1, gen_col) = PlaceOfLast(segs, here)
  BY <1>2, <1>3, <1>4, <1>5, <1>6, BoundBeforeIs DEF Origin
<1>9. CASE started = {}
  <2>1. here = {}  BY <1>7, <1>9
  <2>2. QED  BY <1>8, <1>9, <2>1
<1>10. CASE started # {}
  <2> DEFINE L(n) == \A k \in started : k <= n
             M(n) == \A k \in here : k <= n
  <2>1. PICK c \in started : L(c)
    <3>1. started \subseteq 0 .. size  BY <1>7
    <3>2. QED  BY <1>1, <1>10, <3>1, GreatestExists
  <2>2. (CHOOSE n \in started : L(n)) = c
    <3>1. ASSUME NEW n \in started, L(n)  PROVE n = c
      <4>1. n <= c /\ c <= n /\ n \in Nat /\ c \in Nat  BY <1>7, <2>1, <3>1
      <4>2. QED  BY <4>1
    <3> HIDE DEF L
    <3>2. QED  BY <2>1, <3>1
  <2>3. PICK seg : seg = segs[c]  OBVIOUS
  <2>4. PlaceOfLast(segs, started)
           = [src |-> seg.src, line |-> seg.line, col |-> seg.col, name |-> seg.name]
    BY <1>10, <2>2, <2>3 DEF PlaceOfLast
  <2>5. Bound(seg)
    <3>1. seg \in Segments  BY <1>1, <1>3, <1>7, <2>3, PlaceIs
    <3>2. PlaceOfLast(segs, started) # Unmapped  BY <1>5, <1>8, <1>10 DEF FromNowhere
    <3>3. ~Bound(seg) => [src |-> seg.src, line |-> seg.line, col |-> seg.col, name |-> seg.name]
                            = Unmapped
      BY <3>1, DecodeAssumption DEF IsSegment, Bound, Unmapped, NoName
    <3>4. QED  BY <2>4, <3>2, <3>3
  <2>6. c \in here /\ M(c) /\ here # {}  BY <1>7, <2>1, <2>3, <2>5
  <2>7. (CHOOSE n \in here : M(n)) = c
    <3>1. ASSUME NEW n \in here, M(n)  PROVE n = c
      <4>1. n <= c /\ c <= n /\ n \in Nat /\ c \in Nat  BY <1>7, <2>1, <2>6, <3>1
      <4>2. QED  BY <4>1
    <3> HIDE DEF M
    <3>2. QED  BY <2>6, <3>1
  <2>8. PlaceOfLast(segs, here)
           = [src |-> seg.src, line |-> seg.line, col |-> seg.col, name |-> seg.name]
    BY <2>3, <2>6, <2>7 DEF PlaceOfLast
  <2>9. QED  BY <1>8, <2>4, <2>8
<1>11. QED  BY <1>9, <1>10

\* A lookup in the row of one line.
LookupIn(row, gen_col) ==
    LET starting == {n \in DOMAIN row : \A k \in 1 .. n : row[k].gen <= gen_col}
        chosen == CHOOSE n \in starting : \A k \in starting : k <= n
    IN  IF starting = {} THEN Unmapped
        ELSE [src |-> row[chosen].src, line |-> row[chosen].line,
              col |-> row[chosen].col, name |-> row[chosen].name]

LEMMA LookupDepends ==
    ASSUME NEW lines, NEW gen_line, NEW gen_col, NEW row,
           row = IF gen_line + 1 \in DOMAIN lines THEN lines[gen_line + 1] ELSE <<>>
    PROVE  lookup(lines, gen_line, gen_col) = LookupIn(row, gen_col)
<1>1. lookup(lines, gen_line, gen_col)
        = LookupIn(IF gen_line + 1 \in DOMAIN lines THEN lines[gen_line + 1] ELSE <<>>, gen_col)
  BY DEF lookup, LookupIn
<1>2. QED  BY <1>1

\* A place in a source, or none.
IsOrigin(origin) == origin = Unmapped \/ (origin.line \in Nat /\ origin.col \in Nat)

LEMMA LookupIs ==
    ASSUME ProgramKept, NEW l \in DOMAIN program, NEW row, RowIsRead(row, l),
           NEW lines, l \in DOMAIN lines, lines[l] = row, NEW gen_col \in Nat
    PROVE  /\ lookup(lines, l - 1, gen_col) = BoundBefore(l - 1, gen_col)
           /\ IsOrigin(BoundBefore(l - 1, gen_col))
<1>1. PICK size \in Nat : size = Len(program[l]) /\ DOMAIN program[l] = 1 .. size  BY PlaceIs
<1>2. PICK idx : Picks(idx, row, l, size)  BY <1>1 DEF RowIsRead
<1>3. /\ row \in Seq(Marks) /\ DOMAIN row = 1 .. Len(row) /\ Len(row) \in Nat
      /\ \A j, k \in 1 .. Len(row) : j <= k => row[j].gen <= row[k].gen
  BY <1>1, <1>2, RowSorted
<1>4. l \in Nat /\ (l - 1) + 1 = l  BY PlaceIs
<1>5. PICK segs : segs = program[l]  OBVIOUS
<1>6. /\ \A k \in 1 .. Len(row) : /\ idx[k] \in 1 .. size /\ Bound(segs[idx[k]])
                                  /\ row[k] = segs[idx[k]]
      /\ \A j, k \in 1 .. Len(row) : j < k => idx[j] < idx[k]
      /\ \A m \in 1 .. size : Bound(segs[m]) => \E k \in 1 .. Len(row) : idx[k] = m
  BY <1>2, <1>5 DEF Picks
<1>t. \A k \in 1 .. Len(row) : row[k].gen \in Int
  <2>1. \A k \in 1 .. Len(row) : row[k] \in Marks  BY <1>3
  <2>2. QED  BY <2>1 DEF Marks
<1> DEFINE starting == {n \in 1 .. Len(row) : \A k \in 1 .. n : row[k].gen <= gen_col}
           L(n) == \A k \in starting : k <= n
           here == Here(segs, gen_col)
           M(n) == \A k \in here : k <= n
<1>7. lookup(lines, l - 1, gen_col) =
         LET chosen == CHOOSE n \in starting : L(n)
         IN  IF starting = {} THEN Unmapped
             ELSE [src |-> row[chosen].src, line |-> row[chosen].line,
                   col |-> row[chosen].col, name |-> row[chosen].name]
  <2>1. row = IF (l - 1) + 1 \in DOMAIN lines THEN lines[(l - 1) + 1] ELSE <<>>  BY <1>4
  <2>2. lookup(lines, l - 1, gen_col) = LookupIn(row, gen_col)  BY <2>1, LookupDepends
  <2>3. QED  BY <1>3, <2>2 DEF LookupIn
<1>8. BoundBefore(l - 1, gen_col) =
         LET seg == segs[CHOOSE n \in here : M(n)]
         IN  IF here = {} THEN Unmapped
             ELSE [src |-> seg.src, line |-> seg.line, col |-> seg.col, name |-> seg.name]
  BY <1>4, <1>5, BoundBeforeIs DEF PlaceOfLast
<1>9. \A k \in starting : k \in 1 .. Len(row) /\ idx[k] \in here
  <2>1. ASSUME NEW k \in starting  PROVE k \in 1 .. Len(row) /\ row[k].gen <= gen_col
    <3>1. k \in 1 .. Len(row) /\ k \in 1 .. k  BY <1>3
    <3>2. QED  BY <3>1
  <2>2. QED  BY <1>1, <1>5, <1>6, <2>1 DEF Here
<1>10. \A m \in here : \E k \in starting : idx[k] = m
  <2>1. ASSUME NEW m \in here  PROVE \E k \in starting : idx[k] = m
    <3>1. m \in 1 .. size /\ Bound(segs[m]) /\ segs[m].gen <= gen_col  BY <1>1, <1>5 DEF Here
    <3>2. PICK k \in 1 .. Len(row) : idx[k] = m  BY <1>6, <3>1
    <3>3. row[k].gen <= gen_col /\ row[k].gen \in Int  BY <1>6, <1>t, <3>1, <3>2
    <3>4. ASSUME NEW j \in 1 .. k  PROVE row[j].gen <= gen_col
      <4>1. j \in 1 .. Len(row) /\ j <= k  BY <1>3
      <4>2. row[j].gen <= row[k].gen /\ row[j].gen \in Int  BY <1>3, <1>t, <4>1
      <4>3. QED  BY <3>3, <4>2
    <3>5. k \in starting  BY <3>4
    <3>6. QED  BY <3>2, <3>5
  <2>2. QED  BY <2>1
<1>11. starting \subseteq 1 .. Len(row)  OBVIOUS
<1> HIDE DEF here, starting
<1>12. CASE starting = {}
  <2>1. here = {}  BY <1>10, <1>12
  <2>2. QED  BY <1>7, <1>8, <1>12, <2>1 DEF IsOrigin
<1>13. CASE starting # {}
  <2>1. PICK c \in starting : L(c)
    <3>1. starting \subseteq 0 .. Len(row)  BY <1>3, <1>11
    <3>2. QED  BY <1>3, <1>13, <3>1, GreatestExists
  <2>2. c \in 1 .. Len(row) /\ idx[c] \in here /\ here # {}  BY <1>9, <2>1
  <2>3. (CHOOSE n \in starting : L(n)) = c
    <3>1. ASSUME NEW n \in starting, L(n)  PROVE n = c
      <4>1. n <= c /\ c <= n /\ n \in Nat /\ c \in Nat  BY <1>3, <1>11, <2>1, <3>1
      <4>2. QED  BY <4>1
    <3> HIDE DEF L
    <3>2. QED  BY <2>1, <3>1
  <2>4. ASSUME NEW m \in here  PROVE m <= idx[c] /\ m \in Nat
    <3>1. PICK k \in starting : idx[k] = m  BY <1>10
    <3>2. k \in 1 .. Len(row) /\ k <= c  BY <1>11, <2>1
    <3>3. idx[k] \in 1 .. size /\ idx[c] \in 1 .. size  BY <1>6, <2>2, <3>2
    <3>4. idx[k] <= idx[c]
      <4>1. CASE k < c  BY <1>6, <2>2, <3>2, <3>3, <4>1
      <4>2. CASE k = c  BY <3>3, <4>2
      <4>3. QED  BY <1>3, <2>2, <3>2, <4>1, <4>2
    <3>5. QED  BY <3>1, <3>3, <3>4
  <2>5. M(idx[c])  BY <2>4
  <2>6. (CHOOSE n \in here : M(n)) = idx[c]
    <3>1. ASSUME NEW n \in here, M(n)  PROVE n = idx[c]
      <4>1. n <= idx[c] /\ n \in Nat  BY <2>4
      <4>2. idx[c] <= n /\ idx[c] \in Nat  BY <2>2, <2>4, <3>1
      <4>3. QED  BY <4>1, <4>2
    <3> HIDE DEF M
    <3>2. QED  BY <2>2, <2>5, <3>1
  <2>7. row[c] = segs[idx[c]]  BY <1>6, <2>2
  <2> HIDE DEF L, M
  <2>8. PICK seg : seg = segs[idx[c]]  OBVIOUS
  <2>9. /\ BoundBefore(l - 1, gen_col)
              = [src |-> seg.src, line |-> seg.line, col |-> seg.col, name |-> seg.name]
        /\ lookup(lines, l - 1, gen_col) = BoundBefore(l - 1, gen_col)
    BY <1>7, <1>8, <1>13, <2>2, <2>3, <2>6, <2>7, <2>8
  <2>10. seg \in Segments /\ Bound(seg)
    BY <1>1, <1>5, <1>6, <2>2, <2>8, PlaceIs
  <2>11. seg.line \in Nat /\ seg.col \in Nat  BY <2>10, SegmentIs
  <2>12. QED  BY <2>9, <2>11 DEF IsOrigin
<1>14. QED  BY <1>12, <1>13

\* A line the program does not have comes from nowhere.
LEMMA LookupOutside ==
    ASSUME ProgramKept, NEW l \in Nat, l \notin DOMAIN program,
           NEW lines, DOMAIN lines = DOMAIN program, NEW gen_col \in Nat
    PROVE  /\ lookup(lines, l - 1, gen_col) = Unmapped
           /\ Origin(l - 1, gen_col) = Unmapped /\ ~FromNowhere(l - 1, gen_col)
<1>1. (l - 1) + 1 = l  OBVIOUS
<1>2. PICK row : row = <<>>  OBVIOUS
<1>3. DOMAIN row = {}  BY <1>2
<1>4. lookup(lines, l - 1, gen_col) = LookupIn(row, gen_col)
  <2>1. row = IF (l - 1) + 1 \in DOMAIN lines THEN lines[(l - 1) + 1] ELSE <<>>  BY <1>1, <1>2
  <2>2. QED  BY <2>1, LookupDepends
<1>5. LookupIn(row, gen_col) = Unmapped
  <2>1. {n \in DOMAIN row : \A k \in 1 .. n : row[k].gen <= gen_col} = {}  BY <1>3
  <2>2. QED  BY <2>1 DEF LookupIn
<1>6. Begun(l - 1, gen_col) = {}
  <2>1. SegmentsOf(l - 1) = row  BY <1>1, <1>2 DEF SegmentsOf
  <2>2. QED  BY <1>3, <2>1 DEF Begun
<1>7. Origin(l - 1, gen_col) = Unmapped /\ ~FromNowhere(l - 1, gen_col)
  BY <1>6 DEF Origin, FromNowhere, PlaceOfLast
<1>8. QED  BY <1>4, <1>5, <1>7

\* The lines shown around a place are those of the window that the source has.
LEMMA ContextShown ==
    ASSUME NEW length \in Nat, NEW line \in Nat
    PROVE  LET c == source_context(length, line)
           IN  c.pre \cup c.at \cup c.post
                 = {n \in 0 .. length - 1 : /\ line < length
                                            /\ n - line \in -CONTEXT_WINDOW .. CONTEXT_WINDOW}
<1>0. CONTEXT_WINDOW \in Nat  BY DecodeAssumption
<1>1. PICK c : c = source_context(length, line)  OBVIOUS
<1> DEFINE wanted == {n \in 0 .. length - 1 : /\ line < length
                                              /\ n - line \in -CONTEXT_WINDOW .. CONTEXT_WINDOW}
<1>2. CASE line \notin 0 .. length - 1
  <2>1. c.pre = {} /\ c.at = {} /\ c.post = {}  BY <1>1, <1>2 DEF source_context
  <2>2. wanted = {}  BY <1>2
  <2>3. QED  BY <1>1, <2>1, <2>2
<1>3. CASE line \in 0 .. length - 1
  <2>1. /\ c.at = {line}
        /\ c.pre = {n \in 0 .. line - 1 : n >= line - CONTEXT_WINDOW}
        /\ c.post = {n \in line + 1 .. length - 1 : n <= line + CONTEXT_WINDOW}
    BY <1>1, <1>3 DEF source_context
  <2>2. \A n \in wanted : n \in c.pre \/ n \in c.at \/ n \in c.post
    <3>1. ASSUME NEW n \in wanted  PROVE n \in c.pre \/ n \in c.at \/ n \in c.post
      <4>1. n \in Nat /\ n <= length - 1 /\ n - line <= CONTEXT_WINDOW /\ n - line >= -CONTEXT_WINDOW
        BY <1>0
      <4>2. CASE n < line  BY <1>0, <2>1, <4>1, <4>2
      <4>3. CASE n = line  BY <2>1, <4>3
      <4>4. CASE n > line  BY <1>0, <2>1, <4>1, <4>4
      <4>5. QED  BY <4>1, <4>2, <4>3, <4>4
    <3>2. QED  BY <3>1
  <2>3. \A n \in c.pre : n \in wanted  BY <1>0, <1>3, <2>1
  <2>4. \A n \in c.at : n \in wanted  BY <1>0, <1>3, <2>1
  <2>5. \A n \in c.post : n \in wanted  BY <1>0, <1>3, <2>1
  <2> HIDE DEF wanted
  <2>6. c.pre \cup c.at \cup c.post = wanted  BY <2>2, <2>3, <2>4, <2>5
  <2>7. QED  BY <1>1, <2>6 DEF wanted
<1>4. QED  BY <1>2, <1>3

\* The place that a frame with a line and a column is reported at.
Place(gen_line, gen_col) ==
    IF FromNowhere(gen_line, gen_col) THEN BoundBefore(gen_line, gen_col)
    ELSE Origin(gen_line, gen_col)

LEMMA FrameNamed ==
    ASSUME NEW frame \in MinifiedFrames, frame.lineno \in Nat, frame.colno \in Nat,
           NEW lines, NEW gen_col,
           gen_col = IF frame.colno > 0 THEN frame.colno - 1 ELSE 0,
           lookup(lines, frame.lineno - 1, gen_col) = Place(frame.lineno - 1, gen_col),
           IsOrigin(Place(frame.lineno - 1, gen_col))
    PROVE  FrameIsOriginal(frame, _symbolicate_frame(frame, lines))
<1>1. gen_col = IF frame.colno = 0 THEN 0 ELSE frame.colno - 1  OBVIOUS
<1>n. frame.lineno # NoNumber /\ frame.colno # NoNumber  BY DEF NoNumber
<1>2. PICK place : place = Place(frame.lineno - 1, gen_col)  OBVIOUS
<1>3. PICK out : out = _symbolicate_frame(frame, lines)  OBVIOUS
<1>f. FrameIsOriginal(frame, out) <=> ReportedAt(frame, out, place)
  BY <1>1, <1>n, <1>2 DEF FrameIsOriginal, Place
<1>4. CASE place = Unmapped \/ place.src \notin DOMAIN Sources
  <2>1. out = frame  BY <1>2, <1>3, <1>4, ZenonT(40) DEF _symbolicate_frame
  <2>2. QED  BY <1>3, <1>f, <1>4, <2>1 DEF ReportedAt
<1>5. CASE ~ (place = Unmapped \/ place.src \notin DOMAIN Sources)
  <2>1. PICK source : source = Sources[place.src]  OBVIOUS
  <2>2. source.length \in Nat /\ place.line \in Nat /\ place.col \in Nat
    BY <1>2, <1>5, <2>1, DecodeAssumption DEF IsOrigin
  <2>3. PICK context : context = source_context(source.length, place.line)  OBVIOUS
  <2>4. PICK path : path = IF source.path = "" THEN frame.filename ELSE source.path  OBVIOUS
  <2>5. PICK name : name = IF place.name \in DOMAIN SymbolNames THEN SymbolNames[place.name]
                           ELSE ""
    OBVIOUS
  <2>6. out = [raw |-> <<frame.filename, frame.lineno>>,
               filename |-> path,
               lineno |-> place.line + 1,
               colno |-> place.col + 1,
               function |-> IF name = "" THEN frame.function ELSE name,
               in_app |-> frame.in_app /\ path \notin Vendored,
               context |-> IF context.at = {} THEN frame.context ELSE context]
    BY <1>n, <1>2, <1>3, <1>5, <2>1, <2>3, <2>4, <2>5, ZenonT(60) DEF _symbolicate_frame
  <2>7. /\ out.raw = <<frame.filename, frame.lineno>> /\ out.filename = path
        /\ out.lineno = place.line + 1 /\ out.colno = place.col + 1
        /\ out.function = IF name = "" THEN frame.function ELSE name
        /\ out.in_app <=> frame.in_app /\ path \notin Vendored
        /\ out.context = IF context.at = {} THEN frame.context ELSE context
    BY <2>6
  <2>8. out.lineno - 1 = place.line /\ out.colno - 1 = place.col
    <3>1. out.lineno = place.line + 1 /\ out.colno = place.col + 1  BY <2>7, Zenon
    <3>2. QED  BY <2>2, <3>1
  <2>9. CASE place.line < source.length
    <3>1. context.at # {}  BY <2>2, <2>3, <2>9 DEF source_context
    <3>2. out.context = context  BY <2>7, <3>1
    <3>3. out.context.pre \cup out.context.at \cup out.context.post
            = {n \in 0 .. source.length - 1 : n - place.line \in -CONTEXT_WINDOW .. CONTEXT_WINDOW}
      BY <2>2, <2>3, <2>9, <3>2, ContextShown
    <3>4. QED  BY <1>3, <1>f, <1>5, <2>1, <2>4, <2>5, <2>7, <2>8, <2>9, <3>3 DEF ReportedAt
  <2>10. CASE ~ (place.line < source.length)
    <3>1. context.at = {}  BY <2>2, <2>3, <2>10 DEF source_context
    <3>2. out.context = frame.context  BY <2>7, <3>1
    <3>3. QED  BY <1>3, <1>f, <1>5, <2>1, <2>4, <2>5, <2>7, <2>8, <2>10, <3>2 DEF ReportedAt
  <2>11. QED  BY <2>9, <2>10
<1>6. QED  BY <1>4, <1>5

LEMMA KeptIsRead == ProgramKept => MapsAreRead
<1> SUFFICES ASSUME ProgramKept  PROVE MapsAreRead  OBVIOUS
<1>1. PICK lines : lines = parse_source_map(Encode).lines  OBVIOUS
<1>2. /\ parse_source_map(Encode).valid /\ SpoiltIsRejected
      /\ lines = [l \in DOMAIN program |-> ByColumn(ParseLine(FileRun(File)[l - 1], File[l]).row)]
  BY <1>1, MapParsed
<1>3. ASSUME NEW l \in DOMAIN program  PROVE RowIsRead(lines[l], l)
  <2>1. PICK row : row = ParseLine(FileRun(File)[l - 1], File[l]).row  OBVIOUS
  <2>2. RowIsRead(row, l)  BY <2>1, FileParsed
  <2>3. PICK idx : Picks(idx, row, l, Len(program[l]))  BY <2>2 DEF RowIsRead
  <2>4. ByColumn(row) = row  BY <2>3, RowSorted
  <2>5. lines[l] = ByColumn(row)  BY <1>2, <2>1
  <2>6. QED  BY <2>2, <2>4, <2>5
<1>4. DOMAIN lines = DOMAIN program  BY <1>2
<1>5. ASSUME NEW frame \in MinifiedFrames
      PROVE  FrameIsOriginal(frame, _symbolicate_frame(frame, lines))
  <2>1. CASE NoNumber \in {frame.lineno, frame.colno}
    BY <2>1 DEF FrameIsOriginal, _symbolicate_frame
  <2>2. CASE NoNumber \notin {frame.lineno, frame.colno}
    <3>1. frame.lineno \in Nat /\ frame.colno \in Nat  BY <2>2, DecodeAssumption
    <3>2. PICK gen_col \in Nat : gen_col = IF frame.colno > 0 THEN frame.colno - 1 ELSE 0
      BY <3>1
    <3>3. /\ lookup(lines, frame.lineno - 1, gen_col) = Place(frame.lineno - 1, gen_col)
          /\ IsOrigin(Place(frame.lineno - 1, gen_col))
      <4>1. CASE frame.lineno \in DOMAIN program
        <5>1. RowIsRead(lines[frame.lineno], frame.lineno)  BY <1>3, <4>1
        <5>2. Place(frame.lineno - 1, gen_col) = BoundBefore(frame.lineno - 1, gen_col)
          BY <3>2, <4>1, OriginIsBound DEF Place
        <5>3. QED  BY <1>4, <3>2, <4>1, <5>1, <5>2, LookupIs
      <4>2. CASE frame.lineno \notin DOMAIN program
        <5>1. /\ lookup(lines, frame.lineno - 1, gen_col) = Unmapped
              /\ Place(frame.lineno - 1, gen_col) = Unmapped
          BY <1>4, <3>1, <3>2, <4>2, LookupOutside DEF Place
        <5>2. QED  BY <5>1 DEF IsOrigin
      <4>3. QED  BY <4>1, <4>2
    <3>4. QED  BY <3>1, <3>2, <3>3, FrameNamed
  <2>3. QED  BY <2>1, <2>2
<1>6. QED  BY <1>1, <1>2, <1>5 DEF MapsAreRead

LEMMA ProgramGrows ==
    ASSUME ProgramKept, MapNext
    PROVE  ProgramKept'
<1>1. PICK size \in Nat \ {0} : /\ size = Len(program) /\ DOMAIN program = 1 .. size
                               /\ program \in Seq(Seq(Segments))
  BY DEF ProgramKept
<1>2. CASE NewLine
  <2>1. PICK p : p = program'  OBVIOUS
  <2>2. <<>> \in Seq(Segments)  OBVIOUS
  <2>3. /\ p \in Seq(Seq(Segments)) /\ Len(p) = size + 1 /\ DOMAIN p = 1 .. size + 1
        /\ p[size + 1] = <<>> /\ \A l \in 1 .. size : p[l] = program[l]
    BY <1>1, <1>2, <2>1, <2>2 DEF NewLine
  <2>4. ASSUME NEW l \in DOMAIN p, NEW m \in DOMAIN p[l], NEW n \in DOMAIN p[l], m <= n
        PROVE  p[l][m].gen <= p[l][n].gen
    <3>1. CASE l \in 1 .. size
      <4>1. p[l] = program[l] /\ l \in DOMAIN program  BY <1>1, <2>3, <3>1
      <4>2. QED  BY <2>4, <4>1 DEF ProgramKept
    <3>2. CASE l = size + 1  BY <2>3, <3>2
    <3>3. QED  BY <2>3, <3>1, <3>2
  <2>5. QED  BY <2>1, <2>3, <2>4 DEF ProgramKept
<1>3. ASSUME NEW seg \in Segments, NewSegment(seg)  PROVE ProgramKept'
  <2>1. PICK last : last = program[size]  OBVIOUS
  <2>2. size \in DOMAIN program /\ last \in Seq(Segments)  BY <1>1, <2>1
  <2>3. PICK k \in Nat : k = Len(last) /\ DOMAIN last = 1 .. k  BY <2>2
  <2>4. k > 0 => last[k].gen <= seg.gen  BY <1>1, <1>3, <2>1, <2>3 DEF NewSegment
  <2>5. PICK row : row = Append(last, seg)  OBVIOUS
  <2>6. PICK p : p = program'  OBVIOUS
  <2>7. p = [program EXCEPT ![size] = row]  BY <1>1, <1>3, <2>1, <2>5, <2>6 DEF NewSegment
  <2>8. /\ row \in Seq(Segments) /\ Len(row) = k + 1 /\ DOMAIN row = 1 .. k + 1
        /\ row[k + 1] = seg /\ \A n \in 1 .. k : row[n] = last[n]
    BY <2>2, <2>3, <2>5
  <2>9. /\ p \in Seq(Seq(Segments)) /\ Len(p) = size /\ DOMAIN p = 1 .. size
        /\ p[size] = row /\ \A l \in 1 .. size : l # size => p[l] = program[l]
    BY <1>1, <2>2, <2>7, <2>8
  <2>10. ASSUME NEW l \in DOMAIN p, NEW m \in DOMAIN p[l], NEW n \in DOMAIN p[l], m <= n
         PROVE  p[l][m].gen <= p[l][n].gen
    <3>1. CASE l # size
      <4>1. p[l] = program[l] /\ l \in DOMAIN program  BY <1>1, <2>9, <3>1
      <4>2. QED  BY <2>10, <4>1 DEF ProgramKept
    <3>2. CASE l = size
      <4>1. m \in 1 .. k + 1 /\ n \in 1 .. k + 1  BY <2>8, <2>9, <3>2
      <4>2. \A i, j \in 1 .. k : i <= j => last[i].gen <= last[j].gen
        BY <2>1, <2>2, <2>3 DEF ProgramKept
      <4>3. \A i \in 1 .. k : last[i].gen \in Nat  BY <2>2, <2>3, SegmentIs
      <4>4. seg.gen \in Nat  BY SegmentIs
      <4>5. row[m].gen <= row[n].gen
        <5>1. CASE n \in 1 .. k
          <6>1. m \in 1 .. k  BY <2>10, <4>1, <5>1
          <6>2. QED  BY <2>8, <2>10, <4>2, <5>1, <6>1
        <5>2. CASE n = k + 1 /\ m \in 1 .. k
          <6>1. k \in 1 .. k /\ m <= k  BY <5>2
          <6>2. last[m].gen <= last[k].gen  BY <4>2, <5>2, <6>1
          <6>3. last[m].gen <= seg.gen  BY <2>4, <4>3, <4>4, <5>2, <6>1, <6>2
          <6>4. QED  BY <2>8, <5>2, <6>3
        <5>3. CASE n = k + 1 /\ m = k + 1  BY <2>8, <4>4, <5>3
        <5>4. QED  BY <4>1, <5>1, <5>2, <5>3
      <4>6. QED  BY <2>9, <3>2, <4>5
    <3>3. QED  BY <3>1, <3>2
  <2>11. QED  BY <1>1, <2>6, <2>9, <2>10 DEF ProgramKept
<1>4. QED  BY <1>2, <1>3 DEF MapNext

\* A source map is read back exactly as it was written, for any program a compiler may
\* write, of any number of lines, segments and sources and with columns, positions and
\* names of any size: parse_source_map accepts it, keeps every mapped segment at its place
\* (the deltas of four fields run on through the file, the column restarts on each line),
\* and _symbolicate_frame reports each frame at the file, line, column and name it was
\* compiled from, with the lines around it, or its own where the map has none, and leaves
\* alone a frame before the first segment of its line or without a line or column; code
\* from nowhere it reports where the code before it on the line was compiled from; a number cut short or a character that is no
\* digit, at the end of any segment, rejects the whole map.
THEOREM MapsAreReadHolds == MapSpec => []MapsAreRead
<1>1. MapInit => ProgramKept
  <2>1. SUFFICES ASSUME MapInit  PROVE ProgramKept  OBVIOUS
  <2>2. program = << <<>> >> /\ Len(program) = 1 /\ DOMAIN program = 1 .. 1 /\ program[1] = <<>>
    BY <2>1 DEF MapInit
  <2>3. program \in Seq(Seq(Segments))
    <3>1. <<>> \in Seq(Segments)  OBVIOUS
    <3>2. QED  BY <2>2, <3>1
  <2>4. QED  BY <2>2, <2>3 DEF ProgramKept
<1>2. ProgramKept /\ [MapNext]_program => ProgramKept'
  <2>1. CASE MapNext  BY <2>1, ProgramGrows
  <2>2. CASE UNCHANGED program  BY <2>2 DEF ProgramKept
  <2>3. QED  BY <2>1, <2>2
<1>3. QED  BY <1>1, <1>2, KeptIsRead, PTL DEF MapSpec
=============================================================================
