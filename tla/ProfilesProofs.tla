---------------------------- MODULE ProfilesProofs ----------------------------
(***************************************************************************)
(* Theorems about Profiles for any number of profiles, words and candidates *)
(* and any way they extend each other.                                      *)
(***************************************************************************)
EXTENDS Profiles, SequenceTheorems, FiniteSetTheorems, WellFoundedInduction, TLAPS

-------------------------------------------------------------------------------
(* Induction over the naturals, for a set instead of a predicate.           *)

LEMMA LeastNatural ==
    ASSUME NEW T, T \subseteq Nat, T # {}
    PROVE  \E n \in T : \A m \in T : n <= m
  <1> DEFINE R == OpToRel(<, Nat)
  <1>1. IsWellFoundedOn(R, Nat)
    BY NatLessThanWellFounded
  <1>2. \A m, n \in Nat : m < n => <<m, n>> \in R
    BY DEF OpToRel
  <1> HIDE DEF R
  <1>3. PICK n \in T : \A m \in T : ~(<<m, n>> \in R)
    BY <1>1, WFMin
  <1>4. \A m \in T : ~(m < n)
    BY <1>2, <1>3
  <1>5. \A m \in T : m \in Nat /\ n \in Nat
    OBVIOUS
  <1>6. \A m \in T : n <= m
    BY <1>4, <1>5
  <1> QED
    BY <1>6

LEMMA Induction ==
    ASSUME NEW S, 0 \in S, \A n \in Nat : n \in S => n + 1 \in S
    PROVE  \A n \in Nat : n \in S
  <1> DEFINE T == {n \in Nat : n \notin S}
  <1>1. CASE T = {}
    BY <1>1
  <1>2. CASE T # {}
    <2>1. PICK n \in T : \A m \in T : n <= m
      BY <1>2, LeastNatural
    <2>2. n \in Nat \ {0} /\ n - 1 \in Nat /\ n - 1 \notin T
      BY <2>1
    <2>3. n - 1 \in S /\ (n - 1) + 1 = n
      BY <2>2
    <2> QED
      BY <2>1, <2>2, <2>3
  <1> QED
    BY <1>1, <1>2

(* A set of naturals that holds 0 ends before m, or holds m.                *)
LEMMA LastOfRun ==
    ASSUME NEW m \in Nat, NEW S, 0 \in S
    PROVE  \E n \in 0..m : n \in S /\ (n < m => n + 1 \notin S)
  <1> SUFFICES ASSUME \A n \in 0..m : n \in S => n < m /\ n + 1 \in S
               PROVE  FALSE
    OBVIOUS
  <1> DEFINE U == {n \in Nat : n \in 0..m => n \in S}
  <1>1. 0 \in U
    OBVIOUS
  <1>2. ASSUME NEW n \in Nat, n \in U PROVE n + 1 \in U
    BY <1>2
  <1> HIDE DEF U
  <1>3. m \in U
    BY <1>1, <1>2, Induction
  <1> QED
    BY <1>3 DEF U

-------------------------------------------------------------------------------
(* Types.                                                                   *)

(* resolve_profile knows the file, and ends before the next one begins.     *)
LoaderOK ==
    outcome = "loading" =>
      /\ todo # None => file # Absent /\ todo # <<>>
      /\ todo = None => call = None /\ chain = <<>> /\ resolved = None
      /\ resolved # None => call = None

LEMMA AloneType ==
    ASSUME file \in File, NEW p \in 0..N
    PROVE  Alone(p) \in Resolved
  <1>1. file.profiles[p] \in Profile
    BY DEF File
  <1> DEFINE profile == file.profiles[p]
  <1>2. profile.labels \in Labels
    BY <1>1 DEF Profile
  <1>3. /\ [c \in Candidates |-> IF c \in profile.prefixes THEN p ELSE None]
             \in [Candidates -> 0..N \cup {None}]
        /\ [w \in Words |-> IF w \in profile.significant THEN 1 ELSE 0] \in [Words -> Nat]
        /\ [w \in Words |-> IF w \in profile.ignored THEN 1 ELSE 0] \in [Words -> Nat]
    OBVIOUS
  <1> QED
    BY <1>2, <1>3 DEF Alone, Resolved

LEMMA MergedType ==
    ASSUME NEW r \in Resolved, NEW s \in Resolved
    PROVE  Merged(r, s) \in Resolved
  <1> DEFINE labels == [l \in DOMAIN NoLabels |->
                          IF s.labels[l] # None THEN s.labels[l] ELSE r.labels[l]]
             prefixes == [c \in Candidates |->
                            IF s.prefixes[c] # None THEN s.prefixes[c] ELSE r.prefixes[c]]
             significant == [w \in Words |-> r.significant[w] + s.significant[w]]
             ignored == [w \in Words |-> r.ignored[w] + s.ignored[w]]
  <1>1. labels \in Labels
    <2>1. DOMAIN NoLabels = {"maxLength", "maxWidth", "format", "separator"}
      BY DEF NoLabels
    <2>2. r.labels \in Labels /\ s.labels \in Labels
      BY DEF Resolved
    <2>3. labels = [maxLength |-> IF s.labels.maxLength # None THEN s.labels.maxLength
                                  ELSE r.labels.maxLength,
                    maxWidth  |-> IF s.labels.maxWidth # None THEN s.labels.maxWidth
                                  ELSE r.labels.maxWidth,
                    format    |-> IF s.labels.format # None THEN s.labels.format
                                  ELSE r.labels.format,
                    separator |-> IF s.labels.separator # None THEN s.labels.separator
                                  ELSE r.labels.separator]
      BY <2>1
    <2> HIDE DEF labels
    <2> QED
      BY <2>2, <2>3 DEF Labels
  <1>2. /\ prefixes \in [Candidates -> 0..N \cup {None}]
        /\ significant \in [Words -> Nat] /\ ignored \in [Words -> Nat]
    BY DEF Resolved
  <1>3. Merged(r, s) = [labels |-> labels, prefixes |-> prefixes, significant |-> significant,
                        ignored |-> ignored]
    BY DEF Merged
  <1> HIDE DEF labels, prefixes, significant, ignored
  <1> QED
    BY <1>1, <1>2, <1>3 DEF Resolved

LEMMA NothingType == Nothing \in Resolved
  BY DEF Nothing, NoLabels, Resolved, Labels

LEMMA SelectedType ==
    ASSUME file \in File, SelectorsValid(file.selectors)
    PROVE  SelectedProfile \in 0..N
  <1> DEFINE I == {j \in 1..Len(file.selectors) : file.selectors[j].session = Session}
             i == SelectInSeq(file.selectors, LAMBDA s : s.session = Session)
  <1>1. file.selectors \in Seq(Selector) /\ N \in Nat
    BY ProfilesConstants DEF File
  <1>2. i = IF I # {} THEN Min(I) ELSE 0
    BY DEF SelectInSeq
  <1>3. SelectedProfile = IF i = 0 THEN Global ELSE file.selectors[i].profile
    BY DEF SelectedProfile
  <1>4. CASE I = {}
    BY <1>1, <1>2, <1>3, <1>4 DEF Global
  <1>5. CASE I # {}
    <2>1. Min(I) \in I
      <3>1. I \subseteq Nat
        BY <1>1
      <3> HIDE DEF I
      <3>2. \E n \in I : \A m \in I : n <= m
        BY <1>5, <3>1, LeastNatural
      <3> QED
        BY <3>2 DEF Min
    <2>2. i \in 1..Len(file.selectors)
      BY <1>2, <1>5, <2>1
    <2> HIDE DEF i
    <2>3. file.selectors[i] \in Selector /\ file.selectors[i].profile # Unknown
      BY <1>1, <2>2, ElementOfSeq DEF SelectorsValid
    <2>4. file.selectors[i].profile \in Names
      BY <2>3 DEF Selector
    <2>5. SelectedProfile = file.selectors[i].profile
      BY <1>1, <1>3, <2>2 DEF i
    <2> QED
      BY <1>1, <2>4, <2>5 DEF Names
  <1> QED
    BY <1>4, <1>5

LEMMA TodoType ==
    ASSUME file \in File, SelectorsValid(file.selectors)
    PROVE  /\ Append([p \in Names |-> p], SelectedProfile) \in Seq(0..N)
           /\ Append([p \in Names |-> p], SelectedProfile) # <<>>
  <1> DEFINE all == [p \in Names |-> p]
  <1>1. all \in Seq(0..N)
    <2>1. N \in Nat
      BY ProfilesConstants
    <2>2. all \in [1..N -> 0..N]
      BY <2>1 DEF Names
    <2> QED
      BY <2>1, <2>2, SeqDef
  <1>2. SelectedProfile \in 0..N
    BY SelectedType
  <1> HIDE DEF all
  <1>3. Append(all, SelectedProfile) \in Seq(0..N) /\ Append(all, SelectedProfile) # <<>>
    BY <1>1, <1>2, AppendProperties
  <1> QED
    BY <1>3 DEF all

(* No profile joins the chain twice, and the chain shortens from its end.   *)
LEMMA LongerChain ==
    ASSUME NEW s \in Seq(0..N), IsInjective(s), NEW p \in 0..N, ~Contains(s, p)
    PROVE  Append(s, p) \in Seq(0..N) /\ IsInjective(Append(s, p))
  <1> DEFINE t == Append(s, p)
  <1>1. /\ Len(s) \in Nat /\ DOMAIN s = 1..Len(s)
        /\ t \in Seq(0..N) /\ Len(t) = Len(s) + 1 /\ DOMAIN t = 1..(Len(s) + 1)
        /\ \A i \in 1..Len(s) : t[i] = s[i]
        /\ t[Len(s) + 1] = p
    BY LenProperties, AppendProperties
  <1>2. \A i \in 1..Len(s) : s[i] # p
    BY DEF Contains
  <1> HIDE DEF t
  <1>3. ASSUME NEW i \in 1..(Len(s) + 1), NEW j \in 1..(Len(s) + 1), t[i] = t[j]
        PROVE  i = j
    <2>1. CASE i \in 1..Len(s) /\ j \in 1..Len(s)
      BY <1>1, <1>3, <2>1 DEF IsInjective
    <2>2. CASE i = Len(s) + 1 \/ j = Len(s) + 1
      BY <1>1, <1>2, <1>3, <2>2
    <2> QED
      BY <1>1, <2>1, <2>2
  <1> QED
    BY <1>1, <1>3 DEF IsInjective, t

LEMMA ShorterChain ==
    ASSUME NEW s \in Seq(0..N), IsInjective(s), s # <<>>
    PROVE  /\ Front(s) \in Seq(0..N) /\ IsInjective(Front(s)) /\ Last(s) \in 0..N
           /\ Len(Front(s)) = Len(s) - 1 /\ \A i \in 1..(Len(s) - 1) : Front(s)[i] = s[i]
  <1> DEFINE S == 0..N
             t == SubSeq(s, 1, Len(s) - 1)
  <1>1. s \in Seq(S) /\ s # <<>>
    OBVIOUS
  <1> HIDE DEF S
  <1>2. Len(s) \in Nat \ {0} /\ s \in [1..Len(s) -> S]
    BY <1>1, EmptySeq, LenProperties
  <1>3. PICK n \in Nat : Len(s) = n + 1
    <2>1. Len(s) - 1 \in Nat /\ Len(s) = (Len(s) - 1) + 1
      BY <1>2
    <2> QED
      BY <2>1
  <1>4. \A i \in 1..n : i \in 1..(n + 1) /\ 1 + i - 1 = i
    OBVIOUS
  <1>5. \A i \in 1..n : s[i] \in S
    BY <1>2, <1>3, <1>4
  <1>6. Len(s) - 1 = n /\ t = SubSeq(s, 1, n)
    BY <1>3
  <1>7. /\ SubSeq(s, 1, n) \in Seq(S)
        /\ Len(SubSeq(s, 1, n)) = IF 1 <= n THEN n - 1 + 1 ELSE 0
        /\ \A i \in 1..(n - 1 + 1) : SubSeq(s, 1, n)[i] = s[1 + i - 1]
    BY <1>5, SubSeqProperties
  <1> HIDE DEF t
  <1>8. t \in Seq(S) /\ Len(t) = n /\ \A i \in 1..n : t[i] = s[i]
    BY <1>4, <1>6, <1>7
  <1>9. DOMAIN t = 1..n
    BY <1>8, LenProperties
  <1>10. IsInjective(t)
    BY <1>2, <1>3, <1>4, <1>8, <1>9 DEF IsInjective
  <1>11. s[Len(s)] \in S
    BY <1>2
  <1> QED
    BY <1>6, <1>8, <1>10, <1>11 DEF Front, Last, t, S

LEMMA LoaderStep ==
    ASSUME ProfilesTypeOK, LoaderOK, LoadStep
    PROVE  /\ ProfilesTypeOK' /\ LoaderOK'
           /\ outcome' = "valid" =>
                /\ resolved' \in Resolved
                /\ resolved'.labels.maxLength # None => resolved'.labels.maxLength \in 1..MaxMaxLength
  <1>1. /\ file = Absent \/ file \in File
        /\ todo = None \/ todo \in Seq(0..N)
        /\ call \in 0..N \cup {None}
        /\ chain \in Seq(0..N) /\ IsInjective(chain)
        /\ resolved = None \/ resolved \in Resolved
    BY DEF ProfilesTypeOK
  <1>2. /\ outcome = "loading"
        /\ todo # None => file # Absent /\ todo # <<>>
        /\ todo = None => call = None /\ chain = <<>> /\ resolved = None
        /\ resolved # None => call = None
    BY DEF LoaderOK, LoadStep, ReadFile, Resolve, Descend, Return, Compile
  <1>3. ASSUME Reject
        PROVE  ProfilesTypeOK' /\ LoaderOK' /\ outcome' # "valid"
    BY <1>3 DEF Reject, ProfilesTypeOK, LoaderOK
  <1>4. ASSUME ReadFile, file = Absent, outcome' = "valid", resolved' = Nothing,
               UNCHANGED <<file, todo, call, chain>>
        PROVE  /\ ProfilesTypeOK' /\ LoaderOK' /\ resolved' \in Resolved
               /\ resolved'.labels.maxLength = None
    BY <1>1, <1>4, NothingType DEF ProfilesTypeOK, LoaderOK, Nothing, NoLabels
  <1>5. ASSUME file # Absent, SelectorsValid(file.selectors), todo = None,
               todo' = Append([p \in Names |-> p], SelectedProfile),
               UNCHANGED <<file, call, chain, resolved, outcome>>
        PROVE  ProfilesTypeOK' /\ LoaderOK' /\ outcome' # "valid"
    <2>1. todo' \in Seq(0..N) /\ todo' # <<>>
      BY <1>1, <1>5, TodoType
    <2> QED
      BY <1>1, <1>2, <1>5, <2>1 DEF ProfilesTypeOK, LoaderOK
  <1>6. ASSUME Resolve
        PROVE  ProfilesTypeOK' /\ LoaderOK' /\ outcome' # "valid"
    <2>1. todo \in Seq(0..N) /\ todo # <<>>
      BY <1>1, <1>2, <1>6 DEF Resolve
    <2>2. Head(todo) \in 0..N
      BY <2>1, HeadTailProperties
    <2> QED
      BY <1>1, <1>2, <1>6, <2>2 DEF Resolve, ProfilesTypeOK, LoaderOK
  <1>7. ASSUME call # None, ~InChain(call), file.profiles[call].extends \in Names,
               chain' = Append(chain, call), call' = file.profiles[call].extends,
               UNCHANGED <<file, todo, resolved, outcome>>
        PROVE  ProfilesTypeOK' /\ LoaderOK' /\ outcome' # "valid"
    <2>1. chain' \in Seq(0..N) /\ IsInjective(chain')
      BY <1>1, <1>7, LongerChain DEF InChain
    <2>2. call' \in 0..N
      BY <1>7, ProfilesConstants DEF Names
    <2> QED
      BY <1>1, <1>2, <1>7, <2>1, <2>2 DEF ProfilesTypeOK, LoaderOK
  <1>8. ASSUME call # None, resolved' = Alone(call), call' = None,
               UNCHANGED <<file, todo, chain, outcome>>
        PROVE  ProfilesTypeOK' /\ LoaderOK' /\ outcome' # "valid"
    <2>1. file \in File /\ call \in 0..N
      BY <1>1, <1>2, <1>8
    <2>2. resolved' \in Resolved
      BY <1>8, <2>1, AloneType
    <2> QED
      BY <1>1, <1>2, <1>8, <2>2 DEF ProfilesTypeOK, LoaderOK
  <1>9. ASSUME resolved # None, chain # <<>>, resolved' = Merged(resolved, Alone(Last(chain))),
               chain' = Front(chain), UNCHANGED <<file, todo, call, outcome>>
        PROVE  ProfilesTypeOK' /\ LoaderOK' /\ outcome' # "valid"
    <2>1. chain' \in Seq(0..N) /\ IsInjective(chain') /\ Last(chain) \in 0..N
      BY <1>1, <1>9, ShorterChain
    <2>2. file \in File /\ resolved \in Resolved
      BY <1>1, <1>2, <1>9
    <2>3. resolved' \in Resolved
      BY <1>9, <2>1, <2>2, AloneType, MergedType
    <2> QED
      BY <1>1, <1>2, <1>9, <2>1, <2>3 DEF ProfilesTypeOK, LoaderOK
  <1>10. ASSUME Compile, Compiles(resolved), todo' = Tail(todo),
                IF Tail(todo) = <<>> THEN outcome' = "valid" /\ UNCHANGED resolved
                ELSE resolved' = None /\ UNCHANGED outcome,
                UNCHANGED <<file, call, chain>>
         PROVE  /\ ProfilesTypeOK' /\ LoaderOK'
                /\ outcome' = "valid" =>
                     /\ resolved' \in Resolved
                     /\ resolved'.labels.maxLength # None
                          => resolved'.labels.maxLength \in 1..MaxMaxLength
    <2>1. resolved # None /\ chain = <<>> /\ call = None
      BY <1>2, <1>10 DEF Compile
    <2>2. todo \in Seq(0..N) /\ todo # <<>> /\ file # Absent
      BY <1>1, <1>2, <2>1
    <2>3. Tail(todo) \in Seq(0..N)
      BY <2>2, HeadTailProperties
    <2>4. CASE Tail(todo) = <<>>
      BY <1>1, <1>2, <1>10, <2>1, <2>2, <2>3, <2>4 DEF ProfilesTypeOK, LoaderOK, Compiles
    <2>5. CASE Tail(todo) # <<>>
      BY <1>1, <1>2, <1>10, <2>1, <2>2, <2>3, <2>5 DEF ProfilesTypeOK, LoaderOK
    <2> QED
      BY <2>4, <2>5
  <1>11. CASE ReadFile
    BY <1>3, <1>4, <1>5, <1>11 DEF ReadFile
  <1>12. CASE Descend
    BY <1>3, <1>7, <1>8, <1>12 DEF Descend
  <1>13. CASE Return
    BY <1>3, <1>9, <1>13 DEF Return
  <1>14. CASE Compile
    BY <1>3, <1>10, <1>14 DEF Compile
  <1> QED
    BY <1>6, <1>11, <1>12, <1>13, <1>14 DEF LoadStep

-------------------------------------------------------------------------------
(* The loader is right: its inductive invariant.                            *)

Fine(p) == Inherits(p) /\ Disjoint(p) /\ Consistent(p)

(* The ancestors of p from the k-th on, and those of them that list a word.  *)
From(p, k) == {i \in Line(p) : i >= k}
Significant(p, k, w) == {i \in From(p, k) : w \in Elder(p, i).significant}
Ignored(p, k, w)     == {i \in From(p, k) : w \in Elder(p, i).ignored}

(* As far as a policy can tell, n elements.                                 *)
Counts(n, S) == (n > 0 <=> S # {}) /\ (n <= 1 <=> \A i, j \in S : i = j)

(* That r is what the ancestors of p from the k-th on say.                   *)
LabelsFrom(p, k, r) ==
    \A s \in DOMAIN NoLabels :
      \/ r.labels[s] = None /\ \A i \in From(p, k) : Elder(p, i).labels[s] = None
      \/ \E i \in From(p, k) :
           /\ r.labels[s] # None /\ r.labels[s] = Elder(p, i).labels[s]
           /\ \A j \in From(p, k) : Elder(p, j).labels[s] # None => i <= j
PrefixesFrom(p, k, r) ==
    \A c \in Candidates :
      \/ r.prefixes[c] = None /\ \A i \in From(p, k) : c \notin Elder(p, i).prefixes
      \/ \E i \in From(p, k) :
           /\ r.prefixes[c] = Ancestor(p)[i] /\ c \in Elder(p, i).prefixes
           /\ \A j \in From(p, k) : c \in Elder(p, j).prefixes => j = i
ListsFrom(p, k, r) ==
    \A w \in Words : /\ Counts(r.significant[w], Significant(p, k, w))
                     /\ Counts(r.ignored[w], Ignored(p, k, w))
Gathered(p, k, r) == LabelsFrom(p, k, r) /\ PrefixesFrom(p, k, r) /\ ListsFrom(p, k, r)

(* resolve_profile on its way up from p, and back.                          *)
Climbs(p) ==
    /\ \A i \in 1..Len(chain) : chain[i] \in Names /\ chain[i] = Ancestor(p)[i - 1]
    /\ call # None => call = Ancestor(p)[Len(chain)]
    /\ resolved # None => Inherits(p) /\ Gathered(p, Len(chain), resolved)

(* The profiles that are not left have been found right.                    *)
Remaining ==
    /\ SelectorsValid(file.selectors)
    /\ todo[Len(todo)] = SelectedProfile
    /\ \A i \in 1..Len(todo) : todo[i] \in Names \cup {SelectedProfile}
    /\ \A p \in Names \cup {SelectedProfile} : Fine(p) \/ \E i \in 1..Len(todo) : todo[i] = p

JudgedOK ==
    /\ outcome = "loading" /\ todo # None =>
         Remaining /\ \A p \in 0..N : p = todo[1] => Climbs(p)
    /\ outcome = "valid" => Sound
    /\ outcome = "error" => ~Sound
    /\ outcome = "valid" /\ file # Absent => \A p \in 0..N : p = Selected => Gathered(p, 0, resolved)

-------------------------------------------------------------------------------
(* Ancestors: the equation that defines them has a solution.                *)

Parent(f, x) == IF x \in 0..N THEN f.profiles[x].extends ELSE None

(* That g holds the first n ancestors of p.                                 *)
ClimbsTo(g, f, p, n) == g = [i \in 0..n |-> IF i = 0 THEN p ELSE Parent(f, g[i - 1])]

AncestorIn(f, p) == CHOOSE g : ClimbsTo(g, f, p, N)

LEMMA AncestorIsIn == \A p : Ancestor(p) = AncestorIn(file, p)
  BY DEF Ancestor, AncestorIn, ClimbsTo, Parent

LEMMA AncestorsExist ==
    ASSUME NEW f, NEW p, NEW n \in Nat
    PROVE  \E g : ClimbsTo(g, f, p, n)
  <1> DEFINE S == {k \in Nat : \E g : ClimbsTo(g, f, p, k)}
  <1>1. 0 \in S
    <2> DEFINE g == [i \in 0..0 |-> p]
    <2>1. \A i \in 0..0 : i = 0
      OBVIOUS
    <2>2. ClimbsTo(g, f, p, 0)
      BY <2>1 DEF ClimbsTo
    <2> HIDE DEF g
    <2> QED
      BY <2>2
  <1>2. ASSUME NEW k \in Nat, k \in S PROVE k + 1 \in S
    <2>1. PICK g : ClimbsTo(g, f, p, k)
      BY <1>2
    <2> DEFINE h == [i \in 0..(k + 1) |-> IF i <= k THEN g[i] ELSE Parent(f, g[k])]
               rhs == [i \in 0..(k + 1) |-> IF i = 0 THEN p ELSE Parent(f, h[i - 1])]
    <2>2. ASSUME NEW i \in 0..(k + 1) PROVE h[i] = IF i = 0 THEN p ELSE Parent(f, h[i - 1])
      <3>1. CASE i \in 0..k
        <4>1. g[i] = IF i = 0 THEN p ELSE Parent(f, g[i - 1])
          BY <2>1, <3>1 DEF ClimbsTo
        <4>2. h[i] = g[i] /\ (i # 0 => h[i - 1] = g[i - 1])
          BY <3>1
        <4> HIDE DEF h
        <4> QED
          BY <4>1, <4>2
      <3>2. CASE i = k + 1
        <4>1. i # 0 /\ i - 1 = k /\ h[i] = Parent(f, g[k]) /\ h[k] = g[k]
          BY <3>2
        <4> HIDE DEF h
        <4> QED
          BY <4>1
      <3> QED
        BY <3>1, <3>2
    <2>3. h = [i \in 0..(k + 1) |-> h[i]]
      OBVIOUS
    <2> HIDE DEF h
    <2>4. h = rhs
      BY <2>2, <2>3
    <2>5. ClimbsTo(h, f, p, k + 1)
      BY <2>4 DEF ClimbsTo
    <2> QED
      BY <2>5
  <1> HIDE DEF S
  <1>3. n \in S
    BY <1>1, <1>2, Induction
  <1> QED
    BY <1>3 DEF S

LEMMA AncestorEquation ==
    ASSUME NEW p
    PROVE  /\ Ancestor(p)[0] = p
           /\ \A i \in 0..N : i # 0 => Ancestor(p)[i] = Parent(file, Ancestor(p)[i - 1])
  <1>1. N \in Nat /\ 0 \in 0..N
    BY ProfilesConstants
  <1>2. ClimbsTo(Ancestor(p), file, p, N)
    BY <1>1, AncestorsExist, AncestorIsIn DEF AncestorIn
  <1> DEFINE A == Ancestor(p)
  <1>3. A = [i \in 0..N |-> IF i = 0 THEN p ELSE Parent(file, A[i - 1])]
    BY <1>2 DEF ClimbsTo
  <1> HIDE DEF A
  <1>4. \A i \in 0..N : A[i] = IF i = 0 THEN p ELSE Parent(file, A[i - 1])
    BY <1>3
  <1> QED
    BY <1>1, <1>4 DEF A

(* Whoever is above p is a profile, unknown or nobody.                      *)
LEMMA ParentType ==
    ASSUME file \in File, NEW x
    PROVE  /\ Parent(file, x) \in Names \cup {Unknown, None}
           /\ Parent(file, x) \in Names => x \in Names
           /\ Parent(file, x) = Unknown => x \in Names
  <1>1. N \in Nat /\ Unknown # None
    BY ProfilesConstants
  <1>2. CASE x \in 0..N
    <2>1. file.profiles[x] \in Profile /\ file.profiles[Global].extends = None
      BY <1>2 DEF File
    <2>2. file.profiles[x].extends \in Names \cup {Unknown, None}
      BY <2>1 DEF Profile
    <2>3. file.profiles[x].extends # None => x \in Names
      BY <1>1, <1>2, <2>1 DEF Names, Global
    <2>4. None \notin Names
      BY ProfilesConstants DEF Names
    <2> QED
      BY <1>1, <1>2, <2>2, <2>3, <2>4 DEF Parent
  <1>3. CASE x \notin 0..N
    BY <1>1, <1>3, ProfilesConstants DEF Parent, Names
  <1> QED
    BY <1>2, <1>3

LEMMA AncestorType ==
    ASSUME file \in File, NEW p \in 0..N
    PROVE  \A i \in 0..N : /\ Ancestor(p)[i] \in 0..N \cup {Unknown, None}
                           /\ i # 0 => Ancestor(p)[i] \in Names \cup {Unknown, None}
  BY AncestorEquation, ParentType, ProfilesConstants DEF Names

(* A line has no gaps.                                                      *)
LEMMA LineGoesDown ==
    ASSUME file \in File, NEW p \in 0..N, NEW k \in 0..N, k \notin Line(p)
    PROVE  \A i \in 0..N : i >= k => /\ i \notin Line(p)
                                     /\ i > k => Ancestor(p)[i] = None
  <1> DEFINE S == {n \in Nat : \A i \in 0..N : i >= k /\ i <= n => i \notin Line(p)}
  <1>0. N \in Nat /\ k \in Nat /\ None \notin 0..N
    BY ProfilesConstants
  <1>a. ASSUME NEW i \in 0..N, i # 0, i - 1 \notin Line(p)
        PROVE  Ancestor(p)[i] = None /\ i \notin Line(p)
    <2>1. i - 1 \in 0..N
      BY <1>0, <1>a
    <2>2. Ancestor(p)[i - 1] \notin 0..N
      BY <1>a, <2>1 DEF Line
    <2>3. Ancestor(p)[i] = None
      BY <1>a, <2>2, AncestorEquation DEF Parent
    <2> QED
      BY <1>0, <2>3 DEF Line
  <1>1. 0 \in S
    BY <1>0
  <1>2. ASSUME NEW n \in Nat, n \in S PROVE n + 1 \in S
    <2> SUFFICES ASSUME NEW i \in 0..N, i >= k, i = n + 1 PROVE i \notin Line(p)
      BY <1>0, <1>2
    <2>1. CASE i = k
      BY <2>1
    <2>2. CASE i > k
      <3>1. i # 0 /\ i - 1 \in 0..N /\ i - 1 >= k /\ i - 1 <= n
        BY <1>0, <2>2
      <3>2. i - 1 \notin Line(p)
        BY <1>2, <3>1
      <3> QED
        BY <1>a, <3>1, <3>2
    <2> QED
      BY <1>0, <2>1, <2>2
  <1> HIDE DEF S
  <1>3. \A n \in Nat : n \in S
    BY <1>1, <1>2, Induction
  <1>4. ASSUME NEW i \in 0..N, i >= k PROVE i \notin Line(p)
    BY <1>0, <1>3, <1>4 DEF S
  <1>5. ASSUME NEW i \in 0..N, i > k PROVE Ancestor(p)[i] = None
    <2>1. i # 0 /\ i - 1 \in 0..N /\ i - 1 >= k
      BY <1>0, <1>5
    <2> QED
      BY <1>a, <1>4, <2>1
  <1> QED
    BY <1>0, <1>4, <1>5

-------------------------------------------------------------------------------
(* The chain of resolve_profile.                                            *)

LEMMA ShortChain ==
    ASSUME NEW s \in Seq(0..N), IsInjective(s), \A i \in 1..Len(s) : s[i] \in Names
    PROVE  Len(s) <= N
  <1>1. Len(s) \in Nat /\ N \in Nat /\ DOMAIN s = 1..Len(s) /\ s \in [1..Len(s) -> 0..N]
    BY ProfilesConstants, LenProperties
  <1>2. /\ IsFiniteSet(1..Len(s)) /\ Cardinality(1..Len(s)) = Len(s)
        /\ IsFiniteSet(1..N) /\ Cardinality(1..N) = N
    <2>1. ASSUME NEW n \in Nat PROVE IsFiniteSet(1..n) /\ Cardinality(1..n) = n
      <3>1. IsFiniteSet(1..n) /\ Cardinality(1..n) = IF 1 > n THEN 0 ELSE n - 1 + 1
        BY FS_Interval
      <3> QED
        BY <3>1
    <2> QED
      BY <1>1, <2>1
  <1>3. s \in [1..Len(s) -> 1..N]
    BY <1>1 DEF Names
  <1>4. CASE Len(s) > N
    <2>1. \E x, y \in 1..Len(s) : x # y /\ s[x] = s[y]
      BY <1>1, <1>2, <1>3, <1>4, FS_PigeonHole
    <2> QED
      BY <1>1, <2>1 DEF IsInjective
  <1> QED
    BY <1>1, <1>4

(* A chain that comes back to one of its profiles never ends.               *)
LEMMA CycleNeverEnds ==
    ASSUME file \in File, NEW p \in 0..N, NEW m \in 1..N, NEW k \in 0..(m - 1),
           Ancestor(p)[m] = Ancestor(p)[k], \A i \in 0..(m - 1) : Ancestor(p)[i] \in Names
    PROVE  ~Inherits(p)
  <1> DEFINE A == Ancestor(p)
             S == {n \in Nat : n <= N => \E j \in 0..(m - 1) : A[n] = A[j]}
  <1>1. N \in Nat /\ m \in Nat /\ k \in Nat /\ m <= N
    BY ProfilesConstants
  <1>2. \A i \in 0..N : i # 0 => A[i] = Parent(file, A[i - 1])
    BY AncestorEquation
  <1> HIDE DEF A
  <1>3. 0 \in S
    BY <1>1
  <1>4. ASSUME NEW n \in Nat, n \in S PROVE n + 1 \in S
    <2> SUFFICES ASSUME n + 1 <= N PROVE \E j \in 0..(m - 1) : A[n + 1] = A[j]
      OBVIOUS
    <2>1. PICK j \in 0..(m - 1) : A[n] = A[j]
      BY <1>1, <1>4
    <2>2. /\ j \in Nat /\ j + 1 \in 0..N /\ j + 1 # 0 /\ (j + 1) - 1 = j
          /\ n + 1 \in 0..N /\ n + 1 # 0 /\ (n + 1) - 1 = n
      BY <1>1
    <2>3. A[n + 1] = A[j + 1]
      BY <1>2, <2>1, <2>2
    <2>4. CASE j + 1 \in 0..(m - 1)
      BY <2>3, <2>4
    <2>5. CASE j + 1 = m
      BY <2>3, <2>5 DEF A
    <2> QED
      BY <1>1, <2>2, <2>4, <2>5
  <1> HIDE DEF S
  <1>5. N \in S
    BY <1>1, <1>3, <1>4, Induction
  <1>6. A[N] \in Names
    BY <1>1, <1>5 DEF S, A
  <1> QED
    BY <1>1, <1>6 DEF Inherits, A

(* A chain ends at its first profile that extends none.                     *)
LEMMA ChainEnds ==
    ASSUME file \in File, NEW p \in 0..N, NEW m \in 0..N,
           \A i \in 0..m : Ancestor(p)[i] \in 0..N, Parent(file, Ancestor(p)[m]) = None,
           m = N => Ancestor(p)[m] \notin Names
    PROVE  Inherits(p) /\ Line(p) = 0..m
  <1>1. N \in Nat /\ m \in Nat /\ m <= N /\ Unknown \notin 0..N /\ None \notin 0..N /\ Unknown # None
    BY ProfilesConstants
  <1>2. CASE m = N
    BY <1>1, <1>2 DEF Inherits, Line
  <1>3. CASE m # N
    <2>1. m + 1 \in 0..N /\ m + 1 # 0 /\ (m + 1) - 1 = m
      BY <1>1, <1>3
    <2>2. Ancestor(p)[m + 1] = None
      BY <2>1, AncestorEquation
    <2>3. m + 1 \notin Line(p)
      BY <1>1, <2>2 DEF Line
    <2>4. \A i \in 0..N : i >= m + 1 => i \notin Line(p) /\ Ancestor(p)[i] = None
      BY <2>1, <2>2, <2>3, LineGoesDown
    <2>5. \A i \in 0..N : i \in 0..m \/ i >= m + 1
      BY <1>1
    <2>6. Line(p) = 0..m
      BY <1>1, <2>4, <2>5 DEF Line
    <2>7. \A i \in 0..N : Ancestor(p)[i] # Unknown
      BY <1>1, <2>4, <2>5
    <2>8. Ancestor(p)[N] \notin Names
      BY <1>1, <1>3, <2>4 DEF Names
    <2> QED
      BY <2>6, <2>7, <2>8 DEF Inherits
  <1> QED
    BY <1>2, <1>3

-------------------------------------------------------------------------------
(* What is gathered on the way back.                                        *)

LEMMA ElderType ==
    ASSUME file \in File, NEW p \in 0..N, NEW i \in Line(p)
    PROVE  /\ i \in 0..N /\ Ancestor(p)[i] \in 0..N /\ Elder(p, i) \in Profile
           /\ Elder(p, i).labels \in Labels /\ Elder(p, i).prefixes \in SUBSET Candidates
           /\ Elder(p, i).significant \in SUBSET Words /\ Elder(p, i).ignored \in SUBSET Words
  <1>1. i \in 0..N /\ Ancestor(p)[i] \in 0..N
    BY DEF Line
  <1>2. Elder(p, i) \in Profile
    BY <1>1 DEF Elder, File
  <1> QED
    BY <1>1, <1>2 DEF Profile

LEMMA GatheredAlone ==
    ASSUME file \in File, NEW p \in 0..N, NEW m \in 0..N, From(p, m) = {m}
    PROVE  Gathered(p, m, Alone(Ancestor(p)[m]))
  <1> DEFINE r == Alone(Ancestor(p)[m])
             e == Elder(p, m)
  <1>1. m \in Line(p) /\ m \in Nat
    BY DEF From
  <1>2. Ancestor(p)[m] \in 0..N /\ None \notin 0..N
    BY <1>1, ElderType, ProfilesConstants
  <1>3. /\ r.labels = e.labels
        /\ r.prefixes = [c \in Candidates |-> IF c \in e.prefixes THEN Ancestor(p)[m] ELSE None]
        /\ r.significant = [w \in Words |-> IF w \in e.significant THEN 1 ELSE 0]
        /\ r.ignored = [w \in Words |-> IF w \in e.ignored THEN 1 ELSE 0]
    BY DEF Alone, Elder
  <1> HIDE DEF r, e
  <1>4. LabelsFrom(p, m, r)
    BY <1>1, <1>3 DEF LabelsFrom, e
  <1>5. PrefixesFrom(p, m, r)
    BY <1>2, <1>3 DEF PrefixesFrom, e
  <1>6. ASSUME NEW w \in Words PROVE Counts(r.significant[w], Significant(p, m, w))
    BY <1>3 DEF Counts, Significant, e
  <1>7. ASSUME NEW w \in Words PROVE Counts(r.ignored[w], Ignored(p, m, w))
    BY <1>3 DEF Counts, Ignored, e
  <1> QED
    BY <1>4, <1>5, <1>6, <1>7 DEF Gathered, ListsFrom, r

(* One more element counts one more.                                        *)
LEMMA CountsMore ==
    ASSUME NEW n \in Nat, NEW S, Counts(n, S), NEW k, k \notin S
    PROVE  Counts(n + 1, S \cup {k})
  BY DEF Counts

LEMMA FromBelow ==
    ASSUME file \in File, NEW p \in 0..N, NEW k \in 1..N, k - 1 \in Line(p)
    PROVE  /\ From(p, k - 1) = From(p, k) \cup {k - 1} /\ k - 1 \notin From(p, k)
           /\ \A i \in From(p, k) : i \in Nat /\ k - 1 < i
  BY ProfilesConstants DEF From, Line

LEMMA GatheredMerged ==
    ASSUME file \in File, NEW p \in 0..N, NEW k \in 1..N, k - 1 \in Line(p),
           NEW r \in Resolved, Gathered(p, k, r), ~Conflict(r, Alone(Ancestor(p)[k - 1]))
    PROVE  Gathered(p, k - 1, Merged(r, Alone(Ancestor(p)[k - 1])))
  <1> DEFINE child == Alone(Ancestor(p)[k - 1])
             m == Merged(r, child)
             e == Elder(p, k - 1)
  <1>1. /\ From(p, k - 1) = From(p, k) \cup {k - 1} /\ k - 1 \notin From(p, k)
        /\ \A i \in From(p, k) : i \in Nat /\ k - 1 < i
        /\ k - 1 \in Nat
    BY FromBelow, ProfilesConstants
  <1>2. Ancestor(p)[k - 1] \in 0..N /\ None \notin 0..N
    BY ElderType, ProfilesConstants
  <1>3. /\ child.labels = e.labels
        /\ child.prefixes = [c \in Candidates |-> IF c \in e.prefixes THEN Ancestor(p)[k - 1] ELSE None]
        /\ child.significant = [w \in Words |-> IF w \in e.significant THEN 1 ELSE 0]
        /\ child.ignored = [w \in Words |-> IF w \in e.ignored THEN 1 ELSE 0]
    BY DEF Alone, Elder
  <1>4. \A c \in Candidates : r.prefixes[c] = None \/ child.prefixes[c] = None
    BY DEF Conflict
  <1> HIDE DEF child, e
  <1>5. /\ m.labels = [s \in DOMAIN NoLabels |->
                         IF child.labels[s] # None THEN child.labels[s] ELSE r.labels[s]]
        /\ m.prefixes = [c \in Candidates |->
                           IF child.prefixes[c] # None THEN child.prefixes[c] ELSE r.prefixes[c]]
        /\ m.significant = [w \in Words |-> r.significant[w] + child.significant[w]]
        /\ m.ignored = [w \in Words |-> r.ignored[w] + child.ignored[w]]
    BY DEF Merged
  <1> HIDE DEF m
  <1>6. LabelsFrom(p, k - 1, m)
    <2> SUFFICES ASSUME NEW s \in DOMAIN NoLabels
                 PROVE  \/ m.labels[s] = None /\ \A i \in From(p, k - 1) : Elder(p, i).labels[s] = None
                        \/ \E i \in From(p, k - 1) :
                             /\ m.labels[s] # None /\ m.labels[s] = Elder(p, i).labels[s]
                             /\ \A j \in From(p, k - 1) : Elder(p, j).labels[s] # None => i <= j
      BY DEF LabelsFrom
    <2>1. CASE e.labels[s] # None
      <3>1. m.labels[s] = e.labels[s]
        BY <1>3, <1>5, <2>1
      <3>2. \A j \in From(p, k - 1) : k - 1 <= j
        BY <1>1
      <3> QED
        BY <1>1, <2>1, <3>1, <3>2 DEF e
    <2>2. CASE e.labels[s] = None
      <3>1. m.labels[s] = r.labels[s]
        BY <1>3, <1>5, <2>2
      <3>2. \/ r.labels[s] = None /\ \A i \in From(p, k) : Elder(p, i).labels[s] = None
            \/ \E i \in From(p, k) :
                 /\ r.labels[s] # None /\ r.labels[s] = Elder(p, i).labels[s]
                 /\ \A j \in From(p, k) : Elder(p, j).labels[s] # None => i <= j
        BY DEF Gathered, LabelsFrom
      <3>3. \A j \in From(p, k - 1) : Elder(p, j).labels[s] # None => j \in From(p, k)
        BY <1>1, <2>2 DEF e
      <3> QED
        BY <1>1, <3>1, <3>2, <3>3
    <2> QED
      BY <2>1, <2>2
  <1>7. PrefixesFrom(p, k - 1, m)
    <2> SUFFICES ASSUME NEW c \in Candidates
                 PROVE  \/ /\ m.prefixes[c] = None
                           /\ \A i \in From(p, k - 1) : c \notin Elder(p, i).prefixes
                        \/ \E i \in From(p, k - 1) :
                             /\ m.prefixes[c] = Ancestor(p)[i] /\ c \in Elder(p, i).prefixes
                             /\ \A j \in From(p, k - 1) : c \in Elder(p, j).prefixes => j = i
      BY DEF PrefixesFrom
    <2>1. \/ r.prefixes[c] = None /\ \A i \in From(p, k) : c \notin Elder(p, i).prefixes
          \/ \E i \in From(p, k) :
               /\ r.prefixes[c] = Ancestor(p)[i] /\ c \in Elder(p, i).prefixes
               /\ \A j \in From(p, k) : c \in Elder(p, j).prefixes => j = i
      BY DEF Gathered, PrefixesFrom
    <2>2. CASE c \in e.prefixes
      <3>1. child.prefixes[c] = Ancestor(p)[k - 1] /\ child.prefixes[c] # None
        BY <1>2, <1>3, <2>2
      <3>2. r.prefixes[c] = None /\ m.prefixes[c] = Ancestor(p)[k - 1]
        BY <1>4, <1>5, <3>1
      <3>3. \A i \in From(p, k) : Ancestor(p)[i] # None
        BY <1>2, ElderType DEF From
      <3>4. \A i \in From(p, k) : c \notin Elder(p, i).prefixes
        BY <2>1, <3>2, <3>3
      <3> QED
        BY <1>1, <2>2, <3>2, <3>4 DEF e
    <2>3. CASE c \notin e.prefixes
      <3>1. m.prefixes[c] = r.prefixes[c]
        BY <1>3, <1>5, <2>3
      <3>2. \A j \in From(p, k - 1) : c \in Elder(p, j).prefixes => j \in From(p, k)
        BY <1>1, <2>3 DEF e
      <3> QED
        BY <1>1, <2>1, <3>1, <3>2
    <2> QED
      BY <2>2, <2>3
  <1>8. /\ r.significant \in [Words -> Nat] /\ r.ignored \in [Words -> Nat]
    BY DEF Resolved
  <1>9. ASSUME NEW w \in Words PROVE Counts(m.significant[w], Significant(p, k - 1, w))
    <2>1. r.significant[w] \in Nat /\ Counts(r.significant[w], Significant(p, k, w))
      BY <1>8 DEF Gathered, ListsFrom
    <2>2. CASE w \in e.significant
      <3>1. m.significant[w] = r.significant[w] + 1
        BY <1>3, <1>5, <2>2
      <3>2. /\ Significant(p, k - 1, w) = Significant(p, k, w) \cup {k - 1}
            /\ k - 1 \notin Significant(p, k, w)
        BY <1>1, <2>2 DEF Significant, e
      <3> QED
        BY <2>1, <3>1, <3>2, CountsMore
    <2>3. CASE w \notin e.significant
      <3>1. m.significant[w] = r.significant[w]
        BY <1>3, <1>5, <2>1, <2>3
      <3>2. Significant(p, k - 1, w) = Significant(p, k, w)
        BY <1>1, <2>3 DEF Significant, e
      <3> QED
        BY <2>1, <3>1, <3>2
    <2> QED
      BY <2>2, <2>3
  <1>10. ASSUME NEW w \in Words PROVE Counts(m.ignored[w], Ignored(p, k - 1, w))
    <2>1. r.ignored[w] \in Nat /\ Counts(r.ignored[w], Ignored(p, k, w))
      BY <1>8 DEF Gathered, ListsFrom
    <2>2. CASE w \in e.ignored
      <3>1. m.ignored[w] = r.ignored[w] + 1
        BY <1>3, <1>5, <2>2
      <3>2. Ignored(p, k - 1, w) = Ignored(p, k, w) \cup {k - 1} /\ k - 1 \notin Ignored(p, k, w)
        BY <1>1, <2>2 DEF Ignored, e
      <3> QED
        BY <2>1, <3>1, <3>2, CountsMore
    <2>3. CASE w \notin e.ignored
      <3>1. m.ignored[w] = r.ignored[w]
        BY <1>3, <1>5, <2>1, <2>3
      <3>2. Ignored(p, k - 1, w) = Ignored(p, k, w)
        BY <1>1, <2>3 DEF Ignored, e
      <3> QED
        BY <2>1, <3>1, <3>2
    <2> QED
      BY <2>2, <2>3
  <1> QED
    BY <1>6, <1>7, <1>9, <1>10 DEF Gathered, ListsFrom, m, child

LEMMA ConflictIsNotDisjoint ==
    ASSUME file \in File, NEW p \in 0..N, NEW k \in 1..N, k - 1 \in Line(p),
           NEW r \in Resolved, Gathered(p, k, r), Conflict(r, Alone(Ancestor(p)[k - 1]))
    PROVE  ~Disjoint(p)
  <1>1. PICK c \in Candidates : r.prefixes[c] # None /\ Alone(Ancestor(p)[k - 1]).prefixes[c] # None
    BY DEF Conflict
  <1>2. c \in Elder(p, k - 1).prefixes
    BY <1>1 DEF Alone, Elder
  <1>3. PICK i \in From(p, k) : c \in Elder(p, i).prefixes
    BY <1>1 DEF Gathered, PrefixesFrom
  <1>4. i \in Line(p) /\ i # k - 1
    BY FromBelow DEF From
  <1> QED
    BY <1>2, <1>3, <1>4 DEF Disjoint

(* What the whole line says, gathered.                                      *)
LEMMA GatheredAll ==
    ASSUME file \in File, NEW p \in 0..N, NEW r \in Resolved, Gathered(p, 0, r)
    PROVE  /\ \A s \in DOMAIN NoLabels : r.labels[s] = Nearest(p, s)
           /\ Listed(r.significant) = Significants(p) /\ Listed(r.ignored) = Ignoreds(p)
           /\ UniqueTokens(r.significant) <=>
                \A i, j \in Line(p) : i # j => Elder(p, i).significant \cap Elder(p, j).significant = {}
           /\ UniqueTokens(r.ignored) <=>
                \A i, j \in Line(p) : i # j => Elder(p, i).ignored \cap Elder(p, j).ignored = {}
           /\ \A c \in Candidates : r.prefixes[c] # None <=> \E i \in Line(p) : c \in Elder(p, i).prefixes
           /\ \A i, j \in Line(p) : i # j => Elder(p, i).prefixes \cap Elder(p, j).prefixes = {}
           /\ \A c \in Candidates, q \in 0..N :
                r.prefixes[c] = q
                  <=> \E i \in Line(p) : Ancestor(p)[i] = q /\ c \in Elder(p, i).prefixes
  <1>1. From(p, 0) = Line(p) /\ \A i \in Line(p) : i \in Nat
    BY ProfilesConstants DEF From, Line
  <1>2. None \notin 0..N
    BY ProfilesConstants
  <1>3. ASSUME NEW i \in Line(p)
        PROVE  /\ Ancestor(p)[i] \in 0..N /\ Elder(p, i).prefixes \in SUBSET Candidates
               /\ Elder(p, i).significant \in SUBSET Words /\ Elder(p, i).ignored \in SUBSET Words
    BY ElderType
  <1>4. ASSUME NEW s \in DOMAIN NoLabels PROVE r.labels[s] = Nearest(p, s)
    <2> DEFINE having == {i \in Line(p) : Elder(p, i).labels[s] # None}
    <2>1. \/ r.labels[s] = None /\ \A i \in Line(p) : Elder(p, i).labels[s] = None
          \/ \E i \in Line(p) :
               /\ r.labels[s] # None /\ r.labels[s] = Elder(p, i).labels[s]
               /\ \A j \in Line(p) : Elder(p, j).labels[s] # None => i <= j
      BY <1>1 DEF Gathered, LabelsFrom
    <2>2. Nearest(p, s) = IF having = {} THEN None
                          ELSE Elder(p, CHOOSE i \in having : \A j \in having : i <= j).labels[s]
      BY DEF Nearest
    <2>3. CASE having = {}
      BY <2>1, <2>2, <2>3
    <2>4. CASE having # {}
      <3>1. PICK i \in having : r.labels[s] = Elder(p, i).labels[s] /\ \A j \in having : i <= j
        BY <2>1, <2>4
      <3>2. \A x \in having : x \in Nat
        BY <1>1
      <3> HIDE DEF having
      <3>3. (CHOOSE x \in having : \A j \in having : x <= j) = i
        <4>1. \A x \in having : (\A j \in having : x <= j) => x = i
          BY <3>1, <3>2
        <4> QED
          BY <3>1, <4>1
      <3> QED
        BY <2>2, <2>4, <3>1, <3>3
    <2> QED
      BY <2>3, <2>4
  <1>5. /\ r.significant \in [Words -> Nat] /\ r.ignored \in [Words -> Nat]
    BY DEF Resolved
  <1>6. ASSUME NEW w \in Words
        PROVE  /\ r.significant[w] > 0 <=> \E i \in Line(p) : w \in Elder(p, i).significant
               /\ r.significant[w] <= 1 <=>
                    \A i, j \in Line(p) :
                      w \in Elder(p, i).significant /\ w \in Elder(p, j).significant => i = j
               /\ r.ignored[w] > 0 <=> \E i \in Line(p) : w \in Elder(p, i).ignored
               /\ r.ignored[w] <= 1 <=>
                    \A i, j \in Line(p) :
                      w \in Elder(p, i).ignored /\ w \in Elder(p, j).ignored => i = j
    <2>1. Counts(r.significant[w], Significant(p, 0, w)) /\ Counts(r.ignored[w], Ignored(p, 0, w))
      BY DEF Gathered, ListsFrom
    <2>2. /\ Significant(p, 0, w) = {i \in Line(p) : w \in Elder(p, i).significant}
          /\ Ignored(p, 0, w) = {i \in Line(p) : w \in Elder(p, i).ignored}
      BY <1>1 DEF Significant, Ignored
    <2> QED
      BY <2>1, <2>2 DEF Counts
  <1>7. Listed(r.significant) = Significants(p)
    <2>1. \A w : w \in Significants(p) <=> \E i \in Line(p) : w \in Elder(p, i).significant
      BY DEF Significants
    <2>2. \A w \in Significants(p) : w \in Words
      BY <1>3, <2>1
    <2> QED
      BY <1>6, <2>1, <2>2 DEF Listed
  <1>8. Listed(r.ignored) = Ignoreds(p)
    <2>1. \A w : w \in Ignoreds(p) <=> \E i \in Line(p) : w \in Elder(p, i).ignored
      BY DEF Ignoreds
    <2>2. \A w \in Ignoreds(p) : w \in Words
      BY <1>3, <2>1
    <2> QED
      BY <1>6, <2>1, <2>2 DEF Listed
  <1>9. UniqueTokens(r.significant) <=>
          \A i, j \in Line(p) : i # j => Elder(p, i).significant \cap Elder(p, j).significant = {}
    BY <1>3, <1>6 DEF UniqueTokens
  <1>10. UniqueTokens(r.ignored) <=>
           \A i, j \in Line(p) : i # j => Elder(p, i).ignored \cap Elder(p, j).ignored = {}
    BY <1>3, <1>6 DEF UniqueTokens
  <1>11. ASSUME NEW c \in Candidates
         PROVE  \/ r.prefixes[c] = None /\ \A i \in Line(p) : c \notin Elder(p, i).prefixes
                \/ \E i \in Line(p) :
                     /\ r.prefixes[c] = Ancestor(p)[i] /\ c \in Elder(p, i).prefixes
                     /\ \A j \in Line(p) : c \in Elder(p, j).prefixes => j = i
    BY <1>1 DEF Gathered, PrefixesFrom
  <1>12. \A c \in Candidates : r.prefixes[c] # None <=> \E i \in Line(p) : c \in Elder(p, i).prefixes
    BY <1>2, <1>3, <1>11
  <1>13. \A i, j \in Line(p) : i # j => Elder(p, i).prefixes \cap Elder(p, j).prefixes = {}
    BY <1>3, <1>11
  <1>14. ASSUME NEW c \in Candidates, NEW q \in 0..N
         PROVE  r.prefixes[c] = q
                  <=> \E i \in Line(p) : Ancestor(p)[i] = q /\ c \in Elder(p, i).prefixes
    BY <1>2, <1>11
  <1> QED
    BY <1>4, <1>7, <1>8, <1>9, <1>10, <1>12, <1>13, <1>14

(* compile_policy accepts what it should.                                   *)
LEMMA CompilesIsFine ==
    ASSUME file \in File, NEW p \in 0..N, NEW r \in Resolved, Gathered(p, 0, r), Inherits(p)
    PROVE  Compiles(r) <=> Fine(p)
  <1>1. /\ r.labels.maxLength = Nearest(p, "maxLength")
        /\ Listed(r.significant) = Significants(p) /\ Listed(r.ignored) = Ignoreds(p)
        /\ \A c \in Candidates : r.prefixes[c] # None <=> \E i \in Line(p) : c \in Elder(p, i).prefixes
    BY GatheredAll DEF NoLabels
  <1>2. Disjoint(p) <=> UniqueTokens(r.significant) /\ UniqueTokens(r.ignored)
    BY GatheredAll DEF Disjoint
  <1>3. r.labels.maxLength # None => r.labels.maxLength \in 1..MaxMaxLength
          <=> Nearest(p, "maxLength") \in 1..MaxMaxLength \cup {None}
    BY <1>1
  <1>4. \A i \in Line(p) : Elder(p, i).prefixes \in SUBSET Candidates
    BY ElderType
  <1>5. \A c : c \in {<<w>> : w \in BuiltinSignificant \cup Listed(r.significant)} \cup Runners
                 <=> c \in Runners \/ \E w \in BuiltinSignificant \cup Significants(p) : c = <<w>>
    BY <1>1
  <1>6. PrefixesValid(r) <=>
          \A i \in Line(p) : \A c \in Elder(p, i).prefixes :
            /\ c \in Runners \/ \E w \in BuiltinSignificant \cup Significants(p) : c = <<w>>
            /\ c[1] \notin Ignoreds(p)
    BY <1>1, <1>4, <1>5 DEF PrefixesValid
  <1> QED
    BY <1>1, <1>2, <1>3, <1>6 DEF Compiles, Fine, Consistent

-------------------------------------------------------------------------------
(* Selectors.                                                               *)

LEMMA ValidIsUnambiguous == SelectorsValid(file.selectors) <=> Unambiguous
  BY DEF SelectorsValid, Unambiguous

LEMMA SelectedIsFound ==
    ASSUME file \in File, SelectorsValid(file.selectors)
    PROVE  SelectedProfile = Selected
  <1> DEFINE I == {j \in 1..Len(file.selectors) : file.selectors[j].session = Session}
             i == SelectInSeq(file.selectors, LAMBDA s : s.session = Session)
  <1>1. file.selectors \in Seq(Selector) /\ Len(file.selectors) \in Nat
    BY LenProperties DEF File
  <1>2. i = IF I # {} THEN Min(I) ELSE 0
    BY DEF SelectInSeq
  <1>3. SelectedProfile = IF i = 0 THEN Global ELSE file.selectors[i].profile
    BY DEF SelectedProfile
  <1>4. Range(file.selectors) = {file.selectors[j] : j \in 1..Len(file.selectors)}
    BY <1>1, LenProperties DEF Range
  <1>5. Used = {file.selectors[j].profile : j \in I}
    BY <1>4 DEF Used
  <1>6. CASE I = {}
    BY <1>2, <1>3, <1>5, <1>6 DEF Selected
  <1>7. CASE I # {}
    <2>1. Min(I) \in I
      <3>1. I \subseteq Nat
        BY <1>1
      <3> HIDE DEF I
      <3>2. \E n \in I : \A m \in I : n <= m
        BY <1>7, <3>1, LeastNatural
      <3> QED
        BY <3>2 DEF Min
    <2>a. i = Min(I)
      <3> HIDE DEF i, I
      <3> QED
        BY <1>2, <1>7
    <2>2. i \in I /\ i # 0
      <3>1. \A j \in I : j # 0
        BY <1>1
      <3> HIDE DEF i, I
      <3> QED
        BY <2>a, <2>1, <3>1
    <2>3. \A j \in I : j = i
      <3> HIDE DEF i
      <3> QED
        BY <2>2 DEF SelectorsValid
    <2> HIDE DEF I, i
    <2>4. Used = {file.selectors[i].profile}
      BY <1>5, <2>2, <2>3
    <2> QED
      BY <1>3, <2>2, <2>4 DEF Selected
  <1> QED
    BY <1>6, <1>7

-------------------------------------------------------------------------------
(* What is said of a file does not change while the file does not.          *)

First(S) == CHOOSE i \in S : \A j \in S : i <= j
Having(p, s) == {i \in Line(p) : Elder(p, i).labels[s] # None}

LEMMA SameFile ==
    ASSUME file' = file
    PROVE  /\ \A p : /\ Ancestor(p)' = Ancestor(p) /\ Line(p)' = Line(p)
                     /\ Fine(p)' = Fine(p) /\ Inherits(p)' = Inherits(p)
           /\ \A p, i : Elder(p, i)' = Elder(p, i)
           /\ SelectedProfile' = SelectedProfile /\ Selected' = Selected
           /\ Sound' = Sound
           /\ \A p, k, r : Gathered(p, k, r)' = Gathered(p, k, r)
  <1>1. ASSUME NEW p PROVE Ancestor(p)' = Ancestor(p)
    <2>1. Ancestor(p) = AncestorIn(file, p)
      BY DEF Ancestor, AncestorIn, ClimbsTo, Parent
    <2>2. Ancestor(p)' = AncestorIn(file', p)
      BY DEF Ancestor, AncestorIn, ClimbsTo, Parent
    <2> QED
      BY <2>1, <2>2
  <1>2. \A p : Line(p)' = Line(p)
    BY <1>1 DEF Line
  <1>3. \A p, i : Elder(p, i)' = Elder(p, i)
    BY <1>1 DEF Elder
  <1>4. \A p : Inherits(p)' = Inherits(p)
    BY <1>1 DEF Inherits
  <1>5. \A p : Disjoint(p)' = Disjoint(p)
    BY <1>2, <1>3 DEF Disjoint
  <1>6. \A p : Significants(p)' = Significants(p) /\ Ignoreds(p)' = Ignoreds(p)
    BY <1>2, <1>3 DEF Significants, Ignoreds
  <1>7. ASSUME NEW p, NEW s PROVE Nearest(p, s)' = Nearest(p, s)
    <2>1. Having(p, s)' = Having(p, s)
      BY <1>2, <1>3 DEF Having
    <2>2. Nearest(p, s) = IF Having(p, s) = {} THEN None ELSE Elder(p, First(Having(p, s))).labels[s]
      BY DEF Nearest, First, Having
    <2>3. Nearest(p, s)' =
            IF Having(p, s)' = {} THEN None ELSE (Elder(p, First(Having(p, s))).labels[s])'
      BY DEF Nearest, First, Having
    <2>4. (Elder(p, First(Having(p, s))).labels[s])' = Elder(p, First(Having(p, s))).labels[s]
      BY <1>1, <2>1 DEF Elder
    <2> QED
      BY <2>1, <2>2, <2>3, <2>4
  <1>8. \A p : Consistent(p)' = Consistent(p)
    BY <1>2, <1>3, <1>6, <1>7 DEF Consistent
  <1>9. \A p : Fine(p)' = Fine(p)
    BY <1>4, <1>5, <1>8 DEF Fine
  <1>10. Selected' = Selected
    BY DEF Selected, Used
  <1>11. SelectedProfile' = SelectedProfile
    BY DEF SelectedProfile, SelectInSeq
  <1>12. Sound' = Sound
    BY <1>4, <1>5, <1>8, <1>10 DEF Sound, Unambiguous
  <1>13. ASSUME NEW p, NEW k, NEW r PROVE Gathered(p, k, r)' = Gathered(p, k, r)
    <2>1. From(p, k)' = From(p, k)
      BY <1>2 DEF From
    <2>2. LabelsFrom(p, k, r)' = LabelsFrom(p, k, r)
      BY <1>3, <2>1 DEF LabelsFrom
    <2>3. PrefixesFrom(p, k, r)' = PrefixesFrom(p, k, r)
      BY <1>1, <1>3, <2>1 DEF PrefixesFrom
    <2>4. \A w : Significant(p, k, w)' = Significant(p, k, w) /\ Ignored(p, k, w)' = Ignored(p, k, w)
      BY <1>3, <2>1 DEF Significant, Ignored
    <2>5. ListsFrom(p, k, r)' = ListsFrom(p, k, r)
      BY <2>4 DEF ListsFrom
    <2> QED
      BY <2>2, <2>3, <2>5 DEF Gathered
  <1> QED
    BY <1>1, <1>2, <1>3, <1>4, <1>9, <1>10, <1>11, <1>12, <1>13

-------------------------------------------------------------------------------
(* The steps of the loader.                                                 *)

LEMMA RejectJudged ==
    ASSUME Reject, ~Sound
    PROVE  JudgedOK'
  <1>1. Sound' = Sound
    BY SameFile DEF Reject
  <1> QED
    BY <1>1 DEF JudgedOK, Reject

(* One profile that is not fine makes the file unsound.                     *)
LEMMA OneSpoilsAll ==
    ASSUME file \in File, file # Absent, Remaining,
           NEW p \in Names \cup {SelectedProfile}, ~Fine(p)
    PROVE  ~Sound
  BY SelectedIsFound DEF Remaining, Sound, Fine

(* What is being resolved.                                                  *)
LEMMA Resolving ==
    ASSUME ProfilesTypeOK, LoaderOK, JudgedOK, outcome = "loading", todo # None
    PROVE  /\ file \in File /\ file # Absent /\ Remaining /\ todo \in Seq(0..N) /\ todo # <<>>
           /\ Len(todo) \in Nat /\ 1 \in 1..Len(todo)
           /\ todo[1] \in 0..N /\ Head(todo) = todo[1]
           /\ todo[1] \in Names \cup {SelectedProfile} /\ Climbs(todo[1])
  <1>1. file \in File /\ file # Absent /\ todo \in Seq(0..N) /\ todo # <<>>
    BY DEF ProfilesTypeOK, LoaderOK
  <1>2. Len(todo) \in Nat /\ 1 \in 1..Len(todo)
    BY <1>1, EmptySeq, LenProperties
  <1>3. todo[1] \in 0..N /\ Head(todo) = todo[1]
    <2> DEFINE S == 0..N
    <2>1. todo \in Seq(S) /\ todo # <<>>
      BY <1>1
    <2> HIDE DEF S
    <2>2. todo[1] \in S /\ Head(todo) = todo[1]
      BY <1>2, <2>1, ElementOfSeq, HeadTailProperties
    <2> QED
      BY <2>2 DEF S
  <1>4. Remaining /\ Climbs(todo[1])
    BY <1>3 DEF JudgedOK
  <1> QED
    BY <1>1, <1>2, <1>3, <1>4 DEF Remaining

(* A step inside resolve_profile.                                           *)
LEMMA StillJudged ==
    ASSUME Remaining, outcome = "loading", UNCHANGED <<file, todo, outcome>>,
           \A p \in 0..N : p = todo[1] => Climbs(p)'
    PROVE  JudgedOK'
  <1>1. Remaining'
    BY SameFile DEF Remaining
  <1> QED
    BY <1>1 DEF JudgedOK

LEMMA ReadJudged ==
    ASSUME ProfilesTypeOK, LoaderOK, ReadFile
    PROVE  JudgedOK'
  <1>1. CASE file = Absent /\ outcome' = "valid" /\ UNCHANGED file
    BY <1>1 DEF JudgedOK, Sound
  <1>2. CASE file # Absent /\ ~SelectorsValid(file.selectors) /\ Reject
    BY <1>2, ValidIsUnambiguous, RejectJudged DEF Sound
  <1>3. CASE /\ file # Absent /\ SelectorsValid(file.selectors)
             /\ todo' = Append([p \in Names |-> p], SelectedProfile)
             /\ UNCHANGED <<file, call, chain, resolved, outcome>>
    <2> DEFINE all == [p \in Names |-> p]
    <2>1. file \in File /\ N \in Nat /\ call = None /\ chain = <<>> /\ resolved = None
          /\ outcome = "loading"
      BY <1>3, ProfilesConstants DEF ProfilesTypeOK, LoaderOK, ReadFile
    <2>2. SelectedProfile \in 0..N
      BY <1>3, <2>1, SelectedType
    <2>3. all \in Seq(0..N) /\ Len(all) = N /\ \A i \in 1..N : all[i] = i
      <3>1. all \in [1..N -> 0..N]
        BY <2>1 DEF Names
      <3>2. all \in Seq(0..N)
        BY <2>1, <3>1, SeqDef
      <3>3. Len(all) = N
        BY <2>1, <3>1, <3>2, LenProperties
      <3> QED
        BY <3>2, <3>3 DEF Names
    <2> HIDE DEF all
    <2>4. /\ Len(todo') = N + 1 /\ \A i \in 1..N : todo'[i] = i
          /\ todo'[N + 1] = SelectedProfile
      BY <1>3, <2>2, <2>3, AppendProperties DEF all
    <2>5. Remaining'
      <3>1. SelectedProfile' = SelectedProfile /\ SelectorsValid(file.selectors)'
        BY <1>3, SameFile
      <3>2. \A i \in 1..(N + 1) : i \in 1..N \/ i = N + 1
        BY <2>1
      <3>3. \A p \in Names : p \in 1..(N + 1) /\ todo'[p] = p
        BY <2>1, <2>4 DEF Names
      <3>4. N + 1 \in 1..(N + 1)
        BY <2>1
      <3> QED
        BY <2>4, <3>1, <3>2, <3>3, <3>4 DEF Remaining, Names
    <2>6. Len(chain') = 0
      BY <1>3, <2>1
    <2>7. \A p \in 0..N : Climbs(p)'
      BY <1>3, <2>1, <2>6 DEF Climbs
    <2> QED
      BY <1>3, <2>1, <2>5, <2>7 DEF JudgedOK
  <1> QED
    BY <1>1, <1>2, <1>3 DEF ReadFile

LEMMA ResolveJudged ==
    ASSUME ProfilesTypeOK, LoaderOK, JudgedOK, Resolve
    PROVE  JudgedOK'
  <1>1. /\ outcome = "loading" /\ todo # None /\ chain = <<>> /\ resolved = None
        /\ call' = Head(todo) /\ UNCHANGED <<file, todo, chain, resolved, outcome>>
    BY DEF Resolve
  <1>2. Remaining /\ Head(todo) = todo[1]
    BY <1>1, Resolving
  <1>3. Len(chain') = 0
    BY <1>1
  <1>4. ASSUME NEW p \in 0..N, p = todo[1] PROVE Climbs(p)'
    <2>1. Ancestor(p)'[0] = p
      BY <1>1, AncestorEquation, SameFile
    <2> QED
      BY <1>1, <1>2, <1>3, <1>4, <2>1 DEF Climbs
  <1> QED
    BY <1>1, <1>2, <1>4, StillJudged

(* The chain so far, and the profile at its end.                            *)
LEMMA ChainFacts ==
    ASSUME file \in File, chain \in Seq(0..N), IsInjective(chain), NEW p \in 0..N, Climbs(p)
    PROVE  /\ Len(chain) \in 0..N /\ N \in Nat
           /\ \A i \in 0..(Len(chain) - 1) :
                i + 1 \in 1..Len(chain) /\ Ancestor(p)[i] = chain[i + 1] /\ Ancestor(p)[i] \in Names
  <1>1. Len(chain) \in Nat /\ N \in Nat /\ Len(chain) <= N
    BY ShortChain, LenProperties, ProfilesConstants DEF Climbs
  <1>2. \A i \in 1..Len(chain) : chain[i] \in Names /\ chain[i] = Ancestor(p)[i - 1]
    BY DEF Climbs
  <1>3. ASSUME NEW i \in 0..(Len(chain) - 1)
        PROVE  i + 1 \in 1..Len(chain) /\ Ancestor(p)[i] = chain[i + 1] /\ Ancestor(p)[i] \in Names
    <2>1. i + 1 \in 1..Len(chain) /\ (i + 1) - 1 = i
      BY <1>1
    <2> QED
      BY <1>2, <2>1
  <1> QED
    BY <1>1, <1>3

LEMMA RoomForOne ==
    ASSUME file \in File, chain \in Seq(0..N), IsInjective(chain), NEW p \in 0..N, Climbs(p),
           NEW x \in Names, ~Contains(chain, x)
    PROVE  Len(chain) + 1 \in 0..N
  <1>1. Len(chain) \in Nat /\ N \in Nat /\ x \in 0..N
    BY ChainFacts, ProfilesConstants DEF Names
  <1>2. Append(chain, x) \in Seq(0..N) /\ IsInjective(Append(chain, x))
    BY <1>1, LongerChain
  <1>3. /\ Len(Append(chain, x)) = Len(chain) + 1
        /\ \A i \in 1..Len(chain) : Append(chain, x)[i] = chain[i]
        /\ Append(chain, x)[Len(chain) + 1] = x
    BY <1>1, AppendProperties
  <1>4. \A i \in 1..(Len(chain) + 1) : i \in 1..Len(chain) \/ i = Len(chain) + 1
    BY <1>1
  <1>5. \A i \in 1..Len(Append(chain, x)) : Append(chain, x)[i] \in Names
    BY <1>3, <1>4 DEF Climbs
  <1>6. Len(Append(chain, x)) <= N
    BY <1>2, <1>5, ShortChain
  <1> QED
    BY <1>1, <1>3, <1>6

LEMMA DescendJudged ==
    ASSUME ProfilesTypeOK, LoaderOK, JudgedOK, Descend
    PROVE  JudgedOK'
  <1> DEFINE m == Len(chain)
             p == todo[1]
             A == Ancestor(p)
  <1>1. outcome = "loading" /\ call # None /\ call \in 0..N /\ todo # None
        /\ chain \in Seq(0..N) /\ IsInjective(chain) /\ resolved = None
    BY DEF Descend, ProfilesTypeOK, LoaderOK
  <1>2. /\ file \in File /\ file # Absent /\ Remaining
        /\ p \in 0..N /\ p \in Names \cup {SelectedProfile} /\ Climbs(p)
    BY <1>1, Resolving
  <1>3. /\ m \in 0..N /\ N \in Nat /\ Unknown \notin 0..N /\ None \notin 0..N /\ Unknown # None
        /\ \A i \in 0..(m - 1) : i + 1 \in 1..m /\ A[i] = chain[i + 1] /\ A[i] \in Names
    BY <1>1, <1>2, ChainFacts, ProfilesConstants
  <1>4. A[m] = call
    BY <1>1, <1>2 DEF Climbs
  <1>5. Parent(file, call) = file.profiles[call].extends
    BY <1>1 DEF Parent
  <1>6. ASSUME call \in Names, ~InChain(call)
        PROVE  m + 1 \in 0..N /\ m + 1 # 0 /\ A[m + 1] = Parent(file, call)
    <2>1. m + 1 \in 0..N
      BY <1>1, <1>2, <1>6, RoomForOne DEF InChain
    <2>2. m + 1 # 0 /\ (m + 1) - 1 = m
      BY <1>3
    <2> QED
      BY <1>4, <2>1, <2>2, AncestorEquation
  <1>7. ASSUME InChain(call), Reject PROVE JudgedOK'
    <2>1. PICK j \in 1..m : chain[j] = call
      BY <1>7 DEF InChain, Contains
    <2>2. j - 1 \in 0..(m - 1) /\ (j - 1) + 1 = j /\ m \in 1..N
      BY <1>3
    <2>3. A[m] = A[j - 1]
      BY <1>3, <1>4, <2>1, <2>2
    <2>4. ~Inherits(p)
      BY <1>2, <1>3, <2>2, <2>3, CycleNeverEnds
    <2> QED
      BY <1>2, <1>7, <2>4, OneSpoilsAll, RejectJudged DEF Fine
  <1>8. ASSUME ~InChain(call), file.profiles[call].extends = Unknown, Reject PROVE JudgedOK'
    <2>1. call \in Names
      BY <1>2, <1>5, <1>8, ParentType
    <2>2. ~Inherits(p)
      BY <1>5, <1>6, <1>8, <2>1 DEF Inherits
    <2> QED
      BY <1>2, <1>8, <2>2, OneSpoilsAll, RejectJudged DEF Fine
  <1>9. ASSUME ~InChain(call), file.profiles[call].extends \in Names,
               chain' = Append(chain, call), call' = file.profiles[call].extends,
               UNCHANGED <<file, todo, resolved, outcome>>
        PROVE  JudgedOK'
    <2>1. call \in Names
      BY <1>2, <1>5, <1>9, ParentType
    <2>2. m + 1 \in 0..N /\ A[m + 1] = call'
      BY <1>5, <1>6, <1>9, <2>1
    <2>3. /\ Len(chain') = m + 1 /\ \A i \in 1..m : chain'[i] = chain[i]
          /\ chain'[m + 1] = call
      BY <1>1, <1>9, AppendProperties
    <2>4. ASSUME NEW q \in 0..N, q = todo[1] PROVE Climbs(q)'
      <3>1. Ancestor(q)' = A
        BY <1>9, <2>4, SameFile
      <3>2. \A i \in 1..(m + 1) : i \in 1..m \/ (i = m + 1 /\ i - 1 = m)
        BY <1>3
      <3>3. \A i \in 1..m : chain[i] \in Names /\ chain[i] = A[i - 1]
        BY <1>2 DEF Climbs
      <3>4. \A i \in 1..(m + 1) : chain'[i] \in Names /\ chain'[i] = A[i - 1]
        BY <1>4, <2>1, <2>3, <3>2, <3>3
      <3>5. resolved' = None
        BY <1>1, <1>9
      <3> HIDE DEF A, m
      <3> QED
        BY <2>2, <2>3, <3>1, <3>4, <3>5 DEF Climbs
    <2> QED
      BY <1>1, <1>2, <1>9, <2>4, StillJudged
  <1>10. ASSUME ~InChain(call), file.profiles[call].extends = None,
                resolved' = Alone(call), call' = None, UNCHANGED <<file, todo, chain, outcome>>
         PROVE  JudgedOK'
    <2>1. \A i \in 0..m : A[i] \in 0..N
      <3>1. \A i \in 0..m : i \in 0..(m - 1) \/ i = m
        BY <1>3
      <3> QED
        BY <1>1, <1>3, <1>4, <3>1, ProfilesConstants DEF Names
    <2>2. m = N => A[m] \notin Names
      BY <1>3, <1>4, <1>6, <1>10
    <2>3. Inherits(p) /\ Line(p) = 0..m
      BY <1>2, <1>3, <1>4, <1>5, <1>10, <2>1, <2>2, ChainEnds
    <2>4. From(p, m) = {m}
      BY <1>3, <2>3 DEF From
    <2>5. Gathered(p, m, resolved')
      BY <1>2, <1>3, <1>4, <1>10, <2>4, GatheredAlone
    <2>6. ASSUME NEW q \in 0..N, q = todo[1] PROVE Climbs(q)'
      <3>1. q = p /\ Len(chain') = m /\ Climbs(q)
        BY <1>2, <1>10, <2>6
      <3>2. Ancestor(q)' = A /\ Inherits(q)'
        BY <1>10, <2>3, <3>1, SameFile
      <3>3. PICK k, r : k = Len(chain') /\ r = resolved'
        OBVIOUS
      <3>4. Gathered(q, k, r)'
        BY <1>10, <2>5, <3>1, <3>3, SameFile
      <3>5. Gathered(q, Len(chain), resolved)'
        BY <3>3, <3>4 DEF Gathered, LabelsFrom, PrefixesFrom, ListsFrom, Significant, Ignored, From
      <3>6. \A i \in 1..Len(chain) : chain[i] \in Names /\ chain[i] = A[i - 1]
        BY <1>2 DEF Climbs
      <3> HIDE DEF A, m, p
      <3> QED
        BY <1>10, <3>2, <3>5, <3>6 DEF Climbs
    <2> QED
      BY <1>1, <1>2, <1>10, <2>6, StillJudged
  <1> QED
    BY <1>7, <1>8, <1>9, <1>10 DEF Descend

LEMMA ReturnJudged ==
    ASSUME ProfilesTypeOK, LoaderOK, JudgedOK, Return
    PROVE  JudgedOK'
  <1> DEFINE m == Len(chain)
             p == todo[1]
             child == Alone(Last(chain))
  <1>1. /\ outcome = "loading" /\ resolved # None /\ resolved \in Resolved /\ call = None
        /\ todo # None /\ chain \in Seq(0..N) /\ IsInjective(chain) /\ chain # <<>>
    BY DEF Return, ProfilesTypeOK, LoaderOK
  <1>2. /\ file \in File /\ file # Absent /\ Remaining
        /\ p \in 0..N /\ p \in Names \cup {SelectedProfile} /\ Climbs(p)
    BY <1>1, Resolving
  <1>3. /\ m \in 0..N /\ N \in Nat
        /\ \A i \in 0..(m - 1) :
             i + 1 \in 1..m /\ Ancestor(p)[i] = chain[i + 1] /\ Ancestor(p)[i] \in Names
    BY <1>1, <1>2, ChainFacts
  <1>4. m \in 1..N
    <2>1. m # 0
      BY <1>1, EmptySeq
    <2> QED
      BY <1>3, <2>1
  <1>5. Last(chain) = Ancestor(p)[m - 1] /\ m - 1 \in Line(p)
    <2>1. m - 1 \in 0..(m - 1) /\ (m - 1) + 1 = m /\ m - 1 \in 0..N
      BY <1>3, <1>4
    <2>2. Ancestor(p)[m - 1] = chain[m] /\ Ancestor(p)[m - 1] \in Names
      BY <1>3, <2>1
    <2> QED
      BY <1>3, <2>1, <2>2 DEF Last, Line, Names
  <1>6. Inherits(p) /\ Gathered(p, m, resolved)
    BY <1>1, <1>2 DEF Climbs
  <1>7. ASSUME Conflict(resolved, child), Reject PROVE JudgedOK'
    <2>1. ~Disjoint(p)
      BY <1>1, <1>2, <1>4, <1>5, <1>6, <1>7, ConflictIsNotDisjoint
    <2> QED
      BY <1>2, <1>7, <2>1, OneSpoilsAll, RejectJudged DEF Fine
  <1>8. ASSUME ~Conflict(resolved, child), resolved' = Merged(resolved, child),
               chain' = Front(chain), UNCHANGED <<file, todo, call, outcome>>
        PROVE  JudgedOK'
    <2>1. Gathered(p, m - 1, resolved')
      BY <1>1, <1>2, <1>4, <1>5, <1>6, <1>8, GatheredMerged
    <2>2. Len(chain') = m - 1 /\ \A i \in 1..(m - 1) : chain'[i] = chain[i]
      BY <1>1, <1>8, ShorterChain
    <2>3. ASSUME NEW q \in 0..N, q = todo[1] PROVE Climbs(q)'
      <3>1. /\ Ancestor(q)' = Ancestor(p) /\ Inherits(q)' /\ q = p
            /\ \A k, r : Gathered(q, k, r)' = Gathered(p, k, r)
        BY <1>6, <1>8, <2>3, SameFile
      <3>2. PICK k, r : k = Len(chain') /\ r = resolved'
        OBVIOUS
      <3>3. Gathered(q, k, r)'
        BY <2>1, <2>2, <3>1, <3>2
      <3>4. Gathered(q, Len(chain), resolved)'
        BY <3>2, <3>3 DEF Gathered, LabelsFrom, PrefixesFrom, ListsFrom, Significant, Ignored, From
      <3>5. \A i \in 1..(m - 1) : i \in 1..m
        BY <1>3
      <3>6. \A i \in 1..m : chain[i] \in Names /\ chain[i] = Ancestor(p)[i - 1]
        BY <1>2 DEF Climbs
      <3>7. \A i \in 1..(m - 1) : chain'[i] \in Names /\ chain'[i] = Ancestor(p)[i - 1]
        BY <2>2, <3>5, <3>6
      <3>8. call' = None
        BY <1>1, <1>8
      <3> HIDE DEF p, m
      <3> QED
        BY <2>2, <3>1, <3>4, <3>7, <3>8 DEF Climbs
    <2> QED
      BY <1>1, <1>2, <1>8, <2>3, StillJudged
  <1> QED
    BY <1>7, <1>8 DEF Return

LEMMA CompileJudged ==
    ASSUME ProfilesTypeOK, LoaderOK, JudgedOK, Compile
    PROVE  JudgedOK'
  <1> DEFINE p == todo[1]
  <1>1. /\ outcome = "loading" /\ resolved # None /\ resolved \in Resolved /\ call = None
        /\ todo # None /\ chain = <<>>
    BY DEF Compile, ProfilesTypeOK, LoaderOK
  <1>2. /\ file \in File /\ file # Absent /\ Remaining
        /\ p \in 0..N /\ p \in Names \cup {SelectedProfile} /\ Climbs(p)
        /\ todo \in Seq(0..N) /\ todo # <<>> /\ Len(todo) \in Nat /\ 1 \in 1..Len(todo)
    BY <1>1, Resolving
  <1>3. Inherits(p) /\ Gathered(p, 0, resolved)
    <2>1. Len(chain) = 0
      BY <1>1
    <2> QED
      BY <1>1, <1>2, <2>1 DEF Climbs
  <1>4. Compiles(resolved) <=> Fine(p)
    BY <1>1, <1>2, <1>3, CompilesIsFine
  <1>5. ASSUME ~Compiles(resolved), Reject PROVE JudgedOK'
    BY <1>2, <1>4, <1>5, OneSpoilsAll, RejectJudged
  <1>6. /\ Tail(todo) \in Seq(0..N) /\ Len(Tail(todo)) = Len(todo) - 1
        /\ \A i \in 1..(Len(todo) - 1) : Tail(todo)[i] = todo[i + 1]
    BY <1>2, HeadTailProperties
  <1>7. /\ SelectorsValid(file.selectors) /\ todo[Len(todo)] = SelectedProfile
        /\ \A i \in 1..Len(todo) : todo[i] \in Names \cup {SelectedProfile}
        /\ \A q \in Names \cup {SelectedProfile} : Fine(q) \/ \E i \in 1..Len(todo) : todo[i] = q
    BY <1>2 DEF Remaining
  <1>8. ASSUME Compiles(resolved), Tail(todo) = <<>>, outcome' = "valid",
               UNCHANGED <<resolved, file, call, chain>>
        PROVE  JudgedOK'
    <2>1. Len(todo) = 1
      <3>1. PICK rest, n : rest = Tail(todo) /\ n = Len(todo)
        OBVIOUS
      <3>2. rest = <<>> /\ Len(rest) = n - 1 /\ n \in Nat
        BY <1>2, <1>6, <1>8, <3>1
      <3>3. n = 1
        BY <3>2
      <3> QED
        BY <3>1, <3>3
    <2>2. p = SelectedProfile /\ SelectedProfile = Selected
      BY <1>2, <1>7, <2>1, SelectedIsFound
    <2>3. \A q \in Names \cup {SelectedProfile} : Fine(q)
      BY <1>4, <1>7, <1>8, <2>1
    <2>4. Sound
      BY <1>7, <2>2, <2>3, ValidIsUnambiguous DEF Sound, Fine
    <2>5. ASSUME NEW q \in 0..N, q = Selected' PROVE Gathered(q, 0, resolved)'
      <3>1. q = p
        BY <1>8, <2>2, <2>5, SameFile
      <3>2. PICK r : r = resolved'
        OBVIOUS
      <3>3. Gathered(q, 0, r)'
        BY <1>3, <1>8, <3>1, <3>2, SameFile
      <3> QED
        BY <3>2, <3>3 DEF Gathered, LabelsFrom, PrefixesFrom, ListsFrom, Significant, Ignored, From
    <2>6. Sound'
      BY <1>8, <2>4, SameFile
    <2> QED
      BY <1>8, <2>5, <2>6 DEF JudgedOK
  <1>9. ASSUME Compiles(resolved), Tail(todo) # <<>>, todo' = Tail(todo), resolved' = None,
               UNCHANGED <<outcome, file, call, chain>>
        PROVE  JudgedOK'
    <2> DEFINE n == Len(todo) - 1
    <2>1. n \in Nat /\ n # 0 /\ Len(todo') = n /\ \A i \in 1..n : todo'[i] = todo[i + 1]
      <3>1. Len(Tail(todo)) # 0
        BY <1>6, <1>9, EmptySeq
      <3> QED
        BY <1>2, <1>6, <1>9, <3>1
    <2>2. \A i \in 1..n : i + 1 \in 1..Len(todo)
      BY <2>1
    <2>3. n \in 1..n /\ n + 1 = Len(todo)
      BY <1>2, <2>1
    <2>4. todo'[n] = SelectedProfile
      BY <1>7, <2>1, <2>3
    <2>5. \A i \in 1..n : todo'[i] \in Names \cup {SelectedProfile}
      BY <1>7, <2>1, <2>2
    <2>6. ASSUME NEW q \in Names \cup {SelectedProfile}, ~Fine(q)
          PROVE  \E i \in 1..n : todo'[i] = q
      <3>1. PICK i \in 1..Len(todo) : todo[i] = q
        BY <1>7, <2>6
      <3>2. i # 1
        BY <1>4, <1>9, <2>6, <3>1
      <3>3. i - 1 \in 1..n /\ (i - 1) + 1 = i
        BY <1>2, <3>2
      <3> QED
        BY <2>1, <3>1, <3>3
    <2>7. Remaining'
      <3>1. /\ SelectedProfile' = SelectedProfile /\ SelectorsValid(file.selectors)'
            /\ \A q : Fine(q)' = Fine(q)
        BY <1>7, <1>9, SameFile
      <3> HIDE DEF n
      <3> QED
        BY <2>1, <2>4, <2>5, <2>6, <3>1 DEF Remaining
    <2>8. Len(chain') = 0 /\ call' = None /\ resolved' = None
      BY <1>1, <1>9
    <2>9. \A q \in 0..N : Climbs(q)'
      BY <2>8 DEF Climbs
    <2> QED
      BY <1>1, <1>9, <2>7, <2>9 DEF JudgedOK
  <1> QED
    BY <1>5, <1>8, <1>9 DEF Compile

LEMMA LoadJudged ==
    ASSUME ProfilesTypeOK, LoaderOK, JudgedOK, LoadStep
    PROVE  JudgedOK'
  BY ReadJudged, ResolveJudged, DescendJudged, ReturnJudged, CompileJudged DEF LoadStep

LEMMA SameJudged ==
    ASSUME UNCHANGED profilesVars, JudgedOK
    PROVE  JudgedOK'
  <1>1. /\ file' = file /\ todo' = todo /\ call' = call /\ chain' = chain
        /\ resolved' = resolved /\ outcome' = outcome
    BY DEF profilesVars
  <1>2. Sound' = Sound /\ Selected' = Selected
    BY <1>1, SameFile
  <1>3. Remaining' = Remaining
    BY <1>1, SameFile DEF Remaining
  <1>4. PICK r, n : r = resolved /\ n = Len(chain)
    OBVIOUS
  <1>5. \A p, k : Gathered(p, k, resolved)' = Gathered(p, k, resolved)
    <2>1. \A p, k : Gathered(p, k, resolved) = Gathered(p, k, r)
      BY <1>4
    <2>2. \A p, k : Gathered(p, k, resolved)' = Gathered(p, k, r)'
      BY <1>1, <1>4 DEF Gathered, LabelsFrom, PrefixesFrom, ListsFrom, Significant, Ignored, From
    <2> QED
      BY <1>1, <2>1, <2>2, SameFile
  <1>6. \A p : Gathered(p, Len(chain), resolved)' = Gathered(p, Len(chain), resolved)
    <2>1. \A p : Gathered(p, Len(chain), resolved) = Gathered(p, n, r)
      BY <1>4
    <2>2. \A p : Gathered(p, Len(chain), resolved)' = Gathered(p, n, r)'
      BY <1>1, <1>4 DEF Gathered, LabelsFrom, PrefixesFrom, ListsFrom, Significant, Ignored, From
    <2> QED
      BY <1>1, <2>1, <2>2, SameFile
  <1>7. \A p : Climbs(p)' = Climbs(p)
    <2>1. \A p : Ancestor(p)' = Ancestor(p) /\ Inherits(p)' = Inherits(p)
      BY <1>1, SameFile
    <2> QED
      BY <1>1, <1>6, <2>1 DEF Climbs
  <1> QED
    BY <1>1, <1>2, <1>3, <1>5, <1>7 DEF JudgedOK

-------------------------------------------------------------------------------
(* What the invariant gives.                                                *)

LEMMA SoundnessJudged ==
    ASSUME JudgedOK
    PROVE  LoadsWhatIsSound
  BY DEF JudgedOK, LoadsWhatIsSound

LEMMA SelectedIsProfile ==
    ASSUME file \in File, Unambiguous
    PROVE  Selected \in 0..N
  BY ValidIsUnambiguous, SelectedIsFound, SelectedType

(* What is loaded, and what it came from.                                   *)
LEMMA LoadedFacts ==
    ASSUME ProfilesTypeOK, JudgedOK, outcome = "valid", file # Absent, resolved \in Resolved
    PROVE  Selected \in 0..N /\ file \in File /\ Gathered(Selected, 0, resolved)
  <1>1. file \in File /\ Unambiguous
    BY DEF ProfilesTypeOK, JudgedOK, Sound
  <1>2. Selected \in 0..N
    BY <1>1, SelectedIsProfile
  <1> QED
    BY <1>1, <1>2 DEF JudgedOK

LEMMA NearestJudged ==
    ASSUME ProfilesTypeOK, JudgedOK, outcome = "valid" => resolved \in Resolved
    PROVE  NearestWins
  <1> SUFFICES ASSUME outcome = "valid", file # Absent
               PROVE  NearestWins
    BY DEF NearestWins
  <1>1. PICK p \in 0..N : p = Selected
    BY LoadedFacts
  <1>2. file \in File /\ Gathered(p, 0, resolved)
    BY <1>1, LoadedFacts
  <1> QED
    BY <1>1, <1>2, GatheredAll DEF NearestWins
===============================================================================
