------------------------------- MODULE Profiles --------------------------------
(***************************************************************************)
(* config.rs: how config.toml becomes the policy of one session.  The       *)
(* selectors are validated, every profile of the file is resolved through   *)
(* its extends chain and compiled, used or not, and then the one selected   *)
(* for the session, or the global tables, which stand here as profile 0.    *)
(*                                                                          *)
(* Of the tables: every scalar kind is treated alike, and so are the maps   *)
(* (prefixes stand for all) and the lists.  The entries of a resolved map   *)
(* are told by the profile they come from, those of a list are counted.     *)
(***************************************************************************)
EXTENDS PolicyModel

CONSTANTS
    N,             \* profiles in a file, named in their order
    Unknown,       \* a name of no profile
    Absent,        \* no file
    Session,       \* the session config.toml is loaded for
    CustomSocket,  \* its socket is not in Herdr's layout
    MaxMaxLength   \* MAX_MAX_LENGTH

ASSUME ProfilesConstants ==
    /\ N \in Nat /\ MaxMaxLength \in Nat /\ CustomSocket \in BOOLEAN
    /\ Unknown \notin 0..N /\ None \notin 0..N /\ Unknown # None

VARIABLES
    file,      \* config.toml
    todo,      \* the profiles left to resolve, or None before they are known
    call,      \* the argument of resolve_profile, while it descends
    chain,     \* the profiles it descended through
    resolved,  \* what it has resolved, while it returns, and the final result
    outcome    \* "loading", "valid" or "error"

profilesVars == <<file, todo, call, chain, resolved, outcome>>

Names  == 1..N
Global == 0

Labels == [maxLength: Nat \cup {None}, maxWidth: Nat \cup {None},
           format: Formats \cup {None}, separator: Text \cup {None}]

Profile  == [extends: Names \cup {Unknown, None}, labels: Labels,
             prefixes: SUBSET Candidates, significant: SUBSET Words, ignored: SUBSET Words]
Resolved == [labels: Labels, prefixes: [Candidates -> 0..N \cup {None}],
             significant: [Words -> Nat], ignored: [Words -> Nat]]

(* A selector names a session by one of three forms.                        *)
Selector == [form: {"identity", "identity_hex", "named_session"},
             session: STRING, profile: Names \cup {Unknown}]

(* The global tables extend nothing.                                        *)
File == [profiles: {ps \in [0..N -> Profile] : ps[Global].extends = None},
         selectors: Seq(Selector)]

NoLabels == [maxLength |-> None, maxWidth |-> None, format |-> None, separator |-> None]
Nothing  == [labels |-> NoLabels, prefixes |-> [c \in Candidates |-> None],
             significant |-> [w \in Words |-> 0], ignored |-> [w \in Words |-> 0]]

(* resolve_profile meets each profile once on its way up.                   *)
ProfilesTypeOK ==
    /\ file = Absent \/ file \in File
    /\ todo = None \/ todo \in Seq(0..N)
    /\ call \in 0..N \cup {None}
    /\ chain \in Seq(0..N) /\ IsInjective(chain)
    /\ resolved = None \/ resolved \in Resolved
    /\ outcome \in {"loading", "valid", "error"}

StartLoading ==
    todo = None /\ call = None /\ chain = <<>> /\ resolved = None /\ outcome = "loading"

ProfilesInit == StartLoading /\ (file = Absent \/ file \in File)

Reject == outcome' = "error" /\ UNCHANGED <<file, todo, call, chain, resolved>>

(* validate_selectors, and the selector selected_profile_name finds.        *)
(* A mistake to be caught (README, Mutants). *)
SelectorsValidByForm(selectors) ==
    \A i, j \in 1..Len(selectors) :
      /\ selectors[i].profile # Unknown
      /\ selectors[i].form = "named_session" => ~CustomSocket
      /\ i # j /\ selectors[i].form = selectors[j].form
           => selectors[i].session # selectors[j].session
SelectorsValid(selectors) ==
    \A i, j \in 1..Len(selectors) :
      /\ selectors[i].profile # Unknown
      /\ selectors[i].form = "named_session" => ~CustomSocket
      /\ i # j => selectors[i].session # selectors[j].session

SelectedProfile ==
    LET i == SelectInSeq(file.selectors, LAMBDA s : s.session = Session)
    IN  IF i = 0 THEN Global ELSE file.selectors[i].profile

(* parse_with_home, up to the loop over the profiles.                       *)
ReadFile ==
    /\ outcome = "loading" /\ todo = None
    /\ \/ /\ file = Absent
          /\ outcome' = "valid" /\ resolved' = Nothing
          /\ UNCHANGED <<file, todo, call, chain>>
       \/ file # Absent /\ ~SelectorsValid(file.selectors) /\ Reject
       \/ /\ file # Absent /\ SelectorsValid(file.selectors)
          /\ todo' = Append([p \in Names |-> p], SelectedProfile)
          /\ UNCHANGED <<file, call, chain, resolved, outcome>>

Resolve ==
    /\ outcome = "loading" /\ todo # None
    /\ call = None /\ chain = <<>> /\ resolved = None
    /\ call' = Head(todo)
    /\ UNCHANGED <<file, todo, chain, resolved, outcome>>

(* A profile as it stands.                                                  *)
Alone(p) ==
    LET profile == file.profiles[p]
    IN  [labels |-> profile.labels,
         prefixes |-> [c \in Candidates |-> IF c \in profile.prefixes THEN p ELSE None],
         significant |-> [w \in Words |-> IF w \in profile.significant THEN 1 ELSE 0],
         ignored |-> [w \in Words |-> IF w \in profile.ignored THEN 1 ELSE 0]]

(* resolve_profile before it calls itself.                                  *)
(* A mistake to be caught (README, Mutants). *)
StartsChain(p) == chain # <<>> /\ chain[1] = p
InChain(p) == Contains(chain, p)

Descend ==
    /\ outcome = "loading" /\ call # None
    /\ LET parent == file.profiles[call].extends
       IN  \/ (InChain(call) \/ parent = Unknown) /\ Reject
           \/ /\ ~InChain(call) /\ parent \in Names
              /\ chain' = Append(chain, call)
              /\ call' = parent
              /\ UNCHANGED <<file, todo, resolved, outcome>>
           \/ /\ ~InChain(call) /\ parent = None
              /\ resolved' = Alone(call)
              /\ call' = None
              /\ UNCHANGED <<file, todo, chain, outcome>>

(* merge_profiles: a scalar of the child wins, its list entries are added,  *)
(* a map key that an ancestor has is an error.                              *)
(* A mistake to be caught (README, Mutants). *)
ParentWins(parent, child) ==
    [labels |-> [s \in DOMAIN NoLabels |->
                   IF parent.labels[s] # None THEN parent.labels[s] ELSE child.labels[s]],
     prefixes |-> [c \in Candidates |->
                     IF child.prefixes[c] # None THEN child.prefixes[c] ELSE parent.prefixes[c]],
     significant |-> [w \in Words |-> parent.significant[w] + child.significant[w]],
     ignored |-> [w \in Words |-> parent.ignored[w] + child.ignored[w]]]
Merged(parent, child) ==
    [labels |-> [s \in DOMAIN NoLabels |->
                   IF child.labels[s] # None THEN child.labels[s] ELSE parent.labels[s]],
     prefixes |-> [c \in Candidates |->
                     IF child.prefixes[c] # None THEN child.prefixes[c] ELSE parent.prefixes[c]],
     significant |-> [w \in Words |-> parent.significant[w] + child.significant[w]],
     ignored |-> [w \in Words |-> parent.ignored[w] + child.ignored[w]]]

(* merge_map.                                                               *)
Conflict(parent, child) ==
    \E c \in Candidates : parent.prefixes[c] # None /\ child.prefixes[c] # None

(* resolve_profile after the call returned.                                 *)
Return ==
    /\ outcome = "loading" /\ resolved # None /\ chain # <<>>
    /\ LET child == Alone(Last(chain))
       IN  \/ Conflict(resolved, child) /\ Reject
           \/ /\ ~Conflict(resolved, child)
              /\ resolved' = Merged(resolved, child)
              /\ chain' = Front(chain)
              /\ UNCHANGED <<file, todo, call, outcome>>

(* compile_policy: what a resolved profile may contain.                     *)
Listed(list) == {w \in Words : list[w] > 0}

UniqueTokens(list) == \A w \in Words : list[w] <= 1

(* validate_prefixes.                                                       *)
PrefixesValid(r) ==
    \A c \in Candidates : r.prefixes[c] # None =>
      /\ c \in {<<w>> : w \in BuiltinSignificant \cup Listed(r.significant)} \cup Runners
      /\ c[1] \notin Listed(r.ignored)

Compiles(r) ==
    /\ r.labels.maxLength # None => r.labels.maxLength \in 1..MaxMaxLength
    /\ UniqueTokens(r.significant) /\ UniqueTokens(r.ignored)
    /\ Listed(r.significant) \cap (Listed(r.ignored) \cup BuiltinIgnored \cup BuiltinSignificant) = {}
    /\ PrefixesValid(r)

Compile ==
    /\ outcome = "loading" /\ resolved # None /\ chain = <<>>
    /\ \/ ~Compiles(resolved) /\ Reject
       \/ /\ Compiles(resolved)
          /\ todo' = Tail(todo)
          /\ IF Tail(todo) = <<>>
             THEN outcome' = "valid" /\ UNCHANGED resolved
             ELSE resolved' = None /\ UNCHANGED outcome
          /\ UNCHANGED <<file, call, chain>>

LoadStep == ReadFile \/ Resolve \/ Descend \/ Return \/ Compile
-------------------------------------------------------------------------------
(* What the documents promise of a file, told without the algorithm.        *)

(* The i-th ancestor of p, p itself being the 0-th.                         *)
Ancestor(p) ==
    LET up[i \in 0..N] ==
          IF i = 0 THEN p
          ELSE IF up[i - 1] \in 0..N THEN file.profiles[up[i - 1]].extends ELSE None
    IN  up

Line(p) == {i \in 0..N : Ancestor(p)[i] \in 0..N}
Elder(p, i) == file.profiles[Ancestor(p)[i]]

Significants(p) == UNION {Elder(p, i).significant : i \in Line(p)}
Ignoreds(p)     == UNION {Elder(p, i).ignored : i \in Line(p)}

(* The chain of p ends, in profiles the file has.                           *)
Inherits(p) == \A i \in 0..N : Ancestor(p)[i] # Unknown /\ (i = N => Ancestor(p)[i] \notin Names)

(* No two profiles of the chain say the same thing.                         *)
Disjoint(p) ==
    \A i, j \in Line(p) : i # j =>
      /\ Elder(p, i).prefixes \cap Elder(p, j).prefixes = {}
      /\ Elder(p, i).significant \cap Elder(p, j).significant = {}
      /\ Elder(p, i).ignored \cap Elder(p, j).ignored = {}

(* The value of a setting nearest to p in its chain.                        *)
Nearest(p, s) ==
    LET having == {i \in Line(p) : Elder(p, i).labels[s] # None}
    IN  IF having = {} THEN None
        ELSE Elder(p, CHOOSE i \in having : \A j \in having : i <= j).labels[s]

Consistent(p) ==
    /\ Nearest(p, "maxLength") \in 1..MaxMaxLength \cup {None}
    /\ Significants(p) \cap (Ignoreds(p) \cup BuiltinIgnored \cup BuiltinSignificant) = {}
    /\ \A i \in Line(p) : \A c \in Elder(p, i).prefixes :
         /\ c \in Runners \/ \E w \in BuiltinSignificant \cup Significants(p) : c = <<w>>
         /\ c[1] \notin Ignoreds(p)

Unambiguous ==
    /\ \A i, j \in 1..Len(file.selectors) :
         i # j => file.selectors[i].session # file.selectors[j].session
    /\ \A i \in 1..Len(file.selectors) :
         /\ file.selectors[i].profile # Unknown
         /\ CustomSocket => file.selectors[i].form # "named_session"

Used == {s.profile : s \in {t \in Range(file.selectors) : t.session = Session}}
Selected == IF Used = {} THEN Global ELSE CHOOSE p \in Used : TRUE

Sound ==
    file # Absent =>
      /\ Unambiguous
      /\ \A p \in Names \cup {Selected} : Inherits(p) /\ Disjoint(p) /\ Consistent(p)

(* A file loads exactly if no session is selected twice and every profile   *)
(* in it, used or not, has a chain that ends, of known profiles, that never *)
(* says a thing twice or against itself (README, Per-Session profiles:      *)
(* "duplicate map keys across inheritance are rejected rather than silently *)
(* shadowed", "Duplicate resolved selectors, unknown profiles, invalid      *)
(* inheritance, and cycles are errors").                                    *)
LoadsWhatIsSound ==
    /\ outcome = "valid" => Sound
    /\ outcome = "error" => ~Sound

(* What is loaded takes each setting from the nearest profile of the        *)
(* selected chain that has it, each map entry from the one that has it, and *)
(* the lists of all of them; nothing comes from elsewhere, the global       *)
(* tables included (README: a selected profile "does not inherit the global *)
(* policy", "Child scalar fields ... override their parent, command lists   *)
(* add entries").                                                           *)
NearestWins ==
    outcome = "valid" /\ file # Absent =>
      /\ \A s \in DOMAIN NoLabels : resolved.labels[s] = Nearest(Selected, s)
      /\ Listed(resolved.significant) = Significants(Selected)
      /\ Listed(resolved.ignored) = Ignoreds(Selected)
      /\ \A c \in Candidates, q \in 0..N :
           resolved.prefixes[c] = q
             <=> \E i \in Line(Selected) : Ancestor(Selected)[i] = q /\ c \in Elder(Selected, i).prefixes
================================================================================
