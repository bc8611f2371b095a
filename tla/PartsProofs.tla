---------------------------- MODULE PartsProofs ----------------------------
(***************************************************************************)
(* Theorems about the parts of MCParts: the grants (Grants), the service   *)
(* host (ServiceHost), the wrappers of the room's requests (RoomRequests), *)
(* backup and restore (SqliteTransfer), the REST client (RestClient), the  *)
(* files client (FilesClient) and the document that is edited              *)
(* (DocumentDeltas).  The last section carries them to the parts as        *)
(* MCParts puts them side by side.                                         *)
(***************************************************************************)
EXTENDS MCParts, SequenceTheorems, FiniteSetTheorems, TLAPS

-----------------------------------------------------------------------------
(***************************************************************************)
(* Theorems about Grants: for every set of names, every policy and every   *)
(* list of prefixes, whatever the length of the paths they are made of.    *)
(***************************************************************************)

Names == Segments \cup {Dots}

(* What the constants are: sets of paths, and a bound.                      *)
GrantPaths == /\ RulePaths \subseteq Seq(Names) /\ AskedPaths \subseteq Seq(Names)
              /\ MaxRules \in Nat

RuleOfPaths == [path : Seq(Names), recursive : BOOLEAN, actions : SUBSET FileAction,
                excluded : SUBSET Seq(Names)]

-----------------------------------------------------------------------------
(* The order of paths *)

(* what is at or beneath a path beneath mine is beneath mine *)
LEMMA Transitive ==
    ASSUME NEW c \in Seq(Names), NEW d \in Seq(Names), NEW e \in Seq(Names),
           AtOrBeneath(c, d), AtOrBeneath(d, e)
    PROVE  AtOrBeneath(c, e)
<1>1. CASE c = d \/ d = e
  BY <1>1
<1>2. CASE c = <<>>
  BY <1>2 DEF AtOrBeneath, Descendant
<1>3. CASE c # <<>> /\ c # d /\ d # e
  <2>1. /\ Len(c) < Len(d) /\ \A i \in 1..Len(c) : d[i] = c[i]
    BY <1>3 DEF AtOrBeneath, Descendant
  <2>2. d # <<>>
    <3>1. Len(c) \in Nat
      OBVIOUS
    <3> QED
      BY <2>1, <3>1
  <2>3. /\ Len(d) < Len(e) /\ \A i \in 1..Len(d) : e[i] = d[i]
    BY <1>3, <2>2 DEF AtOrBeneath, Descendant
  <2>4. Len(c) < Len(e)
    BY <2>1, <2>3
  <2>5. ASSUME NEW i \in 1..Len(c) PROVE e[i] = c[i]
    <3>1. i \in 1..Len(d)
      BY <2>1
    <3> QED
      BY <2>1, <2>3, <3>1
  <2> QED
    BY <2>4, <2>5 DEF AtOrBeneath, Descendant
<1> QED
  BY <1>1, <1>2, <1>3

(* two paths above a third are one above the other *)
LEMMA Comparable ==
    ASSUME NEW c \in Seq(Names), NEW d \in Seq(Names), NEW e \in Seq(Names),
           AtOrBeneath(c, e), AtOrBeneath(d, e)
    PROVE  AtOrBeneath(c, d) \/ AtOrBeneath(d, c)
<1>1. CASE c = e \/ d = e \/ c = <<>> \/ d = <<>>
  BY <1>1 DEF AtOrBeneath, Descendant
<1>2. CASE c # e /\ d # e /\ c # <<>> /\ d # <<>>
  <2>1. /\ Len(c) < Len(e) /\ \A i \in 1..Len(c) : e[i] = c[i]
        /\ Len(d) < Len(e) /\ \A i \in 1..Len(d) : e[i] = d[i]
    BY <1>2 DEF AtOrBeneath, Descendant
  <2>2. /\ Len(c) \in Nat /\ Len(d) \in Nat
    OBVIOUS
  <2>3. CASE Len(c) < Len(d)
    <3>1. ASSUME NEW i \in 1..Len(c) PROVE d[i] = c[i]
      BY <2>1, <2>2, <2>3
    <3> QED
      BY <2>3, <3>1 DEF AtOrBeneath, Descendant
  <2>4. CASE Len(d) < Len(c)
    <3>1. ASSUME NEW i \in 1..Len(d) PROVE c[i] = d[i]
      BY <2>1, <2>2, <2>4
    <3> QED
      BY <2>4, <3>1 DEF AtOrBeneath, Descendant
  <2>5. CASE Len(c) = Len(d)
    <3>1. ASSUME NEW i \in 1..Len(c) PROVE c[i] = d[i]
      BY <2>1, <2>5
    <3>2. c = d
      BY <2>5, <3>1, SeqEqual
    <3> QED
      BY <3>2 DEF AtOrBeneath
  <2> QED
    BY <2>2, <2>3, <2>4, <2>5
<1> QED
  BY <1>1, <1>2

(* an exclusion is at or above the path, or within the asked subtree *)
LEMMA ExcludesMeans ==
    ASSUME NEW e, NEW p, NEW subtree \in BOOLEAN
    PROVE  Excludes(e, p, subtree) <=> (AtOrBeneath(e, p) \/ (subtree /\ Descendant(p, e)))
  BY DEF Excludes, AtOrBeneath

-----------------------------------------------------------------------------
(* The rules there are *)

(* The grant holds rules and prefixes of the right kind, within the bound,  *)
(* whatever is added to it.                                                 *)
THEOREM GrantsTypeCorrect ==
    ASSUME GrantPaths
    PROVE  Spec => []TypeOK
<1>1. Init => TypeOK
  <2>1. /\ Len(<<>>) = 0 /\ <<>> \in Seq(Rule) /\ <<>> \in Seq(Prefix)
    OBVIOUS
  <2> QED
    BY <2>1 DEF Init, TypeOK, GrantPaths
<1>2. TypeOK /\ [Next]_vars => TypeOK'
  <2> SUFFICES ASSUME TypeOK, [Next]_vars PROVE TypeOK'
    OBVIOUS
  <2>1. ASSUME NEW rule \in Rule, AddRule(rule) PROVE TypeOK'
    <3>1. Append(rules, rule) \in Seq(Rule) /\ Len(Append(rules, rule)) = Len(rules) + 1
      BY DEF TypeOK
    <3> QED
      BY <2>1, <3>1 DEF AddRule, TypeOK, GrantPaths
  <2>2. ASSUME NEW prefix \in Prefix, AddPrefix(prefix) PROVE TypeOK'
    <3>1. /\ Append(prefixes, prefix) \in Seq(Prefix)
          /\ Len(Append(prefixes, prefix)) = Len(prefixes) + 1
      BY DEF TypeOK
    <3> QED
      BY <2>2, <3>1 DEF AddPrefix, TypeOK, GrantPaths
  <2>3. CASE UNCHANGED vars
    BY <2>3 DEF vars, TypeOK
  <2> QED
    BY <2>1, <2>2, <2>3 DEF Next
<1> QED
  BY <1>1, <1>2, PTL DEF Spec

(* the policy that is asked is made of rules of paths *)
LEMMA PolicyOfRules ==
    ASSUME GrantPaths, RuleActions \subseteq SUBSET FileAction, TypeOK
    PROVE  Policy \subseteq RuleOfPaths
<1>1. Rule \subseteq RuleOfPaths
  BY DEF Rule, RuleOfPaths, GrantPaths
<1>2. ASSUME NEW i \in 1..Len(rules) PROVE rules[i] \in RuleOfPaths
  BY <1>1 DEF TypeOK
<1>3. ASSUME NEW i \in 1..Len(prefixes) PROVE LegacyRule(i) \in RuleOfPaths
  <2>1. /\ prefixes[i].path \in Seq(Names)
        /\ \A k \in 1..(i - 1) : prefixes[k].path \in Seq(Names)
    <3>1. ASSUME NEW k \in 1..Len(prefixes) PROVE prefixes[k].path \in Seq(Names)
      <4>1. prefixes[k] \in Prefix
        BY DEF TypeOK
      <4> QED
        BY <4>1 DEF Prefix, GrantPaths
    <3>2. \A k \in 1..(i - 1) : k \in 1..Len(prefixes)
      OBVIOUS
    <3> QED
      BY <3>1, <3>2
  <2>2. {prefixes[k].path : k \in 1..(i - 1)} \subseteq Seq(Names)
    BY <2>1
  <2>3. /\ StorageReadActions \subseteq FileAction /\ StorageWriteActions \subseteq FileAction
    BY DEF StorageReadActions, StorageWriteActions, FileAction
  <2> QED
    BY <2>1, <2>2, <2>3 DEF LegacyRule, RuleOfPaths
<1>4. [path |-> <<>>, recursive |-> TRUE, actions |-> StorageWriteActions,
       excluded |-> {}] \in RuleOfPaths
  BY DEF RuleOfPaths, StorageWriteActions, FileAction
<1> QED
  BY <1>2, <1>3, <1>4 DEF Policy, LegacyRules

(* the validators of a rule: what a policy names is canonical *)
RulesCanonical == \A i \in 1..Len(rules) : Canonical(rules[i].path)

LEMMA RulesStayCanonical ==
    ASSUME GrantPaths
    PROVE  Spec => []RulesCanonical
<1>1. Init => RulesCanonical
  BY DEF Init, RulesCanonical
<1>2. TypeOK /\ RulesCanonical /\ [Next]_vars => RulesCanonical'
  <2> SUFFICES ASSUME TypeOK, RulesCanonical, [Next]_vars PROVE RulesCanonical'
    OBVIOUS
  <2>1. ASSUME NEW rule \in Rule, AddRule(rule) PROVE RulesCanonical'
    <3>1. /\ rules' = Append(rules, rule) /\ rules \in Seq(Rule) /\ Canonical(rule.path)
      BY <2>1 DEF AddRule, TypeOK
    <3>2. ASSUME NEW i \in 1..Len(rules') PROVE Canonical(rules'[i].path)
      <4>1. CASE i \in 1..Len(rules)
        BY <3>1, <4>1 DEF RulesCanonical
      <4>2. CASE i = Len(rules) + 1
        BY <3>1, <4>2
      <4> QED
        BY <3>1, <4>1, <4>2
    <3> QED
      BY <3>2 DEF RulesCanonical, Canonical
  <2>2. ASSUME NEW prefix \in Prefix, AddPrefix(prefix) PROVE RulesCanonical'
    BY <2>2 DEF AddPrefix, RulesCanonical, Canonical
  <2>3. CASE UNCHANGED vars
    BY <2>3 DEF vars, RulesCanonical, Canonical
  <2> QED
    BY <2>1, <2>2, <2>3 DEF Next
<1> QED
  BY <1>1, <1>2, GrantsTypeCorrect, PTL DEF Spec

(* a rule that is asked names a path the module knows, a canonical one *)
LEMMA PolicyPaths ==
    ASSUME TypeOK, RulesCanonical, PolicyBuilds, NEW rule \in Policy
    PROVE  rule.path \in RulePaths \cup {<<>>} /\ Canonical(rule.path)
<1>1. CASE files
  <2>1. PICK i \in 1..Len(rules) : rule = rules[i]
    BY <1>1 DEF Policy
  <2>2. rules[i] \in Rule
    BY DEF TypeOK
  <2> QED
    BY <2>1, <2>2 DEF RulesCanonical, Rule
<1>2. CASE ~files /\ listed
  <2>1. PICK i \in 1..Len(prefixes) : rule = LegacyRule(i)
    BY <1>2 DEF Policy, LegacyRules
  <2>2. prefixes[i] \in Prefix
    BY DEF TypeOK
  <2>3. Canonical(rule.path)
    BY <1>2 DEF Policy, PolicyBuilds
  <2> QED
    BY <2>1, <2>2, <2>3 DEF LegacyRule, Prefix
<1>3. CASE ~files /\ ~listed
  <2>1. rule.path = <<>>
    BY <1>3 DEF Policy, LegacyRules
  <2> QED
    BY <2>1 DEF Canonical
<1> QED
  BY <1>1, <1>2, <1>3

-----------------------------------------------------------------------------
(* What a rule allows *)

(* a rule that allows the subtree allows every path of it *)
LEMMA RuleSubtree ==
    ASSUME NEW rule \in RuleOfPaths, NEW action, NEW p \in Seq(Names),
           NEW q \in Seq(Names), RuleAllows(rule, action, p, TRUE), AtOrBeneath(p, q)
    PROVE  RuleAllows(rule, action, q, FALSE)
<1>1. rule.path \in Seq(Names) /\ rule.excluded \subseteq Seq(Names)
  BY DEF RuleOfPaths
<1>2. action \in rule.actions /\ rule.recursive /\ AtOrBeneath(rule.path, p)
  BY DEF RuleAllows, AtOrBeneath
<1>3. AtOrBeneath(rule.path, q)
  BY <1>1, <1>2, Transitive
<1>4. ASSUME NEW e \in rule.excluded PROVE ~Excludes(e, q, FALSE)
  <2>1. e \in Seq(Names)
    BY <1>1
  <2>2. ~AtOrBeneath(e, p) /\ ~Descendant(p, e)
    BY ExcludesMeans DEF RuleAllows
  <2>3. e # p /\ ~AtOrBeneath(p, e)
    BY <2>2 DEF AtOrBeneath
  <2>4. ~AtOrBeneath(e, q)
    BY <2>1, <2>2, <2>3, Comparable
  <2> QED
    BY <2>4, ExcludesMeans
<1> QED
  BY <1>2, <1>3, <1>4 DEF RuleAllows, AtOrBeneath

(* a rule that lets something beneath a directory be listed lets either the *)
(* directory or the rule's own path, which is in the directory, be listed   *)
LEMMA RuleWayIn ==
    ASSUME NEW rule \in RuleOfPaths, NEW p \in Seq(Names), NEW q \in Seq(Names),
           RuleAllows(rule, "list", q, FALSE), AtOrBeneath(p, q)
    PROVE  \/ RuleAllows(rule, "list", p, FALSE)
           \/ /\ RuleAllows(rule, "list", rule.path, FALSE)
              /\ Descendant(p, rule.path)
<1> DEFINE r == rule.path
<1>1. r \in Seq(Names) /\ rule.excluded \subseteq Seq(Names)
  BY DEF RuleOfPaths
<1>2. "list" \in rule.actions /\ AtOrBeneath(r, q)
  BY DEF RuleAllows, AtOrBeneath
<1>3. ASSUME NEW d \in Seq(Names), AtOrBeneath(d, q), NEW e \in rule.excluded
      PROVE  ~Excludes(e, d, FALSE)
  <2>1. e \in Seq(Names)
    BY <1>1
  <2>2. ~AtOrBeneath(e, q)
    BY ExcludesMeans DEF RuleAllows
  <2>3. ~AtOrBeneath(e, d)
    BY <1>3, <2>1, <2>2, Transitive
  <2> QED
    BY <2>3, ExcludesMeans
<1>4. CASE AtOrBeneath(p, r) /\ p # r
  <2>1. RuleAllows(rule, "list", r, FALSE)
    BY <1>1, <1>2, <1>3 DEF RuleAllows
  <2> QED
    BY <1>4, <2>1 DEF AtOrBeneath
<1>5. CASE p = r
  <2>1. RuleAllows(rule, "list", p, FALSE)
    BY <1>1, <1>2, <1>3, <1>5 DEF RuleAllows
  <2> QED
    BY <2>1
<1>6. CASE AtOrBeneath(r, p) /\ p # r /\ ~AtOrBeneath(p, r)
  <2>1. q # r
    BY <1>6
  <2>2. rule.recursive
    BY <2>1 DEF RuleAllows
  <2>3. RuleAllows(rule, "list", p, FALSE)
    BY <1>2, <1>3, <1>6, <2>2 DEF RuleAllows, AtOrBeneath
  <2> QED
    BY <2>3
<1> QED
  BY <1>1, <1>2, <1>4, <1>5, <1>6, Comparable

-----------------------------------------------------------------------------
(* What the grant promises *)

(* Whatever rules and prefixes are written, what is allowed on a subtree is *)
(* allowed on each path in it.                                              *)
THEOREM SubtreesAreWhole ==
    ASSUME GrantPaths, RuleActions \subseteq SUBSET FileAction
    PROVE  Spec => []SubtreeMeansAll
<1>1. TypeOK => SubtreeMeansAll
  <2> SUFFICES ASSUME TypeOK,
                      NEW action \in FileAction, NEW path \in AskedPaths,
                      Allows(action, path, TRUE), NEW inside \in AskedPaths,
                      AtOrBeneath(path, inside), Canonical(inside)
               PROVE  Allows(action, inside, FALSE)
    BY DEF SubtreeMeansAll
  <2>1. PICK rule \in Policy : RuleAllows(rule, action, path, TRUE)
    BY DEF Allows
  <2>2. rule \in RuleOfPaths /\ path \in Seq(Names) /\ inside \in Seq(Names)
    BY PolicyOfRules DEF GrantPaths
  <2>3. RuleAllows(rule, action, inside, FALSE)
    BY <2>1, <2>2, RuleSubtree
  <2> QED
    BY <2>3 DEF Allows
<1> QED
  BY <1>1, GrantsTypeCorrect, PTL

(* Whatever rules and prefixes are written, a directory can be listed just  *)
(* when something at or beneath it can be.                                  *)
THEOREM ListingIsReachable ==
    ASSUME GrantPaths, RuleActions \subseteq SUBSET FileAction,
           <<>> \in AskedPaths \cup RulePaths
    PROVE  Spec => []ListingReachable
<1>1. TypeOK /\ RulesCanonical => ListingReachable
  <2> SUFFICES ASSUME TypeOK, RulesCanonical, NEW path \in AskedPaths
               PROVE  CanListDirectory(path) <=>
                        /\ Canonical(path)
                        /\ \E inside \in AskedPaths \cup RulePaths :
                              AtOrBeneath(path, inside) /\ Allows("list", inside, FALSE)
    BY DEF ListingReachable
  <2>1. ASSUME Canonical(path), NEW inside \in AskedPaths \cup RulePaths,
               AtOrBeneath(path, inside), Allows("list", inside, FALSE)
        PROVE  CanListDirectory(path)
    <3>1. PICK rule \in Policy : RuleAllows(rule, "list", inside, FALSE)
      BY <2>1 DEF Allows
    <3>2. rule \in RuleOfPaths /\ path \in Seq(Names) /\ inside \in Seq(Names)
      BY PolicyOfRules DEF GrantPaths
    <3>3. \/ RuleAllows(rule, "list", path, FALSE)
          \/ RuleAllows(rule, "list", rule.path, FALSE) /\ Descendant(path, rule.path)
      BY <2>1, <3>1, <3>2, RuleWayIn
    <3> QED
      BY <2>1, <3>3 DEF Allows, CanListDirectory
  <2>2. ASSUME Allows("list", path, FALSE)
        PROVE  /\ Canonical(path)
               /\ \E inside \in AskedPaths \cup RulePaths :
                     AtOrBeneath(path, inside) /\ Allows("list", inside, FALSE)
    <3>1. AtOrBeneath(path, path)
      BY DEF AtOrBeneath
    <3> QED
      BY <2>2, <3>1 DEF Allows
  <2>3. ASSUME PolicyBuilds, Canonical(path), NEW rule \in Policy,
               RuleAllows(rule, "list", rule.path, FALSE), Descendant(path, rule.path)
        PROVE  \E inside \in AskedPaths \cup RulePaths :
                   AtOrBeneath(path, inside) /\ Allows("list", inside, FALSE)
    <3>1. rule.path \in AskedPaths \cup RulePaths /\ Canonical(rule.path)
      BY <2>3, PolicyPaths
    <3>2. Allows("list", rule.path, FALSE)
      BY <2>3, <3>1 DEF Allows
    <3> QED
      BY <2>3, <3>1, <3>2 DEF AtOrBeneath
  <2> QED
    BY <2>1, <2>2, <2>3 DEF CanListDirectory
<1> QED
  BY <1>1, GrantsTypeCorrect, RulesStayCanonical, PTL

(* In a list of prefixes the first one at or above a path decides, for      *)
(* every list and every path.                                               *)
THEOREM FirstPrefixWins == Spec => []FirstPrefixDecides
<1>1. FirstPrefixDecides
  <2> SUFFICES ASSUME listed, ~files,
                      NEW action \in FileAction, NEW path \in AskedPaths,
                      Allows(action, path, FALSE)
               PROVE  \E i \in 1..Len(prefixes) :
                          /\ AtOrBeneath(prefixes[i].path, path)
                          /\ \A k \in 1..(i - 1) : ~AtOrBeneath(prefixes[k].path, path)
                          /\ action \in LegacyRule(i).actions
    BY DEF FirstPrefixDecides
  <2>1. PICK i \in 1..Len(prefixes) : RuleAllows(LegacyRule(i), action, path, FALSE)
    BY DEF Allows, Policy, LegacyRules
  <2>2. /\ LegacyRule(i).path = prefixes[i].path
        /\ LegacyRule(i).excluded = {prefixes[k].path : k \in 1..(i - 1)}
    BY DEF LegacyRule
  <2>3. AtOrBeneath(prefixes[i].path, path) /\ action \in LegacyRule(i).actions
    BY <2>1, <2>2 DEF RuleAllows, AtOrBeneath
  <2>4. ASSUME NEW k \in 1..(i - 1) PROVE ~AtOrBeneath(prefixes[k].path, path)
    <3>1. prefixes[k].path \in LegacyRule(i).excluded
      BY <2>2
    <3> QED
      BY <2>1, <3>1, ExcludesMeans DEF RuleAllows
  <2> QED
    BY <2>3, <2>4
<1> QED
  BY <1>1, PTL

-----------------------------------------------------------------------------
(***************************************************************************)
(* Theorems about ServiceHost, for any calls and any paths.                *)
(***************************************************************************)

HostCall ==
    [kind : {"none", "posted", "carried"}, path : Paths \cup {"none"},
     told : BOOLEAN, late : BOOLEAN, old : BOOLEAN,
     run : {"none", "received", "refused", "joining", "inside", "leaving", "left", "failed"},
     agent : {"none", "starting", "running", "stopping", "stopped", "failed", "abandoned"},
     open : BOOLEAN, dismissed : BOOLEAN]

Active(c) == calls[c].run \in {"joining", "inside", "leaving"}

(* TypeOK, and what the calls and the lists of the paths are *)
HostTypes ==
    /\ Host!TypeOK
    /\ calls \in [Calls -> HostCall]
    /\ awaited \in [Paths -> SUBSET Calls]

(* A call that came has a path and one of the two kinds *)
CallsHavePaths ==
    \A c \in Calls : calls[c].run # "none" =>
        calls[c].path \in Paths /\ calls[c].kind \in {"posted", "carried"}

(* Who comes to a path that has stopped is told so *)
StoppedPathsTell ==
    \A c \in Calls : calls[c].run = "received" /\ calls[c].path \in done => calls[c].told

(* A path that has stopped waits for every task of it, but the late ones and those
   of an earlier start *)
StoppedPathsWait ==
    \A c \in Calls :
        calls[c].kind = "posted" /\ Active(c) /\ calls[c].path \in done
            => c \in awaited[calls[c].path] \/ calls[c].late \/ calls[c].old

(* After stop() nothing of this start is left to be answered, nor answered in time *)
NothingLeft ==
    host = "off" /\ ~served =>
        \A c \in Calls : /\ calls[c].run = "received" => calls[c].old
                         /\ Active(c) => calls[c].late \/ calls[c].old

(* Between start() and the closing of the port there is an application *)
ServedWhileUp == host \in {"starting", "up", "closing"} => served

HostInv ==
    /\ HostTypes /\ ServedWhileUp /\ CallsHavePaths
    /\ StoppedPathsTell /\ StoppedPathsWait /\ NothingLeft

-----------------------------------------------------------------------------
(* The states the host starts in *)
LEMMA HostInitHolds == Host!Init => HostInv
<1> SUFFICES ASSUME Host!Init PROVE HostInv
  OBVIOUS
<1>1. Host!NoCall \in HostCall
  BY DEF Host!NoCall, HostCall
<1>2. \A c \in Calls : calls[c] = Host!NoCall
  BY DEF Host!Init
<1>3. \A c \in Calls : calls[c].run = "none"
  BY <1>2 DEF Host!NoCall
<1>4. HostTypes
  BY <1>1, <1>3 DEF Host!Init, HostTypes, Host!TypeOK
<1> QED
  BY <1>3, <1>4 DEF Host!Init, HostInv, ServedWhileUp, CallsHavePaths, StoppedPathsTell,
                    StoppedPathsWait, NothingLeft, Active

(* A new start: what has come before is of an earlier one *)
LEMMA StartMoves ==
    ASSUME HostInv, Host!Start
    PROVE  HostInv'
<1>0. ASSUME NEW r \in HostCall
      PROVE  LET old == [r EXCEPT !.old = TRUE]
             IN  old \in HostCall /\ old.run = r.run /\ old.kind = r.kind /\ old.path = r.path
  BY DEF HostCall
<1>1. /\ calls \in [Calls -> HostCall]
      /\ calls' = [c \in Calls |->
             IF Host!Runs(c, "none") THEN calls[c] ELSE [calls[c] EXCEPT !.old = TRUE]]
      /\ host' = "starting" /\ served' = TRUE /\ done' = {}
      /\ awaited' = [p \in Paths |-> {}]
  BY DEF HostInv, HostTypes, Host!Start
<1>2. ASSUME NEW c \in Calls
      PROVE  /\ calls'[c] \in HostCall /\ calls'[c].run = calls[c].run
             /\ calls'[c].kind = calls[c].kind /\ calls'[c].path = calls[c].path
  BY <1>0, <1>1
<1>3. calls' \in [Calls -> HostCall]
  BY <1>1, <1>2
<1>4. HostTypes'
  BY <1>1, <1>3 DEF HostTypes, Host!TypeOK, HostCall
<1> QED
  BY <1>1, <1>2, <1>4
     DEF HostInv, ServedWhileUp, CallsHavePaths, StoppedPathsTell, StoppedPathsWait, NothingLeft

(* Steps of the host that leave the calls alone *)
LEMMA HostSteps ==
    ASSUME HostInv, Host!Started \/ Host!StartFails \/ Host!Stop \/ Host!PortClosed
                    \/ \E p \in Paths : Host!StopRaises(p)
    PROVE  HostInv'
<1> USE DEF HostInv, HostTypes, Host!TypeOK, HostCall, CallsHavePaths, StoppedPathsTell,
            StoppedPathsWait, NothingLeft, ServedWhileUp, Active
<1>1. CASE Host!Started
  BY <1>1 DEF Host!Started
<1>2. CASE Host!StartFails
  BY <1>2 DEF Host!StartFails
<1>3. CASE Host!Stop
  BY <1>3 DEF Host!Stop
<1>4. CASE Host!PortClosed
  BY <1>4 DEF Host!PortClosed
<1>5. ASSUME NEW p \in Paths, Host!StopRaises(p) PROVE HostInv'
  BY <1>5 DEF Host!StopRaises
<1> QED
  BY <1>1, <1>2, <1>3, <1>4, <1>5

(* The stop of a path: those it does not wait for yet are not answered *)
LEMMA PathMoves ==
    ASSUME HostInv, NEW p \in Paths, Host!PathStops(p)
    PROVE  HostInv'
<1>0. ASSUME NEW r \in HostCall
      PROVE  LET told == [r EXCEPT !.told = TRUE]
             IN  /\ told \in HostCall /\ told.run = r.run /\ told.kind = r.kind
                 /\ told.path = r.path /\ told.late = r.late /\ told.old = r.old /\ told.told
  BY DEF HostCall
<1>a. /\ calls \in [Calls -> HostCall]
      /\ calls' = [c \in Calls |->
             IF calls[c].path = p THEN [calls[c] EXCEPT !.told = TRUE] ELSE calls[c]]
  BY DEF HostInv, HostTypes, Host!PathStops
<1>b. ASSUME NEW c \in Calls
      PROVE  /\ calls'[c] \in HostCall
             /\ calls'[c].run = calls[c].run /\ calls'[c].kind = calls[c].kind
             /\ calls'[c].path = calls[c].path /\ calls'[c].late = calls[c].late
             /\ calls'[c].old = calls[c].old
             /\ calls[c].told => calls'[c].told
             /\ calls[c].path = p => calls'[c].told
  BY <1>0, <1>a
<1>1. calls' \in [Calls -> HostCall]
  BY <1>a, <1>b
<1> USE DEF HostInv, HostTypes, Host!TypeOK, HostCall, ServedWhileUp, CallsHavePaths,
            StoppedPathsTell, StoppedPathsWait, NothingLeft, Active, Host!PathStops
<1>2. awaited' \in [Paths -> SUBSET Calls]
  BY DEF Host!Awaited, Host!TasksOf
<1>3. ASSUME NEW c \in Calls
      PROVE  /\ calls'[c].run = calls[c].run /\ calls'[c].kind = calls[c].kind
             /\ calls'[c].path = calls[c].path /\ calls'[c].late = calls[c].late
             /\ calls'[c].old = calls[c].old
             /\ calls[c].told => calls'[c].told
             /\ calls[c].path = p => calls'[c].told
  BY <1>b
<1>4. HostTypes'
  BY <1>1, <1>2
<1>5. StoppedPathsWait'
  <2> SUFFICES ASSUME NEW c \in Calls, calls[c].kind = "posted", Active(c),
                      calls[c].path \in done \cup {p}
               PROVE  c \in awaited'[calls[c].path] \/ calls[c].late \/ calls[c].old
    BY <1>3
  <2>1. CASE calls[c].path = p
    BY <2>1 DEF Host!Awaited, Host!TasksOf
  <2>2. CASE calls[c].path # p
    <3>1. calls[c].path \in Paths
      OBVIOUS
    <3> QED
      BY <2>2, <3>1
  <2> QED
    BY <2>1, <2>2
<1>6. StoppedPathsTell' /\ CallsHavePaths' /\ NothingLeft'
  BY <1>3
<1> QED
  BY <1>4, <1>5, <1>6

(* The end of stop(): who was waited for has left, the handlers are ended *)
LEMMA StoppedMoves ==
    ASSUME HostInv, Host!Stopped
    PROVE  HostInv'
<1>0. ASSUME NEW r \in HostCall
      PROVE  /\ Host!HandlerCancelled(r) \in HostCall
             /\ Host!HandlerCancelled(r).kind = r.kind /\ Host!HandlerCancelled(r).path = r.path
             /\ Host!HandlerCancelled(r).late = r.late /\ Host!HandlerCancelled(r).told = r.told
             /\ Host!HandlerCancelled(r).old = r.old
             /\ Host!HandlerCancelled(r).run \in {"refused", "left"}
  <2> DEFINE agent == IF r.agent \in {"starting", "running", "stopping"}
                      THEN "abandoned" ELSE r.agent
             run == IF r.run = "received" THEN "refused" ELSE "left"
  <2>1. Host!HandlerCancelled(r) = [r EXCEPT !.run = run, !.agent = agent, !.open = FALSE]
    BY DEF Host!HandlerCancelled
  <2>2. agent \in {"none", "starting", "running", "stopping", "stopped", "failed", "abandoned"}
        /\ run \in {"refused", "left"}
    BY DEF HostCall
  <2> HIDE DEF agent, run
  <2> QED
    <3>1. Host!HandlerCancelled(r) \in HostCall
      BY <2>1, <2>2 DEF HostCall
    <3>2. DOMAIN r = {"kind", "path", "told", "late", "old", "run", "agent", "open", "dismissed"}
      BY DEF HostCall
    <3>3. /\ Host!HandlerCancelled(r).kind = r.kind /\ Host!HandlerCancelled(r).path = r.path
          /\ Host!HandlerCancelled(r).late = r.late /\ Host!HandlerCancelled(r).told = r.told
          /\ Host!HandlerCancelled(r).old = r.old
      BY <2>1, <3>2
    <3>4. Host!HandlerCancelled(r).run = run
      BY <2>1, <3>2
    <3> QED
      BY <2>2, <3>1, <3>3, <3>4
<1>a. /\ calls \in [Calls -> HostCall]
      /\ calls' = [c \in Calls |->
             IF Host!Handled(c) THEN Host!HandlerCancelled(calls[c]) ELSE calls[c]]
  BY DEF HostInv, HostTypes, Host!Stopped
<1>1. ASSUME NEW c \in Calls
      PROVE  calls'[c] \in HostCall
  BY <1>0, <1>a
<1>b. ASSUME NEW c \in Calls
      PROVE  /\ calls'[c].kind = calls[c].kind /\ calls'[c].path = calls[c].path
             /\ calls'[c].late = calls[c].late /\ calls'[c].told = calls[c].told
             /\ calls'[c].old = calls[c].old
             /\ Host!Handled(c) => calls'[c].run \in {"refused", "left"}
             /\ ~Host!Handled(c) => calls'[c] = calls[c]
             /\ calls[c].run = "none" => ~Host!Handled(c)
  BY <1>0, <1>a DEF Host!Handled
<1>c. calls' \in [Calls -> HostCall]
  BY <1>a, <1>1
<1> USE DEF HostInv, HostTypes, Host!TypeOK, HostCall, ServedWhileUp, CallsHavePaths,
            StoppedPathsTell, StoppedPathsWait, NothingLeft, Active, Host!Stopped
<1>2. ASSUME NEW c \in Calls
      PROVE  /\ calls'[c].kind = calls[c].kind /\ calls'[c].path = calls[c].path
             /\ calls'[c].late = calls[c].late /\ calls'[c].told = calls[c].told
             /\ calls'[c].old = calls[c].old
             /\ calls'[c].run \in {calls[c].run, "refused", "left"}
             /\ Host!Handled(c) => calls'[c].run \in {"refused", "left"}
             /\ ~Host!Handled(c) => calls'[c] = calls[c]
             /\ calls[c].run = "none" => calls'[c].run = "none"
  BY <1>b
<1>3. HostTypes'
  BY <1>c
<1>4. CallsHavePaths' /\ StoppedPathsTell' /\ StoppedPathsWait'
  BY <1>2
<1>5. ASSUME NEW c \in Calls
      PROVE  /\ calls'[c].run = "received" => calls'[c].old
             /\ Active(c)' => calls'[c].late \/ calls'[c].old
  <2>1. CASE Host!Handled(c)
    BY <1>2, <2>1
  <2>2. CASE ~Host!Handled(c) /\ Active(c) /\ ~calls[c].old
    <3>1. calls[c].kind = "posted" /\ calls[c].path \in Paths
      BY <2>2 DEF Host!Handled
    <3>2. c \notin awaited[calls[c].path]
      BY <2>2, <3>1 DEF Host!Runs
    <3> QED
      BY <1>2, <2>2, <3>1, <3>2
  <2>3. CASE ~Host!Handled(c) /\ ~Active(c) /\ ~calls[c].old
    BY <1>2, <2>3 DEF Host!Handled
  <2>4. CASE calls[c].old
    BY <1>2, <2>4
  <2> QED
    BY <2>1, <2>2, <2>3, <2>4
<1> QED
  BY <1>3, <1>4, <1>5

-----------------------------------------------------------------------------
(* Steps of a call.  Most leave alone what it is, and do not answer it.    *)
LEMMA CallGoesOn ==
    ASSUME HostInv, NEW c \in Calls,
           UNCHANGED <<host, served, done, awaited>>,
           NEW r \in HostCall, calls' = [calls EXCEPT ![c] = r],
           r.kind = calls[c].kind, r.path = calls[c].path, r.late = calls[c].late,
           r.told = calls[c].told, r.old = calls[c].old,
           r.run = calls[c].run
             \/ (calls[c].run # "none" /\ r.run \in {"refused", "left", "failed"})
             \/ (Active(c) /\ r.run \in {"joining", "inside", "leaving"})
    PROVE  HostInv'
<1> USE DEF HostInv, HostTypes, Host!TypeOK, ServedWhileUp, CallsHavePaths,
            StoppedPathsTell, StoppedPathsWait, NothingLeft, Active
<1>1. calls' \in [Calls -> HostCall]
  OBVIOUS
<1>2. HostTypes'
  BY <1>1 DEF HostCall
<1>3. ASSUME NEW d \in Calls
      PROVE  /\ calls'[d].kind = calls[d].kind /\ calls'[d].path = calls[d].path
             /\ calls'[d].late = calls[d].late /\ calls'[d].told = calls[d].told
             /\ calls'[d].old = calls[d].old
             /\ Active(d)' => Active(d)
             /\ calls[d].run = "none" => calls'[d].run = "none"
             /\ calls'[d].run = "received" => calls[d].run = "received"
  OBVIOUS
<1> QED
  BY <1>2, <1>3

(* A call that comes is told of the stop of its path *)
LEMMA CallComes ==
    ASSUME HostInv, NEW c \in Calls, NEW p \in Paths, NEW r \in HostCall,
           r.kind \in {"posted", "carried"}, r.path = p, r.run = "received",
           p \in done => r.told,
           host = "off" => r.old,
           calls' = [calls EXCEPT ![c] = r], UNCHANGED <<host, served, done, awaited>>
    PROVE  HostInv'
<1>1. calls' \in [Calls -> HostCall]
  BY DEF HostInv, HostTypes
<1>2. ASSUME NEW d \in Calls PROVE calls'[d] = IF d = c THEN r ELSE calls[d]
  BY DEF HostInv, HostTypes
<1>3. HostTypes'
  BY <1>1 DEF HostInv, HostTypes, Host!TypeOK, HostCall
<1> QED
  BY <1>1, <1>2, <1>3
     DEF HostInv, ServedWhileUp, CallsHavePaths, StoppedPathsTell, StoppedPathsWait,
         NothingLeft, Active

LEMMA CallMoves ==
    ASSUME HostInv, NEW c \in Calls, Host!CallNext(c)
    PROVE  HostInv'
<1>0. calls[c] \in HostCall
  BY DEF HostInv, HostTypes
<1>1. ASSUME NEW p \in Paths, NEW sort \in {"posted", "carried"}, Host!Receive(c, p, sort)
      PROVE  HostInv'
  <2>1. UNCHANGED <<host, served, done, awaited>>
    BY <1>1, Zenon DEF Host!Receive
  <2>2. CASE /\ host \in {"up", "closing", "stopping", "broken"}
             /\ calls' = [calls EXCEPT ![c] = [Host!NoCall EXCEPT
                    !.kind = sort, !.path = p, !.told = p \in done, !.run = "received"]]
    <3>1. PICK told \in BOOLEAN :
              /\ told <=> p \in done
              /\ calls' = [calls EXCEPT ![c] = [Host!NoCall EXCEPT
                      !.kind = sort, !.path = p, !.told = told, !.run = "received"]]
      <4>1. (p \in done) \in BOOLEAN
        OBVIOUS
      <4> WITNESS (p \in done) \in BOOLEAN
      <4> QED
        BY <2>2, Zenon
    <3> DEFINE new == [Host!NoCall EXCEPT !.kind = sort, !.path = p, !.told = told,
                                          !.run = "received"]
    <3>2. /\ new \in HostCall /\ new.run = "received" /\ new.path = p
          /\ (p \in done => new.told) /\ new.kind = sort
      BY <3>1 DEF Host!NoCall, HostCall
    <3>3. calls' = [calls EXCEPT ![c] = new] /\ host # "off"
      BY <2>2, <3>1
    <3> HIDE DEF new
    <3> QED
      BY <2>1, <3>2, <3>3, CallComes
  <2>3. CASE calls' = [calls EXCEPT ![c] = [Host!NoCall EXCEPT
                 !.kind = sort, !.path = p, !.told = TRUE, !.old = TRUE, !.run = "received"]]
    <3> DEFINE new == [Host!NoCall EXCEPT !.kind = sort, !.path = p, !.told = TRUE,
                                          !.old = TRUE, !.run = "received"]
    <3>1. /\ new \in HostCall /\ new.run = "received" /\ new.path = p
          /\ new.told /\ new.old /\ new.kind = sort
      BY DEF Host!NoCall, HostCall
    <3>2. calls' = [calls EXCEPT ![c] = new]
      BY <2>3
    <3> HIDE DEF new
    <3> QED
      BY <2>1, <3>1, <3>2, CallComes
  <2> QED
    BY <1>1, <2>2, <2>3, Zenon DEF Host!Receive
<1>2. CASE Host!Answer(c)
  <2> DEFINE new == [calls[c] EXCEPT !.run = "joining", !.late = calls[c].told]
  <2>1. /\ new \in HostCall /\ new.run = "joining" /\ new.path = calls[c].path
        /\ new.late = calls[c].told /\ new.kind = calls[c].kind /\ new.old = calls[c].old
    BY <1>0 DEF HostCall
  <2>2. calls' = [calls EXCEPT ![c] = new]
    BY <1>2 DEF Host!Answer
  <2>3. calls' \in [Calls -> HostCall] /\ UNCHANGED <<host, served, done, awaited>>
        /\ calls[c].run = "received"
    BY <1>2, <2>1, <2>2 DEF Host!Answer, HostInv, HostTypes, Host!Runs
  <2> HIDE DEF new
  <2>5. ASSUME NEW d \in Calls PROVE calls'[d] = IF d = c THEN new ELSE calls[d]
    BY <2>2 DEF HostInv, HostTypes
  <2>6. HostTypes'
    BY <2>3 DEF HostInv, HostTypes, Host!TypeOK, HostCall
  <2> QED
    BY <2>1, <2>3, <2>5, <2>6
       DEF HostInv, ServedWhileUp, CallsHavePaths, StoppedPathsTell, StoppedPathsWait,
           NothingLeft, Active
<1>3. CASE Host!Refuse(c) \/ Host!JoinFails(c) \/ Host!Leave(c)
  <2>1. PICK run \in {"refused", "failed", "leaving"} :
            /\ calls' = [calls EXCEPT ![c] = [@ EXCEPT !.run = run]]
            /\ calls[c].run # "none" /\ (run = "leaving" => Active(c))
            /\ UNCHANGED <<host, served, done, awaited>>
    BY <1>3 DEF Host!Refuse, Host!JoinFails, Host!Leave, Host!Moves, Host!Runs, Active
  <2> DEFINE new == [calls[c] EXCEPT !.run = run]
  <2>2. /\ new \in HostCall /\ new.run = run /\ new.path = calls[c].path
        /\ new.late = calls[c].late /\ new.kind = calls[c].kind /\ new.told = calls[c].told
        /\ new.old = calls[c].old
    BY <1>0 DEF HostCall
  <2>3. calls' = [calls EXCEPT ![c] = new]
    BY <2>1
  <2> HIDE DEF new
  <2> QED
    BY <2>1, <2>2, <2>3, CallGoesOn
<1>4. CASE Host!Joined(c) \/ Host!Left(c)
  <2>1. PICK run \in {"inside", "left"}, agent \in {"starting", calls[c].agent},
             open \in BOOLEAN :
            /\ calls' = [calls EXCEPT ![c] =
                   [@ EXCEPT !.run = run, !.agent = agent, !.open = open]]
            /\ Active(c)
            /\ UNCHANGED <<host, served, done, awaited>>
    <3>1. CASE Host!Joined(c)
      BY <3>1 DEF Host!Joined, Host!Runs, Active
    <3>2. CASE Host!Left(c)
      <4>1. [calls[c] EXCEPT !.run = "left", !.open = FALSE]
            = [calls[c] EXCEPT !.run = "left", !.agent = calls[c].agent, !.open = FALSE]
        BY <1>0 DEF HostCall
      <4> QED
        BY <3>2, <4>1 DEF Host!Left, Host!Runs, Active
    <3> QED
      BY <1>4, <3>1, <3>2
  <2> DEFINE new == [calls[c] EXCEPT !.run = run, !.agent = agent, !.open = open]
  <2>2. /\ new \in HostCall /\ new.run = run /\ new.path = calls[c].path
        /\ new.late = calls[c].late /\ new.kind = calls[c].kind /\ new.told = calls[c].told
        /\ new.old = calls[c].old
    BY <1>0 DEF HostCall
  <2>3. calls' = [calls EXCEPT ![c] = new]
    BY <2>1
  <2> HIDE DEF new
  <2> QED
    BY <2>1, <2>2, <2>3, CallGoesOn DEF Active
<1>5. CASE Host!Dismiss(c) \/ Host!RoomCloses(c)
  <2>1. PICK open \in BOOLEAN, dismissed \in BOOLEAN :
            /\ calls' = [calls EXCEPT ![c] = [@ EXCEPT !.open = open, !.dismissed = dismissed]]
            /\ UNCHANGED <<host, served, done, awaited>>
    <3>1. /\ [calls[c] EXCEPT !.open = FALSE]
              = [calls[c] EXCEPT !.open = FALSE, !.dismissed = calls[c].dismissed]
          /\ [calls[c] EXCEPT !.dismissed = TRUE]
              = [calls[c] EXCEPT !.open = calls[c].open, !.dismissed = TRUE]
          /\ calls[c].open \in BOOLEAN /\ calls[c].dismissed \in BOOLEAN
      BY <1>0 DEF HostCall
    <3>2. CASE Host!Dismiss(c)
      BY <3>1, <3>2 DEF Host!Dismiss
    <3>3. CASE Host!RoomCloses(c)
      BY <3>1, <3>3 DEF Host!RoomCloses
    <3> QED
      BY <1>5, <3>2, <3>3
  <2> DEFINE new == [calls[c] EXCEPT !.open = open, !.dismissed = dismissed]
  <2>2. /\ new \in HostCall /\ new.run = calls[c].run /\ new.path = calls[c].path
        /\ new.late = calls[c].late /\ new.kind = calls[c].kind /\ new.told = calls[c].told
        /\ new.old = calls[c].old
    BY <1>0 DEF HostCall
  <2>3. calls' = [calls EXCEPT ![c] = new]
    BY <2>1
  <2> HIDE DEF new
  <2> QED
    BY <2>1, <2>2, <2>3, CallGoesOn
<1>6. CASE Host!AgentStarts(c) \/ Host!AgentFails(c) \/ Host!AgentIsStopped(c) \/ Host!AgentStops(c)
  <2>1. PICK agent \in {"running", "failed", "stopping", "stopped"} :
            /\ calls' = [calls EXCEPT ![c] = [@ EXCEPT !.agent = agent]]
            /\ UNCHANGED <<host, served, done, awaited>>
    BY <1>6 DEF Host!AgentStarts, Host!AgentFails, Host!AgentIsStopped, Host!AgentStops,
                Host!Agent
  <2> DEFINE new == [calls[c] EXCEPT !.agent = agent]
  <2>2. /\ new \in HostCall /\ new.run = calls[c].run /\ new.path = calls[c].path
        /\ new.late = calls[c].late /\ new.kind = calls[c].kind /\ new.told = calls[c].told
        /\ new.old = calls[c].old
    BY <1>0 DEF HostCall
  <2>3. calls' = [calls EXCEPT ![c] = new]
    BY <2>1
  <2> HIDE DEF new
  <2> QED
    BY <2>1, <2>2, <2>3, CallGoesOn
<1> QED
  BY <1>1, <1>2, <1>3, <1>4, <1>5, <1>6 DEF Host!CallNext

(* The invariant is kept by every step. *)
LEMMA HostNextKeeps == HostInv /\ [Host!Next]_(Host!vars) => HostInv'
<1> SUFFICES ASSUME HostInv, [Host!Next]_(Host!vars) PROVE HostInv'
  OBVIOUS
<1>1. CASE Host!HostNext
  BY <1>1, StartMoves, HostSteps, PathMoves, StoppedMoves DEF Host!HostNext
<1>2. ASSUME NEW c \in Calls, Host!CallNext(c) PROVE HostInv'
  BY <1>2, CallMoves
<1>3. CASE UNCHANGED Host!vars
  BY <1>3 DEF Host!vars, HostInv, HostTypes, Host!TypeOK, ServedWhileUp, CallsHavePaths,
              StoppedPathsTell, StoppedPathsWait, NothingLeft, Active
<1> QED
  BY <1>1, <1>2, <1>3 DEF Host!Next

(* The variables have their types (ServiceHost, ServiceWebhookServer and the *)
(* calls they answer).                                                      *)
THEOREM HostTypeCorrect == Host!Spec => []Host!TypeOK
<1>1. HostInv => Host!TypeOK
  BY DEF HostInv, HostTypes
<1> QED
  BY HostInitHolds, HostNextKeeps, <1>1, PTL DEF Host!Spec

(* When ServiceHost.stop has returned, no task of the host is in a room or  *)
(* on its way into one, but those of calls answered after the stop of their *)
(* path, which stop cannot wait for, and those of an earlier start whose    *)
(* stop raised, which the servers of a later start do not know.             *)
THEOREM StopsEmpty == Host!Spec => []Host!StoppedIsEmpty
<1>1. HostInv => Host!StoppedIsEmpty
  BY DEF HostInv, NothingLeft, Host!StoppedIsEmpty, Active
<1> QED
  BY HostInitHolds, HostNextKeeps, <1>1, PTL DEF Host!Spec

-----------------------------------------------------------------------------
(***************************************************************************)
(* Theorems about RoomRequests, for any number of batches.                 *)
(***************************************************************************)

RoomCall ==
    [operation : Requests!Operations \cup {Requests!Idle.operation},
     at : {"idle", "asked", "answered", "reading", "closing", "over"},
     kind : Requests!Anything \cup {""}, body : {"", "good", "bad", "garbled"},
     batches : Nat, failed : BOOLEAN, cut : BOOLEAN, refused : BOOLEAN,
     outcome : {"", "value", "RoomException", "escaped"}]

CallTypes == online \in BOOLEAN /\ held \in BOOLEAN /\ roomCall \in RoomCall

(* Only a query that an execution opened is held, till its call is over *)
HeldByQuery ==
    held => /\ roomCall.at \in {"answered", "reading", "closing", "over"}
            /\ roomCall.at = "answered" => Requests!Sql /\ roomCall.kind = "binary"

(* What is read and closed is a query that was understood *)
ReadIsUnderstood ==
    roomCall.at \in {"reading", "closing"} =>
        /\ Requests!Sql /\ roomCall.kind = "binary"
        /\ Requests!Told(roomCall.operation, roomCall.kind, roomCall.body) = "value"

(* A call that goes on without a link has seen it go, and none waits without one *)
CutWhileOffline ==
    /\ ~online /\ roomCall.at \in {"answered", "reading", "closing"} => roomCall.cut
    /\ roomCall.at = "asked" => online

AnswerHasBody == roomCall.at = "answered" => roomCall.body # ""

RequestInv ==
    CallTypes /\ AnswerHasBody /\ HeldByQuery /\ ReadIsUnderstood /\ CutWhileOffline
        /\ Requests!QueriesClosed /\ Requests!OneKindOfError

-----------------------------------------------------------------------------
(* What the operations are *)

Checks == {"none", "bare", "guarded", "raw"}

LEMMA OperationIs ==
    ASSUME NEW takes, NEW checks, NEW names, NEW o \in Requests!Operation(takes, checks, names)
    PROVE  o.checks = checks
BY DEF Requests!Operation

(* The operations of sql_stream take a query or the result of a statement. *)
LEMMA SqlStreamsTake ==
    ASSUME NEW operation \in Requests!SqlStreams
    PROVE  operation.takes = {"binary", "json"} /\ operation.checks = "guarded"
<1>1. ASSUME NEW o \in Requests!DatasetSql \cup Requests!SqliteSql, NEW name,
             o.name \in {"datasets.execute_sql", "sqlite.execute_sql"}
      PROVE  /\ [o EXCEPT !.name = name].takes = {"binary", "json"}
             /\ [o EXCEPT !.name = name].checks = "guarded"
  <2>1. o \in [name : {o.name}, takes : {{"binary", "json"}}, checks : {"guarded"}]
    BY <1>1 DEF Requests!DatasetSql, Requests!SqliteSql, Requests!Operation
  <2> QED
    BY <2>1
<1>2. ASSUME NEW name, NEW execute \in {"datasets.execute_sql", "sqlite.execute_sql"},
             operation \in Requests!Streamed(name, execute)
      PROVE  operation.takes = {"binary", "json"} /\ operation.checks = "guarded"
  <2>1. PICK o \in {o \in Requests!DatasetSql \cup Requests!SqliteSql : o.name = execute} :
            operation = [o EXCEPT !.name = name]
    BY <1>2, Zenon DEF Requests!Streamed
  <2> QED
    BY <1>1, <2>1
<1>3. \/ operation \in Requests!Streamed("datasets.sql_stream", "datasets.execute_sql")
      \/ operation \in Requests!Streamed("sqlite.sql_stream", "sqlite.execute_sql")
  BY Zenon DEF Requests!SqlStreams
<1> QED
  BY <1>2, <1>3

(* Every operation checks its answer in one of the four ways. *)
LEMMA OperationChecks ==
    ASSUME NEW o \in Requests!Operations \cup {Requests!Idle.operation}
    PROVE  o.checks \in Checks
<1>0. Requests!Idle.operation.checks = "none"
  BY DEF Requests!Idle
<1>1. CASE \E S \in {Requests!Invocations, Requests!Toolkits, Requests!Services,
                     Requests!Agents, Requests!Livekit, Requests!Storage,
                        Requests!StorageLists, Requests!Queues, Requests!Developer} : o \in S
  BY <1>1, OperationIs
     DEF Checks, Requests!Invocations, Requests!Toolkits, Requests!Services,
         Requests!Agents, Requests!Livekit, Requests!Storage, Requests!StorageLists,
         Requests!Queues, Requests!Developer
<1>2. CASE \E S \in {Requests!DatasetTables, Requests!DatasetCreation,
                     Requests!DatasetColumns, Requests!DatasetRows,
                        Requests!DatasetSql, Requests!DatasetStatements,
                        Requests!DatasetSearch, Requests!DatasetUpkeep,
                        Requests!DatasetVersions} : o \in S
  BY <1>2, OperationIs
     DEF Checks, Requests!DatasetTables, Requests!DatasetCreation, Requests!DatasetColumns,
         Requests!DatasetRows, Requests!DatasetSql,
         Requests!DatasetStatements, Requests!DatasetSearch, Requests!DatasetUpkeep,
         Requests!DatasetVersions
<1>3. CASE \E S \in {Requests!SqliteDatabases, Requests!SqliteTables, Requests!SqliteRows,
                     Requests!SqliteSearch,
                        Requests!SqliteSql, Requests!SqliteStatements} : o \in S
  BY <1>3, OperationIs
     DEF Checks, Requests!SqliteDatabases, Requests!SqliteTables, Requests!SqliteRows,
         Requests!SqliteSearch, Requests!SqliteSql,
         Requests!SqliteStatements
<1>4. CASE \E S \in {Requests!Memory, Requests!MemoryIngestion,
                     Requests!MemoryIngestionFrom, Requests!MemoryRecall,
                     Requests!Mounts, Requests!Images, Requests!Containers,
                     Requests!Builds, Requests!RunningContainers} : o \in S
  BY <1>4, OperationIs
     DEF Checks, Requests!Memory, Requests!MemoryIngestion, Requests!MemoryIngestionFrom,
         Requests!MemoryRecall, Requests!Mounts, Requests!Images,
         Requests!Containers, Requests!Builds, Requests!RunningContainers
<1>5. CASE o \in Requests!SqlStreams
  BY <1>5, SqlStreamsTake DEF Checks
<1>6. \/ o = Requests!Idle.operation \/ o \in Requests!SqlStreams
      \/ \E S \in {Requests!Invocations, Requests!Toolkits, Requests!Services,
                   Requests!Agents, Requests!Livekit, Requests!Storage,
                   Requests!StorageLists, Requests!Queues, Requests!Developer} : o \in S
      \/ \E S \in {Requests!DatasetTables, Requests!DatasetCreation,
                   Requests!DatasetColumns, Requests!DatasetRows,
                   Requests!DatasetSql, Requests!DatasetStatements, Requests!DatasetSearch,
                   Requests!DatasetUpkeep,
                   Requests!DatasetVersions} : o \in S
      \/ \E S \in {Requests!SqliteDatabases, Requests!SqliteTables, Requests!SqliteRows,
                   Requests!SqliteSearch, Requests!SqliteSql,
                   Requests!SqliteStatements} : o \in S
      \/ \E S \in {Requests!Memory, Requests!MemoryIngestion, Requests!MemoryIngestionFrom,
                   Requests!MemoryRecall, Requests!Mounts,
                   Requests!Images, Requests!Containers, Requests!Builds,
                   Requests!RunningContainers} : o \in S
  BY DEF Requests!Operations
<1> QED
  BY <1>0, <1>1, <1>2, <1>3, <1>4, <1>5, <1>6 DEF Checks

(* A query that the operation refuses was not as it should be. *)
LEMMA RefusedIsBad ==
    ASSUME NEW operation \in Requests!SqlStreams, NEW body,
           Requests!Told(operation, "binary", body) # "value"
    PROVE  body # "good"
BY SqlStreamsTake DEF Requests!Told

(* What becomes of an answer, and when the caller is told otherwise. *)
LEMMA WhatIsTold ==
    ASSUME NEW operation, NEW sort, NEW body
    PROVE  /\ Requests!Told(operation, sort, body) \in {"value", "RoomException", "escaped"}
           /\ Requests!Told(operation, sort, body) = "escaped" /\ body \in {"good", "bad", "garbled"}
                  => body = "garbled" \/ operation.checks \notin {"none", "guarded"}
           /\ Requests!Told(operation, sort, body) = "value" => sort \in operation.takes /\ body # "garbled"
BY DEF Requests!Told, Requests!Fails

-----------------------------------------------------------------------------
(* The states and the steps.  Idle is a call, and so is one that is over.  *)
LEMMA IdleIsCall == Requests!Idle \in RoomCall
BY DEF Requests!Idle, RoomCall, Requests!Anything, Requests!Contents

LEMMA RequestInitHolds == Requests!Init => RequestInv
<1> SUFFICES ASSUME Requests!Init PROVE RequestInv
  OBVIOUS
<1>1. CallTypes
  BY IdleIsCall DEF Requests!Init, CallTypes
<1>2. roomCall.at = "idle" /\ held = FALSE
  BY DEF Requests!Init, Requests!Idle
<1> QED
  BY <1>1, <1>2 DEF RequestInv, AnswerHasBody, HeldByQuery, ReadIsUnderstood,
                    CutWhileOffline,
                    Requests!QueriesClosed, Requests!OneKindOfError

(* A call that ends is told something. *)
LEMMA OverIs ==
    ASSUME roomCall \in RoomCall, NEW outcome \in {"value", "RoomException", "escaped"}
    PROVE  /\ Requests!Over(outcome) \in RoomCall /\ Requests!Over(outcome).at = "over"
           /\ Requests!Over(outcome).outcome = outcome
           /\ Requests!Over(outcome).operation = roomCall.operation
           /\ Requests!Over(outcome).kind = roomCall.kind
           /\ Requests!Over(outcome).body = roomCall.body
           /\ Requests!Over(outcome).cut = roomCall.cut
           /\ Requests!Over(outcome).refused = roomCall.refused
BY DEF Requests!Over, RoomCall

(* Requests: a call is made, and answered, and the answer is looked at *)
LEMMA Begins ==
    ASSUME RequestInv, NEW operation \in Requests!Operations, Requests!Call(operation)
    PROVE  RequestInv'
<1>1. PICK at \in {"asked", "over"}, outcome \in {"", "RoomException"} :
          /\ roomCall' = [Requests!Idle EXCEPT !.operation = operation, !.at = at, !.outcome = outcome]
          /\ at = "asked" => online
  BY DEF Requests!Call
<1>2. /\ roomCall' \in RoomCall /\ roomCall'.at = at /\ roomCall'.outcome = outcome
      /\ at = "asked" => online
  BY <1>1, IdleIsCall DEF RoomCall
<1>3. ~held /\ UNCHANGED <<online, held>>
  BY DEF Requests!Call, RequestInv, HeldByQuery
<1> QED
  BY <1>2, <1>3 DEF RequestInv, CallTypes, AnswerHasBody, HeldByQuery, ReadIsUnderstood,
           CutWhileOffline, Requests!QueriesClosed, Requests!OneKindOfError

LEMMA Answers ==
    ASSUME RequestInv, NEW sort \in Requests!Anything, NEW body \in {"good", "bad", "garbled"},
           Requests!Answer(sort, body)
    PROVE  RequestInv'
<1>1. /\ roomCall' \in RoomCall /\ roomCall'.at = "answered" /\ roomCall'.kind = sort
      /\ roomCall'.body # "" /\ roomCall'.operation = roomCall.operation
      /\ roomCall'.cut = roomCall.cut
  BY DEF Requests!Answer, RequestInv, CallTypes, RoomCall
<1>2. held' \in BOOLEAN /\ (held' => Requests!Sql /\ sort = "binary") /\ online' = online /\ online
  <2>1. held' = (Requests!Sql /\ sort = "binary")
    BY Zenon DEF Requests!Answer
  <2> QED
    BY <2>1 DEF Requests!Answer, RequestInv, CutWhileOffline
<1>3. Requests!Sql' = Requests!Sql
  BY <1>1 DEF Requests!Sql
<1> QED
  BY <1>1, <1>2, <1>3 DEF RequestInv, CallTypes, AnswerHasBody, HeldByQuery,
                          ReadIsUnderstood,
           CutWhileOffline, Requests!QueriesClosed, Requests!OneKindOfError

LEMMA Refused == RequestInv /\ Requests!AnswerError => RequestInv'
<1> SUFFICES ASSUME RequestInv, Requests!AnswerError PROVE RequestInv'
  OBVIOUS
<1>1. roomCall \in RoomCall
  BY DEF RequestInv, CallTypes
<1>2. roomCall' = Requests!Over("RoomException") /\ ~held /\ UNCHANGED <<online, held>>
  BY DEF Requests!AnswerError, RequestInv, HeldByQuery
<1> QED
  BY <1>1, <1>2, OverIs DEF RequestInv, CallTypes, AnswerHasBody, HeldByQuery,
                            ReadIsUnderstood,
           CutWhileOffline, Requests!QueriesClosed, Requests!OneKindOfError

LEMMA Takes == RequestInv /\ Requests!Take => RequestInv'
<1> SUFFICES ASSUME RequestInv, Requests!Take PROVE RequestInv'
  OBVIOUS
<1> DEFINE told == Requests!Told(roomCall.operation, roomCall.kind, roomCall.body)
<1>1. /\ roomCall \in RoomCall /\ roomCall.at = "answered"
      /\ ~(Requests!Sql /\ told = "value")
      /\ roomCall' = Requests!Over(told) /\ UNCHANGED <<online, held>>
  BY DEF Requests!Take, RequestInv, CallTypes
<1>2. told \in {"value", "RoomException", "escaped"}
  BY WhatIsTold
<1>3. held => roomCall.body # "good"
  <2> SUFFICES ASSUME held PROVE roomCall.body # "good"
    OBVIOUS
  <2>1. Requests!Sql /\ roomCall.kind = "binary"
    BY <1>1 DEF RequestInv, HeldByQuery
  <2> QED
    BY <1>1, <2>1, RefusedIsBad DEF Requests!Sql
<1>4. /\ told = "escaped" => roomCall.body = "garbled" \/ roomCall.operation.checks \in {"bare", "raw"}
      /\ told = "value" => roomCall.kind \in roomCall.operation.takes /\ roomCall.body # "garbled"
  <2>1. roomCall.body \in {"good", "bad", "garbled"}
    BY <1>1 DEF RoomCall, RequestInv, AnswerHasBody
  <2>2. roomCall.operation.checks \in Checks
    BY <1>1, OperationChecks DEF RoomCall
  <2> QED
    BY <2>1, <2>2, WhatIsTold DEF Checks
<1> HIDE DEF told
<1> QED
  BY <1>1, <1>2, <1>3, <1>4, OverIs
     DEF RequestInv, CallTypes, AnswerHasBody, HeldByQuery, ReadIsUnderstood,
           CutWhileOffline, Requests!QueriesClosed, Requests!OneKindOfError

(* sql_stream: a query is read, and closed *)
LEMMA Executed == RequestInv /\ Requests!TakeExecution => RequestInv'
<1> SUFFICES ASSUME RequestInv, Requests!TakeExecution PROVE RequestInv'
  OBVIOUS
<1>1. /\ roomCall \in RoomCall /\ roomCall.at = "answered" /\ Requests!Sql
      /\ Requests!Told(roomCall.operation, roomCall.kind, roomCall.body) = "value"
      /\ UNCHANGED <<online, held>>
  BY DEF Requests!TakeExecution, RequestInv, CallTypes
<1>2. CASE roomCall.kind = "json"
  <2>1. roomCall' = Requests!Over("RoomException") /\ ~held
    BY <1>1, <1>2 DEF Requests!TakeExecution, RequestInv, HeldByQuery
  <2> QED
    BY <1>1, <2>1, OverIs
       DEF RequestInv, CallTypes, AnswerHasBody, HeldByQuery, ReadIsUnderstood,
           CutWhileOffline, Requests!QueriesClosed, Requests!OneKindOfError
<1>3. CASE roomCall.kind # "json"
  <2>1. roomCall' = [roomCall EXCEPT !.at = "reading"]
    BY <1>1, <1>3 DEF Requests!TakeExecution
  <2>2. /\ roomCall' \in RoomCall /\ roomCall'.at = "reading" /\ roomCall'.kind = roomCall.kind
        /\ roomCall'.operation = roomCall.operation /\ roomCall'.body = roomCall.body
        /\ roomCall'.cut = roomCall.cut
    BY <1>1, <2>1 DEF RoomCall
  <2>3. roomCall.kind = "binary"
    BY <1>1, <1>3, SqlStreamsTake, WhatIsTold DEF Requests!Sql
  <2>4. Requests!Sql'
    BY <1>1, <2>2 DEF Requests!Sql
  <2> QED
    BY <1>1, <2>2, <2>3, <2>4
       DEF RequestInv, CallTypes, AnswerHasBody, HeldByQuery, ReadIsUnderstood,
           CutWhileOffline, Requests!QueriesClosed, Requests!OneKindOfError
<1> QED
  BY <1>2, <1>3

LEMMA Reads ==
    ASSUME RequestInv, Requests!Batch \/ \E broken \in BOOLEAN : Requests!EndOfReading(broken)
    PROVE  RequestInv'
<1>1. /\ roomCall \in RoomCall /\ roomCall.at = "reading" /\ UNCHANGED <<online, held>>
  BY DEF Requests!Batch, Requests!EndOfReading, RequestInv, CallTypes
<1>2. PICK at \in {"reading", "closing"}, batches \in Nat, broken \in BOOLEAN :
          roomCall' = [roomCall EXCEPT !.at = at, !.batches = batches, !.failed = broken]
  <2>1. CASE Requests!Batch
    <3>1. roomCall' = [roomCall EXCEPT !.at = "reading", !.batches = roomCall.batches + 1,
                                       !.failed = roomCall.failed]
      BY <1>1, <2>1 DEF Requests!Batch, RoomCall
    <3>2. roomCall.batches \in Nat /\ roomCall.failed \in BOOLEAN
      BY <1>1, Zenon DEF RoomCall
    <3>3. roomCall.batches + 1 \in Nat
      BY <3>2
    <3> QED
      BY <3>1, <3>2, <3>3
  <2>2. ASSUME NEW broken \in BOOLEAN, Requests!EndOfReading(broken)
        PROVE  roomCall' = [roomCall EXCEPT !.at = "closing", !.batches = roomCall.batches,
                                            !.failed = broken]
    BY <1>1, <2>2 DEF Requests!EndOfReading, Requests!AfterReading, RoomCall
  <2> QED
    BY <1>1, <2>1, <2>2 DEF RoomCall
<1>3. /\ roomCall' \in RoomCall /\ roomCall'.at = at /\ roomCall'.kind = roomCall.kind
      /\ roomCall'.operation = roomCall.operation /\ roomCall'.body = roomCall.body
      /\ roomCall'.cut = roomCall.cut
  BY <1>1, <1>2 DEF RoomCall
<1>4. Requests!Sql' = Requests!Sql
  BY <1>3 DEF Requests!Sql
<1> QED
  BY <1>1, <1>3, <1>4
     DEF RequestInv, CallTypes, AnswerHasBody, HeldByQuery, ReadIsUnderstood,
           CutWhileOffline, Requests!QueriesClosed, Requests!OneKindOfError

LEMMA Closes ==
    ASSUME RequestInv, NEW refused \in BOOLEAN, Requests!CloseQuery(refused)
    PROVE  RequestInv'
<1>1. /\ roomCall \in RoomCall /\ roomCall.at = "closing" /\ UNCHANGED online
      /\ online \in BOOLEAN /\ held \in BOOLEAN
      /\ Requests!Told(roomCall.operation, roomCall.kind, roomCall.body) = "value"
  BY DEF Requests!CloseQuery, RequestInv, CallTypes, ReadIsUnderstood
<1>2. /\ held' \in BOOLEAN /\ (held' => ~online \/ refused)
  BY <1>1 DEF Requests!CloseQuery
<1>3. PICK outcome \in {"value", "RoomException"} :
          roomCall' = [Requests!Over(outcome) EXCEPT !.refused = refused]
  BY DEF Requests!CloseQuery
<1>4. /\ roomCall' \in RoomCall /\ roomCall'.at = "over" /\ roomCall'.outcome = outcome
      /\ roomCall'.operation = roomCall.operation /\ roomCall'.kind = roomCall.kind
      /\ roomCall'.body = roomCall.body /\ roomCall'.cut = roomCall.cut
      /\ roomCall'.refused = refused
  <2>1. ASSUME NEW r \in RoomCall
        PROVE  LET t == [r EXCEPT !.refused = refused]
               IN  /\ t \in RoomCall /\ t.at = r.at /\ t.outcome = r.outcome
                   /\ t.operation = r.operation /\ t.kind = r.kind
                   /\ t.body = r.body /\ t.cut = r.cut /\ t.refused = refused
    BY <2>1 DEF RoomCall
  <2>2. /\ Requests!Over(outcome) \in RoomCall /\ Requests!Over(outcome).at = "over"
        /\ Requests!Over(outcome).outcome = outcome
        /\ Requests!Over(outcome).operation = roomCall.operation
        /\ Requests!Over(outcome).kind = roomCall.kind
        /\ Requests!Over(outcome).body = roomCall.body
        /\ Requests!Over(outcome).cut = roomCall.cut
    BY <1>1, OverIs
  <2> QED
    BY <1>3, <2>1, <2>2
<1>5. roomCall.kind \in roomCall.operation.takes /\ roomCall.body # "garbled"
  BY <1>1, WhatIsTold
<1>6. ~online => roomCall.cut
  BY <1>1 DEF RequestInv, CutWhileOffline
<1> QED
  BY <1>1, <1>2, <1>4, <1>5, <1>6
     DEF RequestInv, CallTypes, AnswerHasBody, HeldByQuery, ReadIsUnderstood,
           CutWhileOffline, Requests!QueriesClosed, Requests!OneKindOfError

(* The link comes and goes, and the caller returns. *)
LEMMA Breaks == RequestInv /\ Requests!LinkLost => RequestInv'
<1> SUFFICES ASSUME RequestInv, Requests!LinkLost PROVE RequestInv'
  OBVIOUS
<1>1. roomCall \in RoomCall /\ online' = FALSE /\ UNCHANGED held
  BY DEF Requests!LinkLost, RequestInv, CallTypes
<1>2. CASE roomCall.at = "asked"
  <2>1. roomCall' = [Requests!Over("RoomException") EXCEPT !.cut = TRUE] /\ ~held
    BY <1>2 DEF Requests!LinkLost, RequestInv, HeldByQuery
  <2>2. roomCall' \in RoomCall /\ roomCall'.at = "over" /\ roomCall'.outcome = "RoomException"
    <3>1. ASSUME NEW r \in RoomCall
          PROVE  LET t == [r EXCEPT !.cut = TRUE]
                 IN  t \in RoomCall /\ t.at = r.at /\ t.outcome = r.outcome
      BY <3>1 DEF RoomCall
    <3>2. /\ Requests!Over("RoomException") \in RoomCall
          /\ Requests!Over("RoomException").at = "over"
          /\ Requests!Over("RoomException").outcome = "RoomException"
      BY <1>1, OverIs
    <3> QED
      BY <2>1, <3>1, <3>2
  <2> QED
    BY <1>1, <2>1, <2>2
       DEF RequestInv, CallTypes, AnswerHasBody, HeldByQuery, ReadIsUnderstood,
           CutWhileOffline, Requests!QueriesClosed, Requests!OneKindOfError
<1>3. CASE roomCall.at # "asked"
  <2>1. roomCall' = [roomCall EXCEPT !.cut = TRUE]
    BY <1>3 DEF Requests!LinkLost
  <2>2. /\ roomCall' \in RoomCall /\ roomCall'.at = roomCall.at
        /\ roomCall'.outcome = roomCall.outcome
        /\ roomCall'.operation = roomCall.operation /\ roomCall'.kind = roomCall.kind
        /\ roomCall'.body = roomCall.body /\ roomCall'.cut
    BY <1>1, <2>1 DEF RoomCall
  <2>3. Requests!Sql' = Requests!Sql
    BY <2>2 DEF Requests!Sql
  <2> QED
    BY <1>1, <1>3, <2>2, <2>3
       DEF RequestInv, CallTypes, AnswerHasBody, HeldByQuery, ReadIsUnderstood,
           CutWhileOffline, Requests!QueriesClosed, Requests!OneKindOfError
<1> QED
  BY <1>2, <1>3

LEMMA Others ==
    RequestInv /\ (Requests!Reconnect \/ Requests!Return \/ UNCHANGED Requests!vars)
        => RequestInv'
<1> SUFFICES ASSUME RequestInv,
                    Requests!Reconnect \/ Requests!Return \/ UNCHANGED Requests!vars
             PROVE  RequestInv'
  OBVIOUS
<1>1. CASE Requests!Return
  <2>1. roomCall' = Requests!Idle /\ Requests!Idle.at = "idle" /\ held' = FALSE /\ UNCHANGED online
    BY <1>1 DEF Requests!Return, Requests!Idle
  <2> QED
    BY <2>1, IdleIsCall
       DEF RequestInv, CallTypes, AnswerHasBody, HeldByQuery, ReadIsUnderstood,
           CutWhileOffline, Requests!QueriesClosed, Requests!OneKindOfError
<1>2. CASE Requests!Reconnect \/ UNCHANGED Requests!vars
  <2>1. /\ UNCHANGED <<roomCall, held>> /\ (online => online') /\ online' \in BOOLEAN
    BY <1>2 DEF Requests!Reconnect, Requests!vars, RequestInv, CallTypes
  <2>2. Requests!Sql' = Requests!Sql
    BY <2>1 DEF Requests!Sql
  <2> QED
    BY <2>1, <2>2
       DEF RequestInv, CallTypes, AnswerHasBody, HeldByQuery, ReadIsUnderstood,
           CutWhileOffline, Requests!QueriesClosed, Requests!OneKindOfError
<1> QED
  BY <1>1, <1>2

LEMMA RequestNextKeeps == RequestInv /\ [Requests!Next]_(Requests!vars) => RequestInv'
<1> SUFFICES ASSUME RequestInv, [Requests!Next]_(Requests!vars) PROVE RequestInv'
  OBVIOUS
<1> QED
  BY Begins, Answers, Refused, Takes, Executed, Reads, Closes, Breaks,
     Others DEF Requests!Next

(* The variables have their types (the state of one call of a toolkit client). *)
THEOREM RequestTypeCorrect == Requests!Spec => []Requests!TypeOK
<1>1. RequestInv => Requests!TypeOK
  BY DEF RequestInv, CallTypes, RoomCall, Requests!TypeOK
<1> QED
  BY RequestInitHolds, RequestNextKeeps, <1>1, PTL DEF Requests!Spec

(* However the reading of a query of sql_stream ends, the server does not   *)
(* hold it any longer, unless the link was lost, it refused to close it, or *)
(* what it answered could not be understood.                                *)
THEOREM NoQueryLeftOpen == Requests!Spec => []Requests!QueriesClosed
<1>1. RequestInv => Requests!QueriesClosed
  BY DEF RequestInv
<1> QED
  BY RequestInitHolds, RequestNextKeeps, <1>1, PTL DEF Requests!Spec

(* What is told of an answer, for each of the operations: the exceptions    *)
(* that are not RoomExceptions come of unreadable arrow data and of the     *)
(* operations without a guard, and a value is of a kind that was expected.  *)
THEOREM ErrorsAreOfOneKind == Requests!Spec => []Requests!OneKindOfError
<1>1. RequestInv => Requests!OneKindOfError
  BY DEF RequestInv
<1> QED
  BY RequestInitHolds, RequestNextKeeps, <1>1, PTL DEF Requests!Spec

-----------------------------------------------------------------------------
(***************************************************************************)
(* Theorems about SqliteTransfer: for databases of any length over any     *)
(* bytes, however often the server loses, alters or breaks off.            *)
(***************************************************************************)

Kinds == {"start", "pull", "data", "complete", "abort", "end", "error", "none"}
Messages == [kind : Kinds, data : Seq(Bytes)]
Outcomes == {"", "done", "RoomException", "source's error", "abandoned"}

Inputs == [pulls : Nat, closed : BOOLEAN, sent : Nat, complete : Messages,
           error : BOOLEAN, over : BOOLEAN]
Clients == [got : Seq(Bytes), outcome : Outcomes]
Servers == [at : Nat, data : Seq(Bytes), stored : BOOLEAN, faults : Nat, over : BOOLEAN]

TransferTypes ==
    /\ kind \in {"backup", "restore"} /\ source \in Seq(Bytes)
    /\ input \in Inputs /\ input.sent <= Len(source)
    /\ client \in Clients /\ server \in Servers
    /\ up \in Seq(Messages) /\ down \in Seq(Messages)

(* What the client says it has sent is the database *)
SaysItsSource == input.complete \in {Transfer!Nothing, Transfer!Message("complete", source)}

(* In a backup what is complete is the database, and the client says nothing of it *)
BackupLine ==
    kind = "backup" =>
        /\ \A i \in 1..Len(up) : up[i].kind # "complete"
        /\ \A i \in 1..Len(down) : down[i].kind = "complete" => down[i].data = source

(* In a restore the server pulls, not the client *)
PullsOfBackup == kind = "restore" => \A i \in 1..Len(up) : up[i].kind # "pull"

(* In a restore nothing comes after the end of the data, and when what the server
   acknowledges is all of it the server has stored that *)
EndIsLast ==
    kind = "restore" =>
        \A i, j \in 1..Len(up) :
            up[i].kind = "complete" /\ i < j => up[j].kind \notin {"data", "complete"}

StoredIsLast ==
    kind = "restore" /\ server.stored =>
        \A i \in 1..Len(up) : up[i].kind \notin {"data", "complete"}

EndIsSaid ==
    kind = "restore" /\ input.complete = Transfer!Nothing =>
        ~server.stored /\ \A i \in 1..Len(up) : up[i].kind # "complete"

AcknowledgesStored ==
    kind = "restore" =>
        \A i \in 1..Len(down) : down[i].kind = "complete" /\ down[i].data = source =>
            server.stored /\ server.data = down[i].data

TransferInv ==
    /\ TransferTypes /\ SaysItsSource /\ BackupLine /\ PullsOfBackup /\ EndIsLast
    /\ StoredIsLast /\ EndIsSaid
    /\ AcknowledgesStored /\ Transfer!TransferredWhole

-----------------------------------------------------------------------------
(* Messages are added at one end of a line and taken from the other.       *)
LEMMA Added ==
    ASSUME NEW s \in Seq(Messages), NEW m \in Messages
    PROVE  /\ Append(s, m) \in Seq(Messages) /\ Len(Append(s, m)) = Len(s) + 1
           /\ \A i \in 1..Len(Append(s, m)) :
                Append(s, m)[i] = IF i <= Len(s) THEN s[i] ELSE m
           /\ Len(s) \in Nat
  OBVIOUS

LEMMA Taken ==
    ASSUME NEW s \in Seq(Messages), s # <<>>
    PROVE  /\ Tail(s) \in Seq(Messages) /\ Len(Tail(s)) = Len(s) - 1
           /\ \A i \in 1..Len(Tail(s)) : Tail(s)[i] = s[i + 1]
           /\ Head(s) = s[1] /\ Len(s) >= 1 /\ Head(s) \in Messages /\ Len(s) \in Nat
  OBVIOUS

LEMMA MessageType ==
    ASSUME NEW m \in Kinds, NEW data \in Seq(Bytes)
    PROVE  /\ Transfer!Message(m, data) \in Messages
           /\ Transfer!Message(m, data).kind = m /\ Transfer!Message(m, data).data = data
BY DEF Transfer!Message, Messages

LEMMA NothingType == Transfer!Nothing \in Messages /\ Transfer!Nothing.kind = "none"
<1>1. <<>> \in Seq(Bytes)
  OBVIOUS
<1> QED
  BY <1>1 DEF Transfer!Nothing, Transfer!Message, Messages, Kinds

LEMMA Counting ==
    /\ \A l \in Nat : 0 <= l
    /\ \A n \in Nat : n + 1 \in Nat
    /\ \A n \in Nat : n > 0 => n - 1 \in Nat
    /\ \A n, l \in Nat : n < l => n + 1 <= l /\ n + 1 \in 1..l
  OBVIOUS

(* What the server makes of a chunk is no chunk or one. *)
LEMMA DamageType ==
    ASSUME NEW chunk \in Seq(Bytes), NEW data \in Transfer!Damages(chunk)
    PROVE  data \in Seq(Bytes)
<1>1. CASE data = chunk
  BY <1>1
<1>2. CASE data = <<>>
  BY <1>2
<1>3. ASSUME NEW byte \in Bytes, data = <<byte>> PROVE data \in Seq(Bytes)
  BY <1>3
<1> QED
  BY <1>1, <1>2, <1>3 DEF Transfer!Damages

-----------------------------------------------------------------------------
(* The states the transfer starts in *)
LEMMA TransferInitHolds == Transfer!Init => TransferInv
<1> SUFFICES ASSUME Transfer!Init PROVE TransferInv
  OBVIOUS
<1>1. source \in Seq(Bytes)
  <2>1. PICK n \in 0..MaxChunks : source \in [1..n -> Bytes]
    BY DEF Transfer!Init, Transfer!Databases
  <2> QED
    BY <2>1
<1>2. <<>> \in Seq(Bytes) /\ <<>> \in Seq(Messages)
  OBVIOUS
<1> DEFINE start == Transfer!Message("start", <<>>)
<1>3. start \in Messages /\ start.kind = "start"
  <2>1. "start" \in Kinds
    BY DEF Kinds
  <2> QED
    BY <1>2, <2>1, MessageType
<1>4. /\ up \in Seq(Messages) /\ Len(up) = 1 /\ up[1].kind = "start"
      /\ down = <<>> /\ down \in Seq(Messages)
  <2>1. up = <<start>> /\ down = <<>>
    BY DEF Transfer!Init
  <2> HIDE DEF start
  <2> QED
    BY <1>2, <1>3, <2>1
<1>5. input \in Inputs /\ input.sent = 0 /\ input.complete = Transfer!Nothing
  BY NothingType DEF Transfer!Init, Inputs
<1>6. /\ client \in Clients /\ client.outcome = ""
      /\ server \in Servers /\ ~server.stored
  BY <1>2 DEF Transfer!Init, Clients, Servers, Outcomes
<1>7. TransferTypes
  <2>1. Len(source) \in Nat
    BY <1>1
  <2>2. kind \in {"backup", "restore"}
    BY DEF Transfer!Init
  <2>3. input.sent <= Len(source)
    BY <1>5, <2>1, Counting, Zenon
  <2> QED
    BY <1>1, <1>4, <1>5, <1>6, <2>2, <2>3, Zenon DEF TransferTypes
<1>8. /\ \A i \in 1..Len(up) : up[i].kind = "start"
      /\ \A i \in 1..Len(down) : FALSE
  BY <1>4
<1> QED
  BY <1>5, <1>6, <1>7, <1>8
     DEF TransferInv, SaysItsSource, BackupLine, PullsOfBackup, EndIsLast, StoredIsLast,
         EndIsSaid,
         AcknowledgesStored, Transfer!TransferredWhole

-----------------------------------------------------------------------------
(* The client adds a message to its line: data, or the end of it, only in a
   restore whose end it has not sent *)
LEMMA ClientAdds ==
    ASSUME TransferInv, NEW m \in Messages, up' = Append(up, m),
           UNCHANGED <<kind, source, server, down>>,
           input' \in Inputs, input'.sent <= Len(source), SaysItsSource',
           client' \in Clients, client'.outcome = "done" => client' = client,
           input'.complete = Transfer!Nothing => input.complete = Transfer!Nothing,
           m.kind \in {"data", "complete"}
               => kind = "restore" /\ input.complete = Transfer!Nothing,
           m.kind = "complete" => input'.complete # Transfer!Nothing,
           m.kind = "pull" => kind = "backup"
    PROVE  TransferInv'
<1>1. /\ up' \in Seq(Messages) /\ Len(up') = Len(up) + 1 /\ Len(up) \in Nat
      /\ \A i \in 1..Len(up') : up'[i] = IF i <= Len(up) THEN up[i] ELSE m
  BY Added DEF TransferInv, TransferTypes
<1>2. TransferTypes'
  BY <1>1 DEF TransferInv, TransferTypes
<1>3. BackupLine' /\ PullsOfBackup' /\ AcknowledgesStored'
  BY <1>1 DEF TransferInv, BackupLine, PullsOfBackup, AcknowledgesStored
<1>4. EndIsLast'
  <2> SUFFICES ASSUME kind = "restore", NEW i \in 1..Len(up'), NEW j \in 1..Len(up'),
                      up'[i].kind = "complete", i < j
               PROVE  up'[j].kind \notin {"data", "complete"}
    BY DEF EndIsLast
  <2>1. i \in 1..Len(up) /\ up[i].kind = "complete"
    BY <1>1
  <2>2. CASE j <= Len(up)
    <3>1. j \in 1..Len(up) /\ up'[j] = up[j]
      BY <1>1, <2>2
    <3> QED
      BY <2>1, <3>1 DEF TransferInv, EndIsLast
  <2>3. CASE ~(j <= Len(up))
    <3>1. up'[j] = m
      BY <1>1, <2>3
    <3>2. input.complete # Transfer!Nothing
      BY <2>1 DEF TransferInv, EndIsSaid
    <3> QED
      BY <3>1, <3>2
  <2> QED
    BY <2>2, <2>3
<1>5. StoredIsLast'
  <2> SUFFICES ASSUME kind = "restore", server.stored, NEW i \in 1..Len(up')
               PROVE  up'[i].kind \notin {"data", "complete"}
    BY DEF StoredIsLast
  <2>1. input.complete # Transfer!Nothing
    BY DEF TransferInv, EndIsSaid
  <2>2. CASE i <= Len(up)
    <3>1. i \in 1..Len(up) /\ up'[i] = up[i]
      BY <1>1, <2>2
    <3> QED
      BY <3>1 DEF TransferInv, StoredIsLast
  <2>3. CASE ~(i <= Len(up))
    BY <1>1, <2>1, <2>3
  <2> QED
    BY <2>2, <2>3
<1>6. EndIsSaid'
  BY <1>1 DEF TransferInv, EndIsSaid
<1>7. Transfer!TransferredWhole'
  BY DEF TransferInv, Transfer!TransferredWhole
<1> QED
  BY <1>2, <1>3, <1>4, <1>5, <1>6, <1>7 DEF TransferInv

LEMMA ClientSends ==
    ASSUME TransferInv,
           \/ Transfer!Close \/ Transfer!SendPull \/ Transfer!SendData
           \/ Transfer!SendComplete \/ Transfer!SendAbort \/ Transfer!RefusePull
    PROVE  TransferInv'
<1>0. /\ input \in Inputs /\ input.sent <= Len(source) /\ client \in Clients
      /\ source \in Seq(Bytes) /\ Len(source) \in Nat /\ <<>> \in Seq(Bytes)
      /\ SaysItsSource
  BY DEF TransferInv, TransferTypes
<1>a. /\ input.sent \in Nat /\ input.pulls \in Nat
      /\ (Transfer!Pumps => input.pulls - 1 \in Nat)
  BY <1>0, Counting DEF Inputs, Transfer!Pumps
<1>b. \A k \in Kinds : Transfer!Message(k, <<>>) \in Messages /\ Transfer!Message(k, <<>>).kind = k
  BY <1>0, MessageType
<1>1. CASE Transfer!Close
  <2>1. /\ input' \in Inputs /\ input'.sent = input.sent
        /\ input'.complete = input.complete
    BY <1>0, <1>1 DEF Transfer!Close, Inputs
  <2> QED
    BY <1>0, <1>1, <1>b, <2>1, ClientAdds DEF Transfer!Close, Transfer!Send, Kinds,
                                              SaysItsSource
<1>2. CASE Transfer!SendPull
  <2>1. /\ input' \in Inputs /\ input'.sent = input.sent
        /\ input'.complete = input.complete
    BY <1>0, <1>a, <1>2 DEF Transfer!SendPull, Inputs
  <2> QED
    BY <1>0, <1>2, <1>b, <2>1, ClientAdds DEF Transfer!SendPull, Transfer!Send, Kinds,
                                              SaysItsSource
<1>3. CASE Transfer!SendData
  <2>0. input.sent < Len(source)
    BY <1>3 DEF Transfer!SendData
  <2>1. /\ input' \in Inputs /\ input'.sent = input.sent + 1 /\ input'.sent <= Len(source)
        /\ input'.complete = input.complete
    <3>1. input' = [input EXCEPT !.pulls = input.pulls - 1, !.sent = input.sent + 1]
      BY <1>0, <1>3 DEF Transfer!SendData, Inputs
    <3>2. input.pulls - 1 \in Nat
      BY <1>3, <1>a, Zenon DEF Transfer!SendData
    <3>3. input.sent + 1 \in Nat /\ input.sent + 1 <= Len(source)
      BY <1>0, <1>a, <2>0, Counting, Zenon
    <3> QED
      BY <1>0, <3>1, <3>2, <3>3 DEF Inputs
  <2>2. <<source[input.sent + 1]>> \in Seq(Bytes)
    <3>1. input.sent + 1 \in 1..Len(source)
      BY <1>0, <1>a, <2>0, Counting, Zenon
    <3>2. source[input.sent + 1] \in Bytes
      BY <1>0, <3>1
    <3> QED
      BY <3>2
  <2>3. Transfer!Message("data", <<source[input.sent + 1]>>) \in Messages
        /\ Transfer!Message("data", <<source[input.sent + 1]>>).kind = "data"
    BY <2>2, MessageType DEF Kinds
  <2> QED
    BY <1>0, <1>3, <2>1, <2>3, ClientAdds DEF Transfer!SendData, Transfer!Send,
                                              SaysItsSource
<1>4. CASE Transfer!SendComplete
  <2>1. /\ Transfer!Message("complete", source) \in Messages
        /\ Transfer!Message("complete", source).kind = "complete"
    BY <1>0, MessageType DEF Kinds
  <2>2. /\ input' \in Inputs /\ input'.sent = input.sent
        /\ input'.complete = Transfer!Message("complete", source)
    BY <1>0, <1>a, <1>4, <2>1 DEF Transfer!SendComplete, Inputs
  <2>3. Transfer!Message("complete", source) # Transfer!Nothing
    BY <2>1, NothingType
  <2> QED
    BY <1>0, <1>4, <2>1, <2>2, <2>3, ClientAdds DEF Transfer!SendComplete, Transfer!Send,
                                                    SaysItsSource
<1>5. CASE Transfer!SendAbort
  <2>1. /\ input' \in Inputs /\ input'.sent = input.sent
        /\ input'.complete = input.complete
    BY <1>0, <1>a, <1>5 DEF Transfer!SendAbort, Inputs
  <2> QED
    BY <1>0, <1>5, <1>b, <2>1, ClientAdds DEF Transfer!SendAbort, Transfer!Send, Kinds,
                                              SaysItsSource
<1>6. CASE Transfer!RefusePull
  <2>1. /\ input' \in Inputs /\ input'.sent = input.sent
        /\ input'.complete = input.complete
    BY <1>0, <1>6 DEF Transfer!RefusePull, Inputs
  <2>2. client' \in Clients /\ (client'.outcome = "done" => client' = client)
    BY <1>0, <1>6 DEF Transfer!RefusePull, Clients, Outcomes
  <2> QED
    BY <1>0, <1>6, <1>b, <2>1, <2>2, ClientAdds DEF Transfer!RefusePull, Transfer!Send,
                                                    Kinds, SaysItsSource
<1> QED
  BY <1>1, <1>2, <1>3, <1>4, <1>5, <1>6

-----------------------------------------------------------------------------
(* The server takes a message or none, and sends one or none; what it has
   stored stays, and it stores when it hears of the end only *)
LEMMA ServerMoves ==
    ASSUME TransferInv, UNCHANGED <<kind, source, input, client>>, server' \in Servers,
           up' = up \/ (up # <<>> /\ up' = Tail(up)),
           NEW m \in Messages, down' = down \/ down' = Append(down, m),
           kind = "backup" /\ m.kind = "complete" => m.data = source,
           kind = "restore" /\ m.kind = "complete" /\ m.data = source
               => server'.stored /\ server'.data = m.data,
           kind = "restore" /\ server.stored => server'.stored /\ server'.data = server.data,
           kind = "restore" /\ server'.stored /\ ~server.stored
               => up # <<>> /\ Head(up).kind = "complete" /\ up' = Tail(up)
    PROVE  TransferInv'
<1>1. /\ up' \in Seq(Messages)
      /\ \/ up' = up
         \/ /\ Len(up') = Len(up) - 1 /\ Len(up) >= 1 /\ Head(up) = up[1]
            /\ \A i \in 1..Len(up') : up'[i] = up[i + 1]
      /\ Len(up) \in Nat
  <2>1. up \in Seq(Messages) /\ Len(up) \in Nat
    BY DEF TransferInv, TransferTypes
  <2>2. CASE up' = up
    BY <2>1, <2>2
  <2>3. CASE up # <<>> /\ up' = Tail(up)
    BY <2>1, <2>3, Taken
  <2> QED
    BY <2>2, <2>3
<1>2. PICK first \in {0, 1} :
          /\ Len(up') = Len(up) - first
          /\ \A i \in 1..Len(up') : i + first \in 1..Len(up) /\ up'[i] = up[i + first]
  BY <1>1
<1>3. /\ down' \in Seq(Messages) /\ Len(down) \in Nat
      /\ \A i \in 1..Len(down') :
            \/ i \in 1..Len(down) /\ down'[i] = down[i]
            \/ down'[i] = m
  <2>1. down \in Seq(Messages) /\ Len(down) \in Nat
    BY DEF TransferInv, TransferTypes
  <2>2. CASE down' = down
    BY <2>1, <2>2
  <2>3. CASE down' = Append(down, m)
    <3>1. /\ down' \in Seq(Messages) /\ Len(down') = Len(down) + 1
          /\ \A i \in 1..Len(down') : down'[i] = IF i <= Len(down) THEN down[i] ELSE m
      BY <2>1, <2>3, Added
    <3> QED
      BY <2>1, <3>1
  <2> QED
    BY <2>2, <2>3
<1>4. TransferTypes'
  BY <1>1, <1>3 DEF TransferInv, TransferTypes
<1>5. BackupLine' /\ PullsOfBackup'
  BY <1>2, <1>3 DEF TransferInv, BackupLine, PullsOfBackup
<1>6. EndIsLast'
  <2> SUFFICES ASSUME kind = "restore", NEW i \in 1..Len(up'), NEW j \in 1..Len(up'),
                      up'[i].kind = "complete", i < j
               PROVE  up'[j].kind \notin {"data", "complete"}
    BY DEF EndIsLast
  <2>1. /\ i + first \in 1..Len(up) /\ j + first \in 1..Len(up) /\ i + first < j + first
        /\ up'[i] = up[i + first] /\ up'[j] = up[j + first]
    BY <1>2
  <2> QED
    BY <2>1 DEF TransferInv, EndIsLast
<1>7. StoredIsLast'
  <2> SUFFICES ASSUME kind = "restore", server'.stored, NEW i \in 1..Len(up')
               PROVE  up'[i].kind \notin {"data", "complete"}
    BY DEF StoredIsLast
  <2>1. CASE server.stored
    BY <1>2, <2>1 DEF TransferInv, StoredIsLast
  <2>2. CASE ~server.stored
    <3>1. up # <<>> /\ Head(up).kind = "complete" /\ up' = Tail(up)
      BY <2>2
    <3>2. /\ Head(up) = up[1] /\ up'[i] = up[i + 1] /\ 1 \in 1..Len(up)
          /\ i + 1 \in 1..Len(up) /\ 1 < i + 1
      BY <3>1, Taken DEF TransferInv, TransferTypes
    <3> QED
      BY <3>1, <3>2 DEF TransferInv, EndIsLast
  <2> QED
    BY <2>1, <2>2
<1>8. EndIsSaid'
  <2> SUFFICES ASSUME kind = "restore", input.complete = Transfer!Nothing
               PROVE  ~server'.stored /\ \A i \in 1..Len(up') : up'[i].kind # "complete"
    BY DEF EndIsSaid
  <2>1. ~server.stored /\ \A i \in 1..Len(up) : up[i].kind # "complete"
    BY DEF TransferInv, EndIsSaid
  <2>2. ~server'.stored
    <3> SUFFICES ASSUME server'.stored PROVE FALSE
      OBVIOUS
    <3>1. up # <<>> /\ Head(up).kind = "complete"
      BY <2>1
    <3>2. Head(up) = up[1] /\ 1 \in 1..Len(up)
      BY <3>1, Taken DEF TransferInv, TransferTypes
    <3> QED
      BY <2>1, <3>1, <3>2
  <2> QED
    BY <1>2, <2>1, <2>2
<1>9. AcknowledgesStored'
  <2> SUFFICES ASSUME kind = "restore", NEW i \in 1..Len(down'), down'[i].kind = "complete",
                      down'[i].data = source
               PROVE  server'.stored /\ server'.data = down'[i].data
    BY DEF AcknowledgesStored
  <2>1. CASE i \in 1..Len(down) /\ down'[i] = down[i]
    BY <2>1 DEF TransferInv, AcknowledgesStored
  <2>2. CASE down'[i] = m
    BY <2>2
  <2> QED
    BY <1>3, <2>1, <2>2
<1>10. Transfer!TransferredWhole'
  BY DEF TransferInv, TransferTypes, Transfer!TransferredWhole
<1> QED
  BY <1>4, <1>5, <1>6, <1>7, <1>8, <1>9, <1>10 DEF TransferInv, SaysItsSource

LEMMA ServerGoesOn ==
    ASSUME TransferInv,
           \/ Transfer!ServerSends \/ Transfer!ServerStarts \/ Transfer!ServerReceives
           \/ Transfer!ServerStores \/ Transfer!ServerHearsEnd
           \/ \E m \in {"pull", "complete", "error", "end"} : Transfer!ServerErrs(m)
    PROVE  TransferInv'
<1>0. /\ server \in Servers /\ source \in Seq(Bytes) /\ Len(source) \in Nat
      /\ <<>> \in Seq(Bytes) /\ up \in Seq(Messages) /\ kind \in {"backup", "restore"}
      /\ server.at \in Nat /\ server.faults \in Nat /\ server.data \in Seq(Bytes)
      /\ server.at + 1 \in Nat /\ server.faults + 1 \in Nat
  BY Counting DEF TransferInv, TransferTypes, Servers
<1>a. /\ \A k \in Kinds : Transfer!Message(k, <<>>) \in Messages /\ Transfer!Message(k, <<>>).kind = k
      /\ \A data \in Seq(Bytes) :
            /\ Transfer!Message("data", data) \in Messages
            /\ Transfer!Message("data", data).kind = "data"
            /\ Transfer!Message("complete", data) \in Messages
            /\ Transfer!Message("complete", data).data = data
  <2>1. "data" \in Kinds /\ "complete" \in Kinds
    BY DEF Kinds
  <2> QED
    BY <1>0, <2>1, MessageType
<1>b. {"pull", "complete", "error", "end"} \subseteq Kinds
  BY DEF Kinds
<1>c. ASSUME NEW after \in Servers, NEW fault, Transfer!Faulty(after, fault)
      PROVE  /\ server' \in Servers /\ server'.stored = after.stored
             /\ server'.data = after.data
  <2>1. \/ server' = [after EXCEPT !.faults = after.faults + 1]
        \/ server' = [after EXCEPT !.faults = after.faults]
    BY <1>c DEF Transfer!Faulty
  <2>2. after.faults \in Nat /\ after.faults + 1 \in Nat
    BY Counting DEF Servers
  <2> QED
    BY <2>1, <2>2 DEF Servers
<1>1. CASE Transfer!ServerStarts
  <2>1. /\ server' = server /\ up # <<>> /\ up' = Tail(up)
        /\ down' = down \/ down' = Append(down, Transfer!Message("pull", <<>>))
        /\ UNCHANGED <<kind, source, input, client>>
    BY <1>1 DEF Transfer!ServerStarts, Transfer!Heard, Transfer!Tell
  <2> QED
    BY <1>0, <1>a, <1>b, <2>1, ServerMoves
<1>2. CASE Transfer!ServerStores
  <2>1. /\ server' \in Servers /\ server'.stored /\ server'.data = server.data
        /\ up # <<>> /\ Head(up).kind = "complete" /\ up' = Tail(up)
        /\ down' = Append(down, Transfer!Message("complete", server.data))
        /\ UNCHANGED <<kind, source, input, client>>
    BY <1>0, <1>2 DEF Transfer!ServerStores, Transfer!Heard, Transfer!Tell, Servers
  <2>2. kind = "restore"
    <3>1. Head(up) = up[1] /\ 1 \in 1..Len(up)
      BY <1>0, <2>1, Taken
    <3> QED
      BY <1>0, <2>1, <3>1 DEF TransferInv, BackupLine
  <2>3. Transfer!Message("complete", server.data) \in Messages
        /\ Transfer!Message("complete", server.data).data = server.data
    BY <1>0, <1>a
  <2> QED
    BY <2>1, <2>2, <2>3, ServerMoves
<1>3. CASE Transfer!ServerHearsEnd
  <2>1. /\ server' \in Servers /\ server'.stored = server.stored
        /\ server'.data = server.data /\ up # <<>> /\ up' = Tail(up)
        /\ down' = Append(down, Transfer!Message("end", <<>>))
        /\ UNCHANGED <<kind, source, input, client>>
    BY <1>0, <1>3 DEF Transfer!ServerHearsEnd, Transfer!Heard, Transfer!Tell, Servers
  <2>2. Transfer!Message("end", <<>>) \in Messages /\ Transfer!Message("end", <<>>).kind = "end"
    BY <1>a, <1>b
  <2> QED
    BY <1>0, <2>1, <2>2, ServerMoves
<1>4. ASSUME NEW m \in {"pull", "complete", "error", "end"}, Transfer!ServerErrs(m)
      PROVE  TransferInv'
  <2> DEFINE after == [server EXCEPT !.over = m \in {"end", "error"}]
  <2>1. PICK over \in BOOLEAN : Transfer!Faulty([server EXCEPT !.over = over], TRUE)
    <3>1. Transfer!Faulty([server EXCEPT !.over = m \in {"end", "error"}], TRUE)
      BY <1>4, Zenon DEF Transfer!ServerErrs
    <3> WITNESS (m \in {"end", "error"}) \in BOOLEAN
    <3> QED
      BY <3>1, Zenon
  <2>2. /\ server' \in Servers /\ server'.stored = server.stored
        /\ server'.data = server.data
    <3>1. /\ [server EXCEPT !.over = over] \in Servers
          /\ [server EXCEPT !.over = over].stored = server.stored
          /\ [server EXCEPT !.over = over].data = server.data
      BY <1>0 DEF Servers
    <3> QED
      BY <1>c, <2>1, <3>1
  <2>3. PICK data \in Seq(Bytes) :
            /\ down' = Append(down, Transfer!Message(m, data))
            /\ m = "complete" /\ kind = "backup" => data = source
            /\ m = "complete" /\ kind = "restore" => data # source
    BY <1>0, <1>4 DEF Transfer!ServerErrs, Transfer!Tell
  <2>4. /\ Transfer!Message(m, data) \in Messages /\ Transfer!Message(m, data).kind = m
        /\ Transfer!Message(m, data).data = data
    BY <1>b, MessageType
  <2>5. UNCHANGED <<kind, source, input, client, up>>
    BY <1>4, Zenon DEF Transfer!ServerErrs
  <2> QED
    BY <1>0, <2>2, <2>3, <2>4, <2>5, ServerMoves
<1>5. CASE Transfer!ServerSends
  <2>1. /\ up # <<>> /\ up' = Tail(up) /\ UNCHANGED <<kind, source, input, client>>
        /\ Head(up).kind = "pull"
    BY <1>5 DEF Transfer!ServerSends, Transfer!Heard
  <2>2. CASE server.at < Len(source)
    <3> DEFINE chunk == <<source[server.at + 1]>>
    <3>1. chunk \in Seq(Bytes)
      <4>1. server.at + 1 \in 1..Len(source)
        BY <1>0, <2>2, Counting
      <4>2. source[server.at + 1] \in Bytes
        BY <1>0, <4>1
      <4> QED
        BY <4>2
    <3>2. PICK data \in Transfer!Damages(chunk) :
              /\ IF data = <<>> THEN UNCHANGED down ELSE Transfer!Tell(Transfer!Message("data", data))
              /\ Transfer!Faulty([server EXCEPT !.at = @ + 1], data # chunk)
      BY <1>5, <2>2, Zenon DEF Transfer!ServerSends
    <3> HIDE DEF chunk
    <3>3. data \in Seq(Bytes)
      BY <3>1, DamageType
    <3>4. /\ server' \in Servers /\ server'.stored = server.stored
          /\ server'.data = server.data
      <4>1. /\ [server EXCEPT !.at = @ + 1] \in Servers
            /\ [server EXCEPT !.at = @ + 1].stored = server.stored
            /\ [server EXCEPT !.at = @ + 1].data = server.data
        BY <1>0 DEF Servers
      <4> QED
        BY <1>c, <3>2, <4>1
    <3>5. down' = down \/ down' = Append(down, Transfer!Message("data", data))
      BY <3>2 DEF Transfer!Tell
    <3> QED
      BY <1>0, <1>a, <2>1, <3>3, <3>4, <3>5, ServerMoves
  <2>3. CASE ~(server.at < Len(source))
    <3>1. server' = server /\ down' = Append(down, Transfer!Message("complete", source))
      BY <1>5, <2>3 DEF Transfer!ServerSends, Transfer!Tell
    <3>2. kind = "backup"
      <4>1. Head(up) = up[1] /\ 1 \in 1..Len(up)
        BY <1>0, <2>1, Taken
      <4> QED
        BY <1>0, <2>1, <4>1 DEF TransferInv, PullsOfBackup
    <3> QED
      BY <1>0, <1>a, <2>1, <3>1, <3>2, ServerMoves
  <2> QED
    BY <2>2, <2>3
<1>6. CASE Transfer!ServerReceives
  <2>1. /\ up # <<>> /\ up' = Tail(up) /\ UNCHANGED <<kind, source, input, client>>
        /\ Head(up).kind = "data" /\ down' = Append(down, Transfer!Message("pull", <<>>))
    BY <1>6 DEF Transfer!ServerReceives, Transfer!Heard, Transfer!Tell
  <2>2. PICK data \in Transfer!Damages(Head(up).data) :
            Transfer!Faulty([server EXCEPT !.data = @ \o data], data # Head(up).data)
    BY <1>6, Zenon DEF Transfer!ServerReceives
  <2>3. /\ Head(up) \in Messages /\ Head(up) = up[1] /\ 1 \in 1..Len(up)
    BY <1>0, <2>1, Taken
  <2>4. data \in Seq(Bytes)
    BY <2>3, DamageType DEF Messages
  <2>5. server' \in Servers /\ server'.stored = server.stored
    <3>1. server.data \o data \in Seq(Bytes)
      BY <1>0, <2>4
    <3>2. /\ [server EXCEPT !.data = @ \o data] \in Servers
          /\ [server EXCEPT !.data = @ \o data].stored = server.stored
      BY <1>0, <3>1 DEF Servers
    <3> QED
      BY <1>c, <2>2, <3>2
  <2>6. kind = "restore" => ~server.stored
    BY <2>1, <2>3 DEF TransferInv, StoredIsLast
  <2>7. Transfer!Message("pull", <<>>) \in Messages /\ Transfer!Message("pull", <<>>).kind = "pull"
    BY <1>a, <1>b
  <2> QED
    BY <1>0, <2>1, <2>5, <2>6, <2>7, ServerMoves
<1> QED
  BY <1>1, <1>2, <1>3, <1>4, <1>5, <1>6

-----------------------------------------------------------------------------
(* The client takes a message, or gives up; when it calls the transfer done
   what it has been told is true *)
LEMMA ClientTakes ==
    ASSUME TransferInv, UNCHANGED <<kind, source, server, up>>,
           down' = down \/ (down # <<>> /\ down' = Tail(down)),
           input' \in Inputs, input'.sent = input.sent, input'.complete = input.complete,
           client' \in Clients,
           client'.outcome = "done" =>
               IF kind = "backup" THEN client'.got = source
               ELSE server.stored /\ server.data = source
    PROVE  TransferInv'
<1>1. /\ down' \in Seq(Messages)
      /\ \A i \in 1..Len(down') : \E j \in 1..Len(down) : down'[i] = down[j]
  <2>1. down \in Seq(Messages) /\ Len(down) \in Nat
    BY DEF TransferInv, TransferTypes
  <2>2. CASE down' = down
    BY <2>1, <2>2
  <2>3. CASE down # <<>> /\ down' = Tail(down)
    <3>1. /\ down' \in Seq(Messages) /\ Len(down') = Len(down) - 1
          /\ \A i \in 1..Len(down') : down'[i] = down[i + 1]
      BY <2>1, <2>3, Taken
    <3>2. \A i \in 1..Len(down') : i + 1 \in 1..Len(down)
      BY <2>1, <3>1
    <3> QED
      BY <3>1, <3>2
  <2> QED
    BY <2>2, <2>3
<1>2. TransferTypes'
  BY <1>1 DEF TransferInv, TransferTypes
<1>3. BackupLine' /\ AcknowledgesStored'
  BY <1>1 DEF TransferInv, BackupLine, AcknowledgesStored
<1>4. Transfer!TransferredWhole'
  BY DEF Transfer!TransferredWhole
<1> QED
  BY <1>2, <1>3, <1>4
     DEF TransferInv, SaysItsSource, PullsOfBackup, EndIsLast, StoredIsLast, EndIsSaid

LEMMA ClientGoesOn ==
    ASSUME TransferInv,
           \/ Transfer!Yield \/ Transfer!BackupCompletes \/ Transfer!BackupFails
           \/ Transfer!SourceFailed \/ Transfer!Pulled
           \/ Transfer!RestoreCompletes \/ Transfer!RestoreFails \/ Transfer!Abandon
    PROVE  TransferInv'
<1>0. /\ input \in Inputs /\ client \in Clients /\ down \in Seq(Messages)
      /\ client.got \in Seq(Bytes) /\ client.outcome \in Outcomes
      /\ input.pulls \in Nat /\ input.pulls + 1 \in Nat
      /\ kind \in {"backup", "restore"} /\ SaysItsSource
  BY Counting DEF TransferInv, TransferTypes, Inputs, Clients
<1>a. ASSUME NEW outcome \in Outcomes, Transfer!Ends(outcome)
      PROVE  /\ input' \in Inputs /\ input'.sent = input.sent
             /\ input'.complete = input.complete
             /\ client' \in Clients /\ client'.outcome = outcome /\ client'.got = client.got
  BY <1>0, <1>a DEF Transfer!Ends, Inputs, Clients
<1>b. ASSUME NEW m \in SUBSET Kinds, Transfer!Comes(m)
      PROVE  /\ down # <<>> /\ down' = Tail(down) /\ client.outcome = ""
             /\ Head(down) = down[1] /\ 1 \in 1..Len(down) /\ Head(down) \in Messages
             /\ Head(down).kind \in m
  <2>1. down # <<>> /\ down' = Tail(down) /\ client.outcome = "" /\ Head(down).kind \in m
    BY <1>b, Zenon DEF Transfer!Comes
  <2>2. /\ Head(down) = down[1] /\ Head(down) \in Messages
        /\ Len(down) >= 1 /\ Len(down) \in Nat
    BY <1>0, <2>1, Taken
  <2>3. 1 \in 1..Len(down)
    BY <2>2
  <2> QED
    BY <2>1, <2>2, <2>3
<1>1. CASE Transfer!Yield
  <2>1. Transfer!Comes({"data"}) /\ {"data"} \in SUBSET Kinds
    BY <1>1 DEF Transfer!Yield, Kinds
  <2>2. client.got \o Head(down).data \in Seq(Bytes)
    <3>1. Head(down) \in Messages
      BY <1>b, <2>1
    <3>2. Head(down).data \in Seq(Bytes)
      BY <3>1, Zenon DEF Messages
    <3>3. \A s, t \in Seq(Bytes) : s \o t \in Seq(Bytes)
      OBVIOUS
    <3> QED
      BY <1>0, <3>2, <3>3, Zenon
  <2>3. client' \in Clients /\ client'.outcome = ""
    BY <1>0, <1>1, <1>b, <2>1, <2>2 DEF Transfer!Yield, Clients
  <2>4. /\ input' \in Inputs /\ input'.sent = input.sent
        /\ input'.complete = input.complete
    BY <1>0, <1>1 DEF Transfer!Yield, Inputs
  <2> QED
    BY <1>1, <1>b, <2>1, <2>3, <2>4, ClientTakes DEF Transfer!Yield
<1>2. CASE Transfer!BackupCompletes
  <2>1. /\ Transfer!Comes({"complete"}) /\ {"complete"} \in SUBSET Kinds /\ kind = "backup"
        /\ UNCHANGED <<kind, source, server, up>>
    BY <1>2 DEF Transfer!BackupCompletes, Kinds
  <2>2. PICK outcome \in {"done", "RoomException"} :
            Transfer!Ends(outcome) /\ (outcome = "done" => Head(down).data = client.got)
    BY <1>2 DEF Transfer!BackupCompletes, Transfer!Verified
  <2>3. outcome \in Outcomes
    BY DEF Outcomes
  <2>4. Head(down).data = source
    BY <1>b, <2>1 DEF TransferInv, BackupLine
  <2> QED
    BY <1>a, <1>b, <2>1, <2>2, <2>3, <2>4, ClientTakes
<1>3. CASE Transfer!RestoreCompletes
  <2>1. /\ Transfer!Comes({"complete"}) /\ {"complete"} \in SUBSET Kinds /\ kind = "restore"
        /\ UNCHANGED <<kind, source, server, up>>
    BY <1>3 DEF Transfer!RestoreCompletes, Kinds
  <2>2. PICK outcome \in {"done", "RoomException"} :
            Transfer!Ends(outcome) /\ (outcome = "done" => Transfer!Acknowledged(Head(down).data))
    BY <1>3 DEF Transfer!RestoreCompletes
  <2>3. outcome \in Outcomes
    BY DEF Outcomes
  <2>4. Head(down).data = source => server.stored /\ server.data = Head(down).data
    <3>1. /\ Head(down) = down[1] /\ 1 \in 1..Len(down)
          /\ Head(down).kind \in {"complete"}
      BY <1>b, <2>1
    <3>2. down[1].kind = "complete"
      BY <3>1
    <3>3. AcknowledgesStored
      BY DEF TransferInv
    <3> QED
      BY <2>1, <3>1, <3>2, <3>3 DEF AcknowledgesStored
  <2>5. Transfer!Acknowledged(Head(down).data) => Head(down).data = source
    BY <1>0 DEF Transfer!Acknowledged, SaysItsSource, Transfer!Message, Transfer!Nothing
  <2> QED
    BY <1>a, <1>b, <2>1, <2>2, <2>3, <2>4, <2>5, ClientTakes
<1>4. CASE Transfer!BackupFails \/ Transfer!SourceFailed \/ Transfer!RestoreFails
  <2>1. PICK m \in SUBSET Kinds : Transfer!Comes(m) /\ UNCHANGED <<kind, source, server, up>>
    BY <1>4 DEF Transfer!BackupFails, Transfer!SourceFailed, Transfer!RestoreFails, Kinds
  <2>2. PICK outcome \in {"RoomException", "source's error"} : Transfer!Ends(outcome)
    BY <1>4 DEF Transfer!BackupFails, Transfer!SourceFailed, Transfer!RestoreFails
  <2>3. outcome \in Outcomes
    BY DEF Outcomes
  <2> QED
    BY <1>a, <1>b, <2>1, <2>2, <2>3, ClientTakes
<1>5. CASE Transfer!Pulled
  <2>1. /\ Transfer!Comes({"pull"}) /\ {"pull"} \in SUBSET Kinds
        /\ UNCHANGED <<kind, source, client, server, up>>
    BY <1>5 DEF Transfer!Pulled, Kinds
  <2>2. /\ input' \in Inputs /\ input'.sent = input.sent
        /\ input'.complete = input.complete
    BY <1>0, <1>5 DEF Transfer!Pulled, Inputs
  <2> QED
    BY <1>0, <1>b, <2>1, <2>2, ClientTakes
<1>6. CASE Transfer!Abandon
  <2>1. Transfer!Ends("abandoned") /\ UNCHANGED <<kind, source, server, up, down>>
    BY <1>6 DEF Transfer!Abandon
  <2>2. "abandoned" \in Outcomes
    BY DEF Outcomes
  <2> QED
    BY <1>a, <2>1, <2>2, ClientTakes
<1> QED
  BY <1>1, <1>2, <1>3, <1>4, <1>5, <1>6

(* With the link goes all that was on it. *)
LEMMA LinkGoes == TransferInv /\ Transfer!LinkLost => TransferInv'
<1> SUFFICES ASSUME TransferInv, Transfer!LinkLost PROVE TransferInv'
  OBVIOUS
<1>1. /\ input' \in Inputs /\ input'.sent = input.sent /\ input'.complete = input.complete
  BY DEF Transfer!LinkLost, TransferInv, TransferTypes, Inputs
<1>2. client' \in Clients /\ client'.outcome = "RoomException"
  BY DEF Transfer!LinkLost, TransferInv, TransferTypes, Clients, Outcomes
<1>3. /\ server' \in Servers /\ server'.stored = server.stored
      /\ UNCHANGED <<kind, source>>
  BY DEF Transfer!LinkLost, TransferInv, TransferTypes, Servers
<1>4. /\ up' \in Seq(Messages) /\ down' \in Seq(Messages)
      /\ \A i \in 1..Len(up') : FALSE
      /\ \A i \in 1..Len(down') : FALSE
  <2>1. up' = <<>> /\ down' = <<>>
    BY DEF Transfer!LinkLost
  <2>2. <<>> \in Seq(Messages) /\ \A i \in 1..Len(<<>>) : FALSE
    OBVIOUS
  <2> QED
    BY <2>1, <2>2, Zenon
<1>5. TransferTypes'
  BY <1>1, <1>2, <1>3, <1>4 DEF TransferInv, TransferTypes
<1> QED
  BY <1>1, <1>2, <1>3, <1>4, <1>5
     DEF TransferInv, SaysItsSource, BackupLine, PullsOfBackup, EndIsLast, StoredIsLast,
         EndIsSaid, AcknowledgesStored, Transfer!TransferredWhole

LEMMA TransferNextKeeps == TransferInv /\ [Transfer!Next]_(Transfer!vars) => TransferInv'
<1> SUFFICES ASSUME TransferInv, [Transfer!Next]_(Transfer!vars) PROVE TransferInv'
  OBVIOUS
<1>1. CASE UNCHANGED Transfer!vars
  BY <1>1 DEF Transfer!vars, TransferInv, TransferTypes, SaysItsSource, BackupLine,
              PullsOfBackup, EndIsLast,
              StoredIsLast, EndIsSaid, AcknowledgesStored, Transfer!TransferredWhole
<1> QED
  BY <1>1, ClientSends, ServerGoesOn, ClientGoesOn, LinkGoes DEF Transfer!Next

(* The variables have their types (backup, restore and _TransferInput). *)
THEOREM TransferTypeCorrect == Transfer!Spec => []Transfer!TypeOK
<1>1. TransferInv => Transfer!TypeOK
  <2> SUFFICES ASSUME TransferInv PROVE Transfer!TypeOK
    OBVIOUS
  <2>1. input.sent \in Nat /\ Len(source) \in Nat /\ input.sent <= Len(source)
    BY DEF TransferInv, TransferTypes, Inputs
  <2>2. \A n, l \in Nat : n <= l => n \in 0..l
    OBVIOUS
  <2>3. input.sent \in 0..Len(source)
    BY <2>1, <2>2, Zenon
  <2> QED
    BY <2>3 DEF TransferInv, TransferTypes, Transfer!TypeOK, Inputs, Clients, Outcomes
<1> QED
  BY TransferInitHolds, TransferNextKeeps, <1>1, PTL DEF Transfer!Spec

(* A backup that comes to its end has yielded the whole database, and a     *)
(* restore that does has had it stored, whatever the server does to the     *)
(* chunks: what backup() and restore() compare is enough.                   *)
THEOREM MovedWhole == Transfer!Spec => []Transfer!TransferredWhole
<1>1. TransferInv => Transfer!TransferredWhole
  BY DEF TransferInv
<1> QED
  BY TransferInitHolds, TransferNextKeeps, <1>1, PTL DEF Transfer!Spec

-----------------------------------------------------------------------------
(* A source that raises                                                    *)

(* The abort of the source is on its way, with no end of the data before   *)
(* it, or the server has heard of it                                       *)
AbortIsAhead ==
    input.error =>
        /\ kind = "restore" /\ ~server.stored
        /\ \/ server.over
           \/ \E i \in 1..Len(up) : up[i].kind = "abort"
                                    /\ \A j \in 1..i : up[j].kind # "complete"

(* A transfer that is done asks its source for nothing more *)
DoneIsClosed == client.outcome = "done" => input.closed /\ ~input.error

AbortInv == TransferInv /\ AbortIsAhead /\ DoneIsClosed

LEMMA AbortInitHolds == Transfer!Init => AbortInv
<1>1. ASSUME Transfer!Init PROVE ~input.error /\ client.outcome = ""
  <2>1. /\ input = [pulls |-> IF kind = "backup" THEN 1 ELSE 0, closed |-> FALSE, sent |-> 0,
                    complete |-> Transfer!Nothing, error |-> FALSE, over |-> FALSE]
        /\ client = [got |-> <<>>, outcome |-> ""]
    BY <1>1, Zenon DEF Transfer!Init
  <2> QED
    BY <2>1
<1>2. ~input.error /\ client.outcome = "" => AbortIsAhead /\ DoneIsClosed
  BY DEF AbortIsAhead, DoneIsClosed
<1> QED
  BY <1>1, <1>2, TransferInitHolds DEF AbortInv

(* What the client adds to the line goes behind the abort. *)
LEMMA AddedBehind ==
    ASSUME AbortInv, NEW m \in Messages, up' = Append(up, m),
           UNCHANGED <<kind, server>>, input'.error = input.error
    PROVE  AbortIsAhead'
<1>1. up \in Seq(Messages)
  BY DEF AbortInv, TransferInv, TransferTypes
<1>2. /\ Len(up') = Len(up) + 1 /\ Len(up) \in Nat
      /\ \A i \in 1..Len(up) : i \in 1..Len(up') /\ up'[i] = up[i]
  BY <1>1, Added
<1>3. ASSUME NEW i \in 1..Len(up), up[i].kind = "abort",
             \A j \in 1..i : up[j].kind # "complete"
      PROVE  /\ i \in 1..Len(up') /\ up'[i].kind = "abort"
             /\ \A j \in 1..i : up'[j].kind # "complete"
  BY <1>2, <1>3
<1> QED
  BY <1>3 DEF AbortInv, AbortIsAhead

(* What the server takes is not the abort, or it knows of it then. *)
LEMMA TakenBefore ==
    ASSUME AbortInv, up # <<>>, up' = Tail(up), UNCHANGED <<kind, input>>,
           Head(up).kind \in {"abort", "end"} => server'.over,
           server.over => server'.over,
           server'.stored => server.stored \/ (Head(up).kind = "complete" /\ ~server.over)
    PROVE  AbortIsAhead'
<1>1. up \in Seq(Messages)
  BY DEF AbortInv, TransferInv, TransferTypes
<1>2. /\ Len(up') = Len(up) - 1 /\ Len(up) \in Nat /\ Len(up) >= 1
      /\ \A i \in 1..Len(up') : up'[i] = up[i + 1]
      /\ Head(up) = up[1]
  BY <1>1, Taken
<1> SUFFICES ASSUME input.error PROVE AbortIsAhead'
  BY DEF AbortIsAhead
<1>3. CASE server.over
  BY <1>3 DEF AbortInv, AbortIsAhead
<1>4. ASSUME NEW i \in 1..Len(up), up[i].kind = "abort",
             \A j \in 1..i : up[j].kind # "complete"
      PROVE  AbortIsAhead'
  <2>1. Head(up).kind # "complete"
    <3>1. 1 \in 1..i
      OBVIOUS
    <3> QED
      BY <1>2, <1>4, <3>1
  <2>2. CASE i = 1
    BY <1>2, <1>4, <2>1, <2>2 DEF AbortInv, AbortIsAhead
  <2>3. CASE i # 1
    <3>1. /\ i - 1 \in 1..Len(up') /\ up'[i - 1] = up[i]
          /\ \A j \in 1..(i - 1) : j \in 1..Len(up') /\ up'[j] = up[j + 1] /\ j + 1 \in 1..i
      BY <1>2, <2>3
    <3>2. \A j \in 1..(i - 1) : up'[j].kind # "complete"
      BY <1>4, <3>1
    <3> QED
      BY <1>4, <2>1, <3>1, <3>2 DEF AbortInv, AbortIsAhead
  <2> QED
    BY <2>2, <2>3
<1> QED
  BY <1>3, <1>4 DEF AbortInv, AbortIsAhead

LEMMA AbortNextKeeps == AbortInv /\ [Transfer!Next]_(Transfer!vars) => AbortInv'
<1> SUFFICES ASSUME AbortInv, [Transfer!Next]_(Transfer!vars)
             PROVE  AbortIsAhead' /\ DoneIsClosed'
  BY TransferNextKeeps DEF AbortInv
<1>0. /\ input \in Inputs /\ client \in Clients /\ server \in Servers
      /\ up \in Seq(Messages) /\ source \in Seq(Bytes)
      /\ kind \in {"backup", "restore"}
  BY DEF AbortInv, TransferInv, TransferTypes
<1>1. CASE Transfer!Close \/ Transfer!SendPull \/ Transfer!SendData
           \/ Transfer!SendComplete \/ Transfer!RefusePull
  <2>1. PICK m : up' = Append(up, m)
    BY <1>1 DEF Transfer!Close, Transfer!SendPull, Transfer!SendData,
                Transfer!SendComplete, Transfer!RefusePull, Transfer!Send
  <2>2. UNCHANGED <<kind, server>> /\ input'.error = input.error
    BY <1>0, <1>1 DEF Transfer!Close, Transfer!SendPull, Transfer!SendData,
                Transfer!SendComplete, Transfer!RefusePull, Inputs
  <2>3. client'.outcome = "done" => client.outcome = "done"
    BY <1>0, <1>1 DEF Transfer!Close, Transfer!SendPull, Transfer!SendData,
                Transfer!SendComplete, Transfer!RefusePull, Clients
  <2>4. input'.closed = input.closed
    BY <1>0, <1>1 DEF Transfer!Close, Transfer!SendPull, Transfer!SendData,
                Transfer!SendComplete, Transfer!RefusePull, Inputs
  <2>5. up' \in Seq(Messages)
    BY TransferNextKeeps DEF AbortInv, TransferInv, TransferTypes
  <2>6. m \in Messages
    <3>1. up'[Len(up) + 1] = m /\ Len(up) + 1 \in 1..Len(up')
      BY <1>0, <2>1
    <3> QED
      BY <2>5, <3>1
  <2> QED
    BY <2>1, <2>2, <2>3, <2>4, <2>6, AddedBehind DEF AbortInv, DoneIsClosed
<1>2. CASE Transfer!SendAbort
  <2>1. /\ up' = Append(up, Transfer!Message("abort", <<>>))
        /\ UNCHANGED <<kind, source, client, server>>
        /\ kind = "restore" /\ input.complete = Transfer!Nothing /\ ~input.closed
    BY <1>2 DEF Transfer!SendAbort, Transfer!Send, Transfer!Pumps
  <2>2. /\ Len(up') = Len(up) + 1 /\ Len(up) \in Nat
        /\ \A i \in 1..Len(up) : up'[i] = up[i]
        /\ up'[Len(up) + 1] = Transfer!Message("abort", <<>>)
    BY <1>0, <2>1
  <2>3. ~server.stored /\ \A i \in 1..Len(up) : up[i].kind # "complete"
    BY <2>1 DEF AbortInv, TransferInv, EndIsSaid
  <2>4. up'[Len(up) + 1].kind = "abort" /\ Len(up) + 1 \in 1..Len(up')
    BY <2>2 DEF Transfer!Message
  <2>5. \A j \in 1..(Len(up) + 1) : up'[j].kind # "complete"
    BY <2>2, <2>3, <2>4
  <2> QED
    BY <2>1, <2>3, <2>4, <2>5 DEF AbortInv, AbortIsAhead, DoneIsClosed
<1>3. CASE Transfer!ServerSends \/ Transfer!ServerStarts \/ Transfer!ServerReceives
           \/ Transfer!ServerStores \/ Transfer!ServerHearsEnd
  <2>1. /\ up # <<>> /\ up' = Tail(up) /\ UNCHANGED <<kind, input, client>> /\ ~server.over
    BY <1>3 DEF Transfer!ServerSends, Transfer!ServerStarts, Transfer!ServerReceives,
                Transfer!ServerStores, Transfer!ServerHearsEnd, Transfer!Heard
  <2>2. Head(up).kind \in {"abort", "end"} => server'.over
    BY <1>0, <1>3 DEF Transfer!ServerSends, Transfer!ServerStarts, Transfer!ServerReceives,
                Transfer!ServerStores, Transfer!ServerHearsEnd, Transfer!Heard, Servers
  <2>3. server'.stored => server.stored \/ Head(up).kind = "complete"
    BY <1>0, <1>3 DEF Transfer!ServerSends, Transfer!ServerStarts, Transfer!ServerReceives,
                Transfer!ServerStores, Transfer!ServerHearsEnd, Transfer!Heard,
                Transfer!Faulty, Servers
  <2> QED
    BY <2>1, <2>2, <2>3, TakenBefore DEF AbortInv, DoneIsClosed
<1>4. ASSUME NEW m \in {"pull", "complete", "error", "end"}, Transfer!ServerErrs(m)
      PROVE  AbortIsAhead' /\ DoneIsClosed'
  <2>1. UNCHANGED <<kind, input, client, up>> /\ ~server.over
    BY <1>4 DEF Transfer!ServerErrs
  <2>2. server'.stored = server.stored
    BY <1>0, <1>4 DEF Transfer!ServerErrs, Transfer!Faulty, Servers
  <2> QED
    BY <2>1, <2>2 DEF AbortInv, AbortIsAhead, DoneIsClosed
<1>5. CASE Transfer!LinkLost
  <2>1. /\ kind' = kind /\ client'.outcome = "RoomException" /\ input'.error = input.error
        /\ server'.over /\ server'.stored = server.stored
    BY <1>0, <1>5 DEF Transfer!LinkLost, Inputs, Clients, Servers
  <2> QED
    BY <2>1 DEF AbortInv, AbortIsAhead, DoneIsClosed
<1>6. CASE Transfer!Yield \/ Transfer!BackupCompletes \/ Transfer!BackupFails
           \/ Transfer!SourceFailed \/ Transfer!Pulled \/ Transfer!RestoreCompletes
           \/ Transfer!RestoreFails \/ Transfer!Abandon
  <2>1. UNCHANGED <<kind, server, up>> /\ input'.error = input.error
    BY <1>0, <1>6 DEF Transfer!Yield, Transfer!BackupCompletes, Transfer!BackupFails,
             Transfer!SourceFailed, Transfer!Pulled, Transfer!RestoreCompletes,
             Transfer!RestoreFails, Transfer!Abandon, Transfer!Ends, Inputs
  <2>2. client.outcome = ""
    BY <1>6 DEF Transfer!Yield, Transfer!BackupCompletes, Transfer!BackupFails,
             Transfer!SourceFailed, Transfer!Pulled, Transfer!RestoreCompletes,
             Transfer!RestoreFails, Transfer!Abandon, Transfer!Comes
  <2>3. client'.outcome = "done" => input'.closed /\ (kind = "backup" \/ ~input.error)
    BY <1>0, <1>6, <2>2 DEF Transfer!Yield, Transfer!BackupCompletes, Transfer!BackupFails,
             Transfer!SourceFailed, Transfer!Pulled, Transfer!RestoreCompletes,
             Transfer!RestoreFails, Transfer!Abandon, Transfer!Ends, Inputs, Clients
  <2> QED
    BY <2>1, <2>3 DEF AbortInv, AbortIsAhead, DoneIsClosed
<1>7. CASE UNCHANGED Transfer!vars
  BY <1>7 DEF Transfer!vars, AbortInv, AbortIsAhead, DoneIsClosed
<1> QED
  BY <1>1, <1>2, <1>3, <1>4, <1>5, <1>6, <1>7 DEF Transfer!Next

(* A source that raises is never taken for a database that ends there: the  *)
(* restore is not done, and the server has stored nothing.                  *)
THEOREM SourceErrorIsNoEnd == Transfer!Spec => []Transfer!AbortIsNoEnd
<1>1. AbortInv => Transfer!AbortIsNoEnd
  BY DEF AbortInv, AbortIsAhead, DoneIsClosed, Transfer!AbortIsNoEnd
<1> QED
  BY AbortInitHolds, AbortNextKeeps, <1>1, PTL DEF Transfer!Spec

-----------------------------------------------------------------------------
(***************************************************************************)
(* Paged listings, of the REST client and of the files client: for pages   *)
(* of any length, and entries that come and go between them.                *)
(***************************************************************************)

(* One more page                                                            *)
LEMMA PageAdded ==
    ASSUME NEW S, NEW got \in Seq(SUBSET S), NEW page \in SUBSET S
    PROVE  /\ Append(got, page) \in Seq(SUBSET S)
           /\ DOMAIN Append(got, page) = DOMAIN got \cup {Len(got) + 1}
           /\ \A k \in DOMAIN got : k # Len(got) + 1 /\ Append(got, page)[k] = got[k]
           /\ Append(got, page)[Len(got) + 1] = page
  OBVIOUS

(* A page more: what lies between the token and its last entry is on it    *)
(* The pages so far hold what stood up to the token, once                   *)
ReadTo(got, stood, token) ==
    /\ \A k \in DOMAIN got : \A e \in got[k] : e <= token
    /\ \A e \in stood : e <= token => \E k \in DOMAIN got : e \in got[k]
    /\ \A j, k \in DOMAIN got : j # k => got[j] \cap got[k] = {}

(* They hold what stood up to the last entry of the page, or all of it      *)
ReadBy(got, stood, last) ==
    /\ \A k \in DOMAIN got : \A e \in got[k] : last = 0 \/ e <= last
    /\ \A e \in stood : last = 0 \/ e <= last => \E k \in DOMAIN got : e \in got[k]
    /\ \A j, k \in DOMAIN got : j # k => got[j] \cap got[k] = {}

(* The page holds what stood of the stretch from the token to its last entry *)
OfStretch(page, stood, token, last) ==
    /\ last = 0 \/ last > token
    /\ \A e \in page : e > token /\ (last = 0 \/ e <= last)
    /\ \A e \in stood : e > token /\ (last = 0 \/ e <= last) => e \in page

LEMMA PagesGrow ==
    ASSUME NEW S, S \subseteq Nat, NEW got \in Seq(SUBSET S), NEW page \in SUBSET S,
           NEW stood \in SUBSET S, NEW token \in Nat, NEW last \in Nat,
           ReadTo(got, stood, token), OfStretch(page, stood, token, last),
           NEW new, new = Append(got, page)
    PROVE  ReadBy(new, stood, last)
<1> USE DEF ReadTo, ReadBy, OfStretch
<1> DEFINE end == Len(got) + 1
<1>1. /\ DOMAIN new = DOMAIN got \cup {end}
      /\ \A k \in DOMAIN got : k # end /\ new[k] = got[k]
      /\ new[end] = page
  BY PageAdded
<1>2. \A k \in DOMAIN got : got[k] \subseteq Nat
  <2>1. \A k \in DOMAIN got : got[k] \in SUBSET S
    OBVIOUS
  <2> QED
    BY <2>1
<1> HIDE DEF end
<1>3. ASSUME NEW k \in DOMAIN new, NEW e \in new[k] PROVE last = 0 \/ e <= last
  <2>1. CASE k \in DOMAIN got
    <3>1. e <= token /\ e \in Nat
      BY <1>1, <1>2, <1>3, <2>1
    <3> QED
      BY <3>1
  <2>2. CASE k = end
    BY <1>1, <1>3, <2>2
  <2> QED
    BY <1>1, <1>3, <2>1, <2>2
<1>4. ASSUME NEW e \in stood, last = 0 \/ e <= last PROVE \E k \in DOMAIN new : e \in new[k]
  <2>1. CASE e <= token
    <3>1. PICK k \in DOMAIN got : e \in got[k]
      BY <2>1
    <3> QED
      BY <1>1, <3>1
  <2>2. CASE e > token
    <3>1. e \in page
      BY <1>4, <2>2
    <3> QED
      BY <1>1, <3>1
  <2>3. e \in Nat
    OBVIOUS
  <2> QED
    BY <2>1, <2>2, <2>3
<1>5. ASSUME NEW k \in DOMAIN got PROVE got[k] \cap page = {}
  <2>1. ASSUME NEW e \in got[k], e \in page PROVE FALSE
    <3>1. e <= token /\ e > token /\ e \in Nat
      BY <1>2, <1>5, <2>1
    <3> QED
      BY <3>1
  <2> QED
    BY <2>1
<1>6. ASSUME NEW j \in DOMAIN new, NEW k \in DOMAIN new, j # k PROVE new[j] \cap new[k] = {}
  <2>1. CASE j \in DOMAIN got /\ k \in DOMAIN got
    BY <1>1, <1>6, <2>1
  <2>2. CASE j \in DOMAIN got /\ k = end
    BY <1>1, <1>5, <2>2
  <2>3. CASE j = end /\ k \in DOMAIN got
    BY <1>1, <1>5, <2>3
  <2> QED
    BY <1>1, <1>6, <2>1, <2>2, <2>3
<1> QED
  BY <1>3, <1>4, <1>6

-----------------------------------------------------------------------------
(***************************************************************************)
(* Theorems about RestClient: for every server, and every size of a page.  *)
(***************************************************************************)

RestOutcomes ==
    {"", "value", "None", "ValueError", "RuntimeError", "ClientError", "RoomException",
     "escaped", "NotFoundError", "PermissionDeniedError", "ConflictError",
     "RoomDisabledError", "ValidationErrorResponse", "ServerError"}

RestPhases == {"idle", "sent", "answered", "over"}
RestMethods == Rest!Methods \cup {[name |-> "", reads |-> "none"]}
RestStatuses == Rest!Statuses \cup {0}
Pagings == Seq(SUBSET Entries)

RestCall ==
    [phase : RestPhases, method : RestMethods, status : RestStatuses, body : Rest!Bodies,
     done : Nat, outcome : RestOutcomes,
     listing : SUBSET Entries, stood : SUBSET Entries, token : Nat, page : SUBSET Entries,
     next : Nat, got : Pagings]

RestTypes ==
    /\ session \in [owner : {"client", "application"}, closed : BOOLEAN]
    /\ restCall \in RestCall
    /\ (restCall.method.name = "") = (restCall.phase = "idle")
    /\ restCall.stood \subseteq restCall.listing

(* What the answer under way says of what has been done                     *)
AnswerTells ==
    /\ restCall.phase = "sent" => restCall.done = 0 \/ Rest!Pages
    /\ restCall.phase = "answered" =>
           /\ restCall.status \in Rest!Statuses
           /\ restCall.status < 400 => restCall.done > 0
           /\ restCall.status >= 400 /\ restCall.status < 500 =>
                  restCall.done = 0 \/ Rest!Pages

(* The pages read hold what stood up to the token, and each a part of its own *)
PagesSoFar ==
    Rest!Pages /\ restCall.phase \in {"sent", "answered"} =>
        /\ \A k \in DOMAIN restCall.got : \A e \in restCall.got[k] : e <= restCall.token
        /\ \A e \in restCall.stood : e <= restCall.token =>
               \E k \in DOMAIN restCall.got : e \in restCall.got[k]
        /\ \A j, k \in DOMAIN restCall.got :
               j # k => restCall.got[j] \cap restCall.got[k] = {}

(* The page that has been sent holds what still stands of its stretch       *)
PageOnItsWay ==
    Rest!Pages /\ restCall.phase = "answered" =>
        /\ restCall.next = 0 \/ restCall.next > restCall.token
        /\ \A e \in restCall.page :
               e > restCall.token /\ (restCall.next = 0 \/ e <= restCall.next)
        /\ \A e \in restCall.stood :
               e > restCall.token /\ (restCall.next = 0 \/ e <= restCall.next) =>
                   e \in restCall.page

RestInv == /\ RestTypes /\ AnswerTells /\ PagesSoFar /\ PageOnItsWay
           /\ Rest!OutcomeTells /\ Rest!PagesWhole

(* No method goes without a name                                            *)
Named(table) == \A entry \in table : entry.name # ""

LEMMA MethodsAreNamed == Named(Rest!Methods)
<1>1. /\ Named(Rest!Projects)
      /\ Named(Rest!ProjectSettings)
      /\ Named(Rest!Users)
      /\ Named(Rest!ProjectReads)
      /\ Named(Rest!ServiceAccounts)
      /\ Named(Rest!Tokens)
      /\ Named(Rest!Billing)
      /\ Named(Rest!Usage)
      /\ Named(Rest!ApiKeys)
      /\ Named(Rest!SessionLists)
      /\ Named(Rest!SessionDetails)
  BY DEF Named, Rest!Reading, Rest!Projects, Rest!ProjectSettings, Rest!Users,
         Rest!ProjectReads, Rest!ServiceAccounts, Rest!Tokens, Rest!Billing, Rest!Usage,
         Rest!ApiKeys, Rest!SessionLists, Rest!SessionDetails
<1>2. /\ Named(Rest!Mailboxes)
      /\ Named(Rest!Deliveries)
      /\ Named(Rest!NewRoutes)
      /\ Named(Rest!CustomDomains)
      /\ Named(Rest!Routes)
      /\ Named(Rest!Feeds)
      /\ Named(Rest!RoomFeeds)
      /\ Named(Rest!FeedSubscriptions)
      /\ Named(Rest!LLMLoggers)
      /\ Named(Rest!Templates)
      /\ Named(Rest!Services)
  BY DEF Named, Rest!Reading, Rest!Mailboxes, Rest!Deliveries, Rest!NewRoutes,
         Rest!CustomDomains, Rest!Routes, Rest!Feeds, Rest!RoomFeeds,
         Rest!FeedSubscriptions, Rest!LLMLoggers, Rest!Templates, Rest!Services
<1>3. /\ Named(Rest!ServiceReads)
      /\ Named(Rest!RoomServices)
      /\ Named(Rest!RoomServiceReads)
      /\ Named(Rest!Repositories)
      /\ Named(Rest!UserSecrets)
      /\ Named(Rest!UserSecretVersions)
      /\ Named(Rest!AccountSecrets)
      /\ Named(Rest!AccountSecretVersions)
      /\ Named(Rest!PullSecrets)
      /\ Named(Rest!Rooms)
      /\ Named(Rest!RoomChanges)
  BY DEF Named, Rest!Reading, Rest!ServiceReads, Rest!RoomServices,
         Rest!RoomServiceReads, Rest!Repositories, Rest!UserSecrets,
         Rest!UserSecretVersions, Rest!AccountSecrets, Rest!AccountSecretVersions,
         Rest!PullSecrets, Rest!Rooms, Rest!RoomChanges
<1>4. /\ Named(Rest!Volumes)
      /\ Named(Rest!Groups)
      /\ Named(Rest!GroupMembers)
      /\ Named(Rest!Agents)
      /\ Named(Rest!Connections)
      /\ Named(Rest!Lists)
      /\ Named(Rest!Access)
      /\ Named(Rest!Policies)
      /\ Named(Rest!OAuthClients)
      /\ Named(Rest!ScheduledTasks)
      /\ Named(Rest!ScheduledTaskLists)
  BY DEF Named, Rest!Reading, Rest!Volumes, Rest!Groups, Rest!GroupMembers, Rest!Agents,
         Rest!Connections, Rest!Lists, Rest!Access, Rest!Policies, Rest!OAuthClients,
         Rest!ScheduledTasks, Rest!ScheduledTaskLists
<1> SUFFICES ASSUME NEW row \in Rest!Methods PROVE row.name # ""
  BY DEF Named
<1> DEFINE Firsts == {Rest!Projects, Rest!ProjectSettings, Rest!Users, Rest!ProjectReads,
                     Rest!ServiceAccounts, Rest!Tokens, Rest!Billing, Rest!Usage,
                     Rest!ApiKeys, Rest!SessionLists, Rest!SessionDetails}
<1> DEFINE Seconds == {Rest!Mailboxes, Rest!Deliveries, Rest!NewRoutes, Rest!CustomDomains,
                      Rest!Routes, Rest!Feeds, Rest!RoomFeeds, Rest!FeedSubscriptions,
                      Rest!LLMLoggers, Rest!Templates, Rest!Services}
<1> DEFINE Thirds == {Rest!ServiceReads, Rest!RoomServices, Rest!RoomServiceReads,
                     Rest!Repositories, Rest!UserSecrets, Rest!UserSecretVersions,
                     Rest!AccountSecrets, Rest!AccountSecretVersions, Rest!PullSecrets,
                     Rest!Rooms, Rest!RoomChanges}
<1> DEFINE Lasts == {Rest!Volumes, Rest!Groups, Rest!GroupMembers, Rest!Agents,
                    Rest!Connections, Rest!Lists, Rest!Access, Rest!Policies,
                    Rest!OAuthClients, Rest!ScheduledTasks, Rest!ScheduledTaskLists}
<1> DEFINE All == Firsts \cup Seconds \cup Thirds \cup Lasts
<1>5. PICK rows \in All : row \in rows
  <2>1. Rest!Methods \subseteq UNION All
    <3>1. ASSUME NEW r \in Rest!Methods PROVE r \in UNION All
      BY <3>1, ZenonT(60) DEF Rest!Methods
    <3> QED
      BY <3>1
  <2> HIDE DEF All
  <2> QED
    BY <2>1
<1>6. CASE rows \in Firsts
  BY <1>1, <1>5, <1>6 DEF Named
<1>7. CASE rows \in Seconds
  BY <1>2, <1>5, <1>7 DEF Named
<1>8. CASE rows \in Thirds
  BY <1>3, <1>5, <1>8 DEF Named
<1>9. CASE rows \in Lasts
  BY <1>4, <1>5, <1>9 DEF Named
<1> QED
  BY <1>5, <1>6, <1>7, <1>8, <1>9, Zenon

LEMMA NamedIsMethod ==
    ASSUME NEW method \in RestMethods, method.name # ""
    PROVE  method \in Rest!Methods
<1>1. CASE method = [name |-> "", reads |-> "none"]
  <2>1. method.name = ""
    BY <1>1, Zenon
  <2> QED
    BY <2>1, Zenon
<1>2. method = [name |-> "", reads |-> "none"] \/ method \in Rest!Methods
  BY DEF RestMethods
<1> QED
  BY <1>1, <1>2

LEMMA ToldTells ==
    ASSUME NEW method \in Rest!Methods, NEW status \in Rest!Statuses, status >= 400
    PROVE  /\ Rest!Told(method, status) \in RestOutcomes \ {"value"}
           /\ status >= 500 =>
                  Rest!Told(method, status) \notin
                      Rest!Refusals \cup {"ValueError", "RuntimeError", "None"}
<1>1. status \in 400..599
  BY DEF Rest!Statuses
<1> DEFINE Failed == {"NotFoundError", "PermissionDeniedError", "ConflictError",
                      "RoomDisabledError", "ValidationErrorResponse", "ServerError",
                      "RoomException"}
<1>2. /\ Rest!Failure[status] \in Failed
      /\ status >= 500 => Rest!Failure[status] = "ServerError"
  <2>1. CASE status \in {400, 401, 403, 404, 409, 423}
    BY <1>1, <2>1 DEF Rest!Failure
  <2>2. CASE status \in {500, 503}
    BY <1>1, <2>2 DEF Rest!Failure
  <2> QED
    BY <2>1, <2>2 DEF Rest!Statuses
<1>3. /\ Rest!Told(method, status) \in Failed \cup {"None"}
      /\ status >= 500 => Rest!Told(method, status) \in {"RoomException", "ServerError"}
  <2> HIDE DEF Failed
  <2>1. "RoomException" \in Failed
    BY DEF Failed
  <2>2. status >= 500 => status # 404
    OBVIOUS
  <2> QED
    BY <1>2, <2>1, <2>2 DEF Rest!Told
<1>4. Rest!Told(method, status) \in RestOutcomes \ {"value"}
  BY <1>3 DEF RestOutcomes
<1>5. ASSUME status >= 500
      PROVE  Rest!Told(method, status) \notin
                 Rest!Refusals \cup {"ValueError", "RuntimeError", "None"}
  BY <1>3, <1>5 DEF Rest!Refusals
<1> QED
  BY <1>4, <1>5

LEMMA ReadTells ==
    ASSUME NEW k, NEW body
    PROVE  Rest!Read(k, body) \in {"value", "RoomException", "escaped"}
  BY DEF Rest!Read

LEMMA IdleIsRestCall == Rest!Idle \in RestCall /\ Rest!Idle.method.name = ""
  BY EmptySeq DEF RestCall, Rest!Idle, Rest!Bodies, RestOutcomes, RestPhases, RestMethods,
                  RestStatuses, Pagings

(* A page is a part of what is left                                         *)
LEMMA PageIs ==
    ASSUME RestInv, NEW page \in Rest!Listed(restCall.token)
    PROVE  /\ page.holds \subseteq restCall.listing
           /\ page.next = 0 \/ page.next \in restCall.listing
           /\ page.next = 0 \/ page.next > restCall.token
           /\ \A e \in page.holds :
                  e > restCall.token /\ (page.next = 0 \/ e <= page.next)
           /\ \A e \in restCall.listing :
                  e > restCall.token /\ (page.next = 0 \/ e <= page.next) =>
                      e \in page.holds
<1>1. /\ restCall.token \in Nat /\ restCall.listing \subseteq Nat \ {0}
  BY PartsAssumption DEF RestInv, RestTypes, RestCall
<1>2. CASE page = [holds |-> Rest!After(restCall.token), next |-> 0]
  BY <1>1, <1>2 DEF Rest!After
<1>3. ASSUME NEW last \in Rest!After(restCall.token),
             page = [holds |-> Rest!UpTo(restCall.token, last), next |-> last]
      PROVE  /\ page.holds \subseteq restCall.listing
             /\ page.next \in restCall.listing /\ page.next > restCall.token
             /\ \A e \in page.holds : e > restCall.token /\ e <= page.next
             /\ \A e \in restCall.listing :
                    e > restCall.token /\ e <= page.next => e \in page.holds
             /\ page.next # 0
  BY <1>1, <1>3 DEF Rest!After, Rest!UpTo
<1> QED
  BY <1>2, <1>3 DEF Rest!Listed

(* The types of a call that has moved                                       *)
LEMMA RestInitHolds == Rest!Init => RestInv
<1> SUFFICES ASSUME Rest!Init PROVE RestInv
  OBVIOUS
<1>1. restCall = Rest!Idle
  BY DEF Rest!Init
<1>2. RestTypes
  <2>1. session \in [owner : {"client", "application"}, closed : BOOLEAN]
    <3>1. PICK o \in {"client", "application"}, c \in {FALSE} :
              session = [owner |-> o, closed |-> c]
      BY Zenon DEF Rest!Init
    <3> QED
      BY <3>1
  <2>2. restCall.phase = "idle" /\ restCall.stood \subseteq restCall.listing
    BY <1>1 DEF Rest!Idle
  <2> QED
    BY <1>1, <2>1, <2>2, IdleIsRestCall DEF RestTypes
<1>3. AnswerTells /\ PagesSoFar /\ PageOnItsWay /\ Rest!OutcomeTells /\ Rest!PagesWhole
  BY <1>1 DEF AnswerTells, PagesSoFar, PageOnItsWay, Rest!OutcomeTells, Rest!PagesWhole,
              Rest!Idle
<1> QED
  BY <1>2, <1>3 DEF RestInv

(* A call that is over has an outcome that says no more than was done, and  *)
(* a listing only if it says that it has                                    *)
LEMMA OverTells ==
    ASSUME RestInv, restCall.phase \in {"sent", "answered"},
           NEW outcome \in RestOutcomes \ {"value"}, NEW d \in {0, 1},
           restCall' = [Rest!Ended(outcome) EXCEPT !.done = @ + d],
           session' \in [owner : {"client", "application"}, closed : BOOLEAN],
           outcome \in Rest!Refusals \cup {"ValueError", "RuntimeError", "None"} =>
               restCall.done + d = 0 \/ Rest!Pages
    PROVE  RestInv'
<1> DEFINE Unsaid == Rest!Refusals \cup {"ValueError", "RuntimeError", "None"}
<1>1. restCall \in RestCall /\ restCall.done \in Nat /\ restCall.stood \subseteq restCall.listing
      /\ restCall.method.name # ""
  BY DEF RestInv, RestTypes, RestCall
<1>2. restCall' = [restCall EXCEPT !.phase = "over", !.outcome = outcome,
                                  !.done = restCall.done + d]
  BY <1>1 DEF Rest!Ended, RestCall
<1>3. /\ restCall'.phase = "over" /\ restCall'.outcome = outcome
      /\ restCall'.done = restCall.done + d /\ restCall'.method = restCall.method
      /\ restCall'.stood = restCall.stood /\ restCall'.listing = restCall.listing
  BY <1>1, <1>2 DEF RestCall
<1>4. RestTypes'
  <2>1. restCall.done + d \in Nat
    <3>1. restCall.done \in Nat
      BY <1>1
    <3> QED
      BY <3>1
  <2>2. restCall' \in RestCall
    <3>1. "over" \in RestPhases /\ outcome \in RestOutcomes
      BY DEF RestPhases
    <3> QED
      BY <1>1, <1>2, <2>1, <3>1 DEF RestCall
  <2> QED
    BY <1>1, <1>3, <2>2 DEF RestTypes
<1>5. (AnswerTells /\ PagesSoFar /\ PageOnItsWay /\ Rest!PagesWhole)'
  BY <1>3 DEF AnswerTells, PagesSoFar, PageOnItsWay, Rest!PagesWhole, Rest!Pages
<1>6. Rest!OutcomeTells'
  <2> HIDE DEF Unsaid
  <2>1. outcome \in Unsaid => restCall'.done = 0 \/ Rest!Pages'
    BY <1>3 DEF Rest!Pages, Unsaid
  <2> QED
    BY <1>3, <2>1 DEF Rest!OutcomeTells, Unsaid
<1> QED
  BY <1>4, <1>5, <1>6 DEF RestInv

LEMMA OverAsIs ==
    ASSUME RestInv, restCall.phase \in {"sent", "answered"},
           NEW outcome \in RestOutcomes \ {"value"},
           restCall' = Rest!Ended(outcome),
           session' \in [owner : {"client", "application"}, closed : BOOLEAN],
           outcome \in Rest!Refusals \cup {"ValueError", "RuntimeError", "None"} =>
               restCall.done = 0 \/ Rest!Pages
    PROVE  RestInv'
<1>1. restCall \in RestCall
  BY DEF RestInv, RestTypes
<1>2. restCall.done \in Nat
  BY <1>1 DEF RestCall
<1>3. restCall.done + 0 = restCall.done
  BY <1>2
<1>4. Rest!Ended(outcome) = [Rest!Ended(outcome) EXCEPT !.done = @ + 0]
  <2>1. Rest!Ended(outcome).done = restCall.done
    BY <1>1 DEF Rest!Ended, RestCall
  <2>2. Rest!Ended(outcome) = [Rest!Ended(outcome) EXCEPT !.done = restCall.done]
    BY <1>1 DEF Rest!Ended, RestCall
  <2> QED
    BY <1>3, <2>1, <2>2
<1> DEFINE Unsaid == Rest!Refusals \cup {"ValueError", "RuntimeError", "None"}
<1>5. outcome \in Unsaid => restCall.done + 0 = 0 \/ Rest!Pages
  BY <1>3
<1> HIDE DEF Unsaid
<1>6. 0 \in {0, 1}
  OBVIOUS
<1> QED
  BY <1>4, <1>5, <1>6, OverTells DEF Unsaid

(* Calls begin: on a closed session nothing is sent                         *)
LEMMA RestBegins ==
    ASSUME RestInv, NEW method \in Rest!Methods, NEW listing \in SUBSET Entries,
           Rest!Begin(method, listing)
    PROVE  RestInv'
<1>1. session' = session /\ session \in [owner : {"client", "application"}, closed : BOOLEAN]
  BY DEF RestInv, RestTypes, Rest!Begin
<1>2. method \in RestMethods /\ method.name # ""
  BY MethodsAreNamed DEF Named, RestMethods
<1> DEFINE phase == IF session.closed THEN "over" ELSE "sent"
           outcome == IF session.closed THEN "RuntimeError" ELSE ""
<1>3. /\ phase \in {"over", "sent"} /\ outcome \in {"RuntimeError", ""}
      /\ phase = "sent" => outcome = ""
  OBVIOUS
<1>4. restCall' = [Rest!Idle EXCEPT !.method = method, !.listing = listing,
                      !.stood = listing, !.phase = phase, !.outcome = outcome]
  BY DEF Rest!Begin
<1> HIDE DEF phase, outcome
<1>5. restCall' \in RestCall
  <2>1. phase \in RestPhases /\ outcome \in RestOutcomes
    BY <1>3 DEF RestPhases, RestOutcomes
  <2> QED
    BY <1>2, <1>4, <2>1, IdleIsRestCall DEF RestCall
<1>6. /\ restCall'.phase = phase /\ restCall'.outcome = outcome
      /\ restCall'.method = method /\ restCall'.done = 0 /\ restCall'.token = 0
      /\ restCall'.stood = listing /\ restCall'.listing = listing /\ restCall'.got = <<>>
  BY <1>4 DEF Rest!Idle
<1>7. RestTypes'
  BY <1>1, <1>2, <1>3, <1>5, <1>6 DEF RestTypes
<1>8. \A e \in listing : ~(e <= 0)
  BY PartsAssumption
<1>9. (AnswerTells /\ PageOnItsWay /\ Rest!PagesWhole /\ Rest!OutcomeTells)'
  BY <1>3, <1>6 DEF AnswerTells, PageOnItsWay, Rest!PagesWhole, Rest!OutcomeTells
<1>10. PagesSoFar'
  BY <1>6, <1>8 DEF PagesSoFar
<1> QED
  BY <1>7, <1>9, <1>10 DEF RestInv

LEMMA RestIdles ==
    ASSUME RestInv, restCall' = Rest!Idle, session' = session
    PROVE  RestInv'
<1>1. session \in [owner : {"client", "application"}, closed : BOOLEAN]
  BY DEF RestInv, RestTypes
<1>2. RestTypes'
  BY <1>1, IdleIsRestCall DEF RestTypes, Rest!Idle
<1>3. (AnswerTells /\ PagesSoFar /\ PageOnItsWay /\ Rest!OutcomeTells /\ Rest!PagesWhole)'
  BY DEF AnswerTells, PagesSoFar, PageOnItsWay, Rest!OutcomeTells, Rest!PagesWhole,
         Rest!Idle
<1> QED
  BY <1>2, <1>3 DEF RestInv

LEMMA RestRefuses ==
    ASSUME RestInv, NEW method \in Rest!Methods, Rest!RefuseArguments(method)
    PROVE  RestInv'
<1>1. session' = session /\ session \in [owner : {"client", "application"}, closed : BOOLEAN]
  BY DEF RestInv, RestTypes, Rest!RefuseArguments
<1>2. method \in RestMethods /\ method.name # ""
  BY MethodsAreNamed DEF Named, RestMethods
<1>3. restCall' = [Rest!Idle EXCEPT !.method = method, !.phase = "over",
                                   !.outcome = "ValueError"]
  BY DEF Rest!RefuseArguments
<1>4. "over" \in RestPhases /\ "ValueError" \in RestOutcomes
  BY DEF RestPhases, RestOutcomes
<1>5. restCall' \in RestCall
  BY <1>2, <1>3, <1>4, IdleIsRestCall DEF RestCall
<1>6. /\ restCall'.phase = "over" /\ restCall'.outcome = "ValueError"
      /\ restCall'.method = method /\ restCall'.done = 0 /\ restCall'.stood = {}
  BY <1>3 DEF Rest!Idle
<1>7. RestTypes'
  BY <1>1, <1>2, <1>5, <1>6 DEF RestTypes
<1>8. (AnswerTells /\ PagesSoFar /\ PageOnItsWay /\ Rest!PagesWhole /\ Rest!OutcomeTells)'
  BY <1>6 DEF AnswerTells, PagesSoFar, PageOnItsWay, Rest!PagesWhole, Rest!OutcomeTells
<1> QED
  BY <1>7, <1>8 DEF RestInv

(* The server answers: what it has done it says, and its page holds what    *)
(* there is of its stretch                                                  *)
LEMMA RestAnswers ==
    ASSUME RestInv, NEW status \in Rest!Statuses, NEW body \in Rest!Bodies,
           NEW page \in IF Rest!Pages THEN Rest!Listed(restCall.token) ELSE {Rest!NoPage},
           Rest!Answer(status, body, page)
    PROVE  RestInv'
<1>1. /\ restCall \in RestCall /\ restCall.method.name # ""
      /\ restCall.stood \subseteq restCall.listing /\ restCall.phase = "sent"
      /\ session' = session /\ session \in [owner : {"client", "application"}, closed : BOOLEAN]
  BY DEF RestInv, RestTypes, Rest!Answer
<1>2. PICK d \in {0, 1} :
          /\ status < 400 => d = 1
          /\ status >= 400 /\ status < 500 => d = 0
          /\ restCall' = [restCall EXCEPT
                 !.phase = "answered", !.status = status, !.body = body,
                 !.done = restCall.done + d, !.page = page.holds, !.next = page.next]
  <2>1. PICK d \in IF status < 400 THEN {1} ELSE IF status >= 500 THEN {0, 1} ELSE {0} :
            restCall' = [restCall EXCEPT
                 !.phase = "answered", !.status = status, !.body = body,
                 !.done = restCall.done + d, !.page = page.holds, !.next = page.next]
    BY DEF Rest!Answer
  <2>2. /\ d \in {0, 1} /\ status < 400 => d = 1
        /\ status >= 400 /\ status < 500 => d = 0
    BY DEF Rest!Statuses
  <2> QED
    BY <2>1, <2>2
<1>3. /\ page.holds \in SUBSET Entries /\ page.next \in Nat
  <2>1. CASE Rest!Pages
    <3>1. page \in Rest!Listed(restCall.token)
      BY <2>1
    <3>2. restCall.listing \subseteq Entries
      BY <1>1 DEF RestCall
    <3>3. /\ page.holds \subseteq restCall.listing
          /\ page.next = 0 \/ page.next \in restCall.listing
      BY <3>1, PageIs
    <3>4. page.next = 0 \/ page.next \in Entries
      BY <3>2, <3>3
    <3>5. page.holds \subseteq Entries
      BY <3>2, <3>3
    <3>6. page.next \in Nat
      <4>1. {0} \cup Entries \subseteq Nat
        BY PartsAssumption
      <4>2. page.next \in {0} \cup Entries
        BY <3>4
      <4> QED
        BY <4>1, <4>2
    <3> QED
      BY <3>5, <3>6
  <2>2. CASE ~Rest!Pages
    BY <2>2 DEF Rest!NoPage
  <2> QED
    BY <2>1, <2>2
<1>4. restCall.done \in Nat
  BY <1>1 DEF RestCall
<1>5. restCall.done + d \in Nat /\ (d = 1 => restCall.done + d > 0)
      /\ (d = 0 => restCall.done + d = restCall.done)
  BY <1>4
<1>6. restCall' \in RestCall
  <2>1. "answered" \in RestPhases /\ status \in RestStatuses
    BY DEF RestPhases, RestStatuses
  <2>2. restCall.done + d \in Nat
    BY <1>5
  <2> QED
    BY <1>1, <1>2, <1>3, <2>1, <2>2 DEF RestCall
<1>7. /\ restCall'.phase = "answered" /\ restCall'.status = status
      /\ restCall'.done = restCall.done + d /\ restCall'.page = page.holds
      /\ restCall'.next = page.next /\ restCall'.method = restCall.method
      /\ restCall'.stood = restCall.stood /\ restCall'.listing = restCall.listing
      /\ restCall'.token = restCall.token /\ restCall'.got = restCall.got
  BY <1>1, <1>2 DEF RestCall
<1>8. RestTypes'
  BY <1>1, <1>6, <1>7 DEF RestTypes
<1>9. Rest!Pages' = Rest!Pages
  BY <1>7 DEF Rest!Pages
<1>10. AnswerTells'
  <2>1. restCall.done = 0 \/ Rest!Pages
    BY <1>1 DEF RestInv, AnswerTells
  <2>2. status < 400 => restCall'.done > 0
    BY <1>2, <1>5, <1>7
  <2>3. status >= 400 /\ status < 500 => restCall'.done = 0 \/ Rest!Pages'
    BY <1>2, <1>5, <1>7, <1>9, <2>1
  <2> QED
    BY <1>7, <2>2, <2>3 DEF AnswerTells
<1>11. PagesSoFar'
  BY <1>1, <1>7, <1>9 DEF RestInv, PagesSoFar
<1>12. PageOnItsWay'
  <2> SUFFICES ASSUME Rest!Pages PROVE PageOnItsWay'
    BY <1>9 DEF PageOnItsWay
  <2>1. page \in Rest!Listed(restCall.token)
    OBVIOUS
  <2> QED
    BY <1>1, <1>7, <2>1, PageIs DEF PageOnItsWay
<1>13. (Rest!PagesWhole /\ Rest!OutcomeTells)'
  BY <1>7 DEF Rest!PagesWhole, Rest!OutcomeTells
<1> QED
  BY <1>8, <1>10, <1>11, <1>12, <1>13 DEF RestInv

(* A failure or a success is told, or the page is added to those there are  *)
LEMMA RestIsTold == RestInv /\ Rest!TakeFailure => RestInv'
<1> SUFFICES ASSUME RestInv, Rest!TakeFailure PROVE RestInv'
  OBVIOUS
<1> DEFINE outcome == Rest!Told(restCall.method, restCall.status)
<1>1. /\ restCall \in RestCall /\ restCall.phase = "answered"
      /\ restCall.method.name # "" /\ restCall.status \in Rest!Statuses
      /\ restCall.status >= 400 /\ restCall' = Rest!Ended(outcome)
      /\ session' = session /\ session \in [owner : {"client", "application"}, closed : BOOLEAN]
  BY DEF RestInv, RestTypes, AnswerTells, Rest!TakeFailure, Rest!Fails
<1>2. restCall.method \in Rest!Methods
  <2>1. restCall.method \in RestMethods /\ restCall.method.name # ""
    BY <1>1 DEF RestCall
  <2> QED
    BY <2>1, NamedIsMethod
<1>3. /\ outcome \in RestOutcomes \ {"value"}
      /\ restCall.status >= 500 =>
             outcome \notin Rest!Refusals \cup {"ValueError", "RuntimeError", "None"}
  BY <1>1, <1>2, ToldTells
<1>4. restCall.status < 500 => restCall.done = 0 \/ Rest!Pages
  <2>1. restCall.phase = "answered" /\ restCall.status >= 400
    BY <1>1
  <2> QED
    BY <2>1 DEF RestInv, AnswerTells
<1>5. restCall.status < 500 \/ restCall.status >= 500
  <2>1. restCall.status \in Rest!Statuses
    BY <1>1
  <2> QED
    BY <2>1 DEF Rest!Statuses
<1> HIDE DEF outcome
<1>6. outcome \in Rest!Refusals \cup {"ValueError", "RuntimeError", "None"} =>
          restCall.done = 0 \/ Rest!Pages
  BY <1>3, <1>4, <1>5
<1> QED
  BY <1>1, <1>3, <1>6, OverAsIs

LEMMA RestCollects ==
    ASSUME RestInv, restCall.phase = "answered", restCall.status < 400,
           NEW phase \in {"over", "sent"}, NEW outcome \in RestOutcomes, NEW token \in Nat,
           restCall' = [restCall EXCEPT !.got = Append(restCall.got, restCall.page),
                                        !.phase = phase, !.outcome = outcome, !.token = token],
           phase = "over" => outcome = "value" /\ (Rest!Pages => restCall.next = 0),
           phase = "sent" => Rest!Pages /\ restCall.next # 0 /\ token = restCall.next,
           session' = session
    PROVE  RestInv'
<1> DEFINE got == restCall.got
<1>1. /\ restCall \in RestCall /\ restCall.method.name # ""
      /\ restCall.stood \subseteq restCall.listing
      /\ session' \in [owner : {"client", "application"}, closed : BOOLEAN]
  BY DEF RestInv, RestTypes
<1>2. got \in Seq(SUBSET Entries) /\ restCall.page \in SUBSET Entries
  BY <1>1 DEF RestCall, Pagings
<1>3. restCall' \in RestCall
  <2>1. phase \in RestPhases /\ Append(got, restCall.page) \in Pagings
    BY <1>2 DEF RestPhases, Pagings
  <2> HIDE DEF got
  <2>2. restCall' = [restCall EXCEPT !.got = Append(got, restCall.page),
                                     !.phase = phase, !.outcome = outcome, !.token = token]
    BY DEF got
  <2> QED
    BY <1>1, <2>1, <2>2 DEF RestCall
<1>4. /\ restCall'.phase = phase /\ restCall'.outcome = outcome /\ restCall'.token = token
      /\ restCall'.got = Append(got, restCall.page)
      /\ restCall'.done = restCall.done /\ restCall'.method = restCall.method
      /\ restCall'.stood = restCall.stood /\ restCall'.listing = restCall.listing
  BY <1>1 DEF RestCall
<1>5. RestTypes'
  BY <1>1, <1>3, <1>4 DEF RestTypes
<1>6. Rest!Pages' = Rest!Pages
  BY <1>4 DEF Rest!Pages
<1>7. (AnswerTells /\ PageOnItsWay)'
  BY <1>4, <1>6 DEF AnswerTells, PageOnItsWay
<1>8. Rest!OutcomeTells'
  <2>1. restCall'.done > 0
    BY <1>4 DEF RestInv, AnswerTells
  <2>2. phase = "over" => outcome = "value"
    OBVIOUS
  <2> QED
    BY <1>4, <2>1, <2>2 DEF Rest!OutcomeTells, Rest!Refusals
<1>9. ASSUME Rest!Pages PROVE ReadBy(restCall'.got, restCall.stood, restCall.next)
  <2> DEFINE page == restCall.page
             stood == restCall.stood
             token0 == restCall.token
             next == restCall.next
             new == restCall'.got
  <2>1. ReadTo(got, stood, token0)
    BY <1>9 DEF RestInv, PagesSoFar, ReadTo
  <2>2. OfStretch(page, stood, token0, next)
    BY <1>9 DEF RestInv, PageOnItsWay, OfStretch
  <2>3. /\ token0 \in Nat /\ next \in Nat /\ stood \in SUBSET Entries
        /\ page \in SUBSET Entries /\ got \in Seq(SUBSET Entries) /\ new = Append(got, page)
    BY <1>1, <1>2, <1>4 DEF RestCall
  <2>4. Entries \subseteq Nat
    BY PartsAssumption
  <2> HIDE DEF got, page, stood, token0, next, new
  <2>5. ReadBy(new, stood, next)
    BY <2>1, <2>2, <2>3, <2>4, PagesGrow
  <2> QED
    BY <2>5 DEF new, stood, next
<1>10. PagesSoFar'
  BY <1>4, <1>6, <1>9 DEF PagesSoFar, ReadBy
<1>11. Rest!PagesWhole'
  BY <1>4, <1>6, <1>9 DEF Rest!PagesWhole, ReadBy
<1> QED
  BY <1>5, <1>7, <1>8, <1>10, <1>11 DEF RestInv

LEMMA RestTakesBody == RestInv /\ Rest!TakeBody => RestInv'
<1> SUFFICES ASSUME RestInv, Rest!TakeBody PROVE RestInv'
  OBVIOUS
<1> DEFINE read == Rest!Read(restCall.method.reads, restCall.body)
<1>1. /\ restCall \in RestCall /\ restCall.phase = "answered"
      /\ session' = session /\ session \in [owner : {"client", "application"}, closed : BOOLEAN]
  BY DEF RestInv, RestTypes, Rest!TakeBody
<1>2. restCall.status < 400
  <2>1. restCall.status \in Rest!Statuses
    BY <1>1 DEF RestInv, AnswerTells
  <2>2. ~(restCall.status >= 400)
    BY DEF Rest!TakeBody, Rest!Fails
  <2> QED
    BY <2>1, <2>2 DEF Rest!Statuses
<1>3. /\ restCall.token \in Nat /\ restCall.next \in Nat
  BY <1>1 DEF RestCall
<1> DEFINE collected == [restCall EXCEPT !.got = Append(restCall.got, restCall.page)]
<1>5. restCall' = IF read # "value" THEN Rest!Ended(read)
                  ELSE IF ~Rest!Pages \/ Rest!NoMorePages(restCall)
                  THEN [collected EXCEPT !.phase = "over", !.outcome = "value"]
                  ELSE [collected EXCEPT !.phase = "sent", !.token = restCall.next]
  BY DEF Rest!TakeBody
<1>6. read \in {"value", "RoomException", "escaped"}
  BY ReadTells
<1> HIDE DEF read
<1>7. CASE read # "value"
  <2>1. restCall' = Rest!Ended(read)
    BY <1>5, <1>7
  <2>2. /\ read \in RestOutcomes \ {"value"}
        /\ read \notin Rest!Refusals \cup {"ValueError", "RuntimeError", "None"}
    BY <1>6, <1>7 DEF RestOutcomes, Rest!Refusals
  <2> QED
    BY <1>1, <2>1, <2>2, OverAsIs
<1>8. CASE read = "value" /\ (~Rest!Pages \/ restCall.next = 0)
  <2>1. restCall' = [collected EXCEPT !.phase = "over", !.outcome = "value"]
    BY <1>5, <1>8 DEF Rest!NoMorePages
  <2>2. restCall' = [restCall EXCEPT !.got = Append(restCall.got, restCall.page),
                        !.phase = "over", !.outcome = "value", !.token = restCall.token]
    BY <1>1, <2>1 DEF RestCall
  <2>3. "value" \in RestOutcomes
    BY DEF RestOutcomes
  <2> QED
    BY <1>1, <1>2, <1>3, <1>8, <2>2, <2>3, RestCollects
<1>9. CASE read = "value" /\ Rest!Pages /\ restCall.next # 0
  <2>1. restCall' = [collected EXCEPT !.phase = "sent", !.token = restCall.next]
    BY <1>5, <1>9 DEF Rest!NoMorePages
  <2>2. restCall' = [restCall EXCEPT !.got = Append(restCall.got, restCall.page),
                        !.phase = "sent", !.outcome = restCall.outcome,
                        !.token = restCall.next]
    BY <1>1, <2>1 DEF RestCall
  <2>3. restCall.outcome \in RestOutcomes
    BY <1>1 DEF RestCall
  <2> QED
    BY <1>1, <1>2, <1>3, <1>9, <2>2, <2>3, RestCollects
<1> QED
  BY <1>7, <1>8, <1>9

(* The list changes under the pages: what is taken from it no longer stands *)
LEMMA RestOthers == RestInv /\ Rest!OthersChange => RestInv'
<1> SUFFICES ASSUME RestInv, Rest!OthersChange PROVE RestInv'
  OBVIOUS
<1>1. /\ restCall \in RestCall /\ restCall.phase \in {"sent", "answered"}
      /\ restCall.method.name # "" /\ restCall.stood \subseteq restCall.listing
      /\ session' = session /\ session \in [owner : {"client", "application"}, closed : BOOLEAN]
  BY DEF RestInv, RestTypes, Rest!OthersChange
<1>2. PICK listing \in SUBSET Entries, stood \in SUBSET Entries :
          /\ stood \subseteq listing /\ stood \subseteq restCall.stood
          /\ restCall' = [restCall EXCEPT !.listing = listing, !.stood = stood]
  <2>1. PICK e \in Entries :
            restCall' = IF e \in restCall.listing
                        THEN [restCall EXCEPT !.listing = restCall.listing \ {e},
                                              !.stood = restCall.stood \ {e}]
                        ELSE [restCall EXCEPT !.listing = restCall.listing \cup {e}]
    BY DEF Rest!OthersChange
  <2>2. restCall.listing \in SUBSET Entries /\ restCall.stood \in SUBSET Entries
    BY <1>1 DEF RestCall
  <2>3. CASE e \in restCall.listing
    <3>1. /\ restCall.listing \ {e} \in SUBSET Entries
          /\ restCall.stood \ {e} \in SUBSET Entries
          /\ restCall.stood \ {e} \subseteq restCall.listing \ {e}
          /\ restCall.stood \ {e} \subseteq restCall.stood
      BY <1>1, <2>2
    <3> QED
      BY <2>1, <2>3, <3>1
  <2>4. CASE e \notin restCall.listing
    <3>1. /\ restCall.listing \cup {e} \in SUBSET Entries
          /\ restCall.stood \subseteq restCall.listing \cup {e}
      BY <1>1, <2>1, <2>2
    <3>2. [restCall EXCEPT !.listing = restCall.listing \cup {e}] =
              [restCall EXCEPT !.listing = restCall.listing \cup {e},
                               !.stood = restCall.stood]
      BY <1>1 DEF RestCall
    <3> QED
      BY <2>1, <2>2, <2>4, <3>1, <3>2
  <2> QED
    BY <2>3, <2>4
<1>3. restCall' \in RestCall
  BY <1>1, <1>2 DEF RestCall
<1>4. /\ restCall'.listing = listing /\ restCall'.stood = stood
      /\ restCall'.phase = restCall.phase /\ restCall'.status = restCall.status
      /\ restCall'.done = restCall.done /\ restCall'.method = restCall.method
      /\ restCall'.token = restCall.token /\ restCall'.page = restCall.page
      /\ restCall'.next = restCall.next /\ restCall'.got = restCall.got
  BY <1>1, <1>2 DEF RestCall
<1>5. Rest!Pages' = Rest!Pages
  BY <1>4 DEF Rest!Pages
<1>6. RestTypes'
  BY <1>1, <1>2, <1>3, <1>4 DEF RestInv, RestTypes
<1>7. AnswerTells'
  BY <1>4, <1>5 DEF RestInv, AnswerTells
<1>8. PagesSoFar'
  BY <1>2, <1>4, <1>5 DEF RestInv, PagesSoFar
<1>9. PageOnItsWay'
  BY <1>2, <1>4, <1>5 DEF RestInv, PageOnItsWay
<1>10. (Rest!OutcomeTells /\ Rest!PagesWhole)'
  BY <1>1, <1>4 DEF Rest!OutcomeTells, Rest!PagesWhole
<1> QED
  BY <1>6, <1>7, <1>8, <1>9, <1>10 DEF RestInv

LEMMA RestCloses == RestInv /\ (Rest!Close \/ Rest!OwnerCloses) => RestInv'
<1> SUFFICES ASSUME RestInv, Rest!Close \/ Rest!OwnerCloses PROVE RestInv'
  OBVIOUS
<1>1. session \in [owner : {"client", "application"}, closed : BOOLEAN]
  BY DEF RestInv, RestTypes
<1>2. session' = [session EXCEPT !.closed = TRUE] /\ restCall' = Rest!CutOff
  BY DEF Rest!Close, Rest!OwnerCloses
<1>3. session' \in [owner : {"client", "application"}, closed : BOOLEAN]
  BY <1>1, <1>2
<1>4. CASE restCall.phase = "sent"
  <2>1. restCall' = Rest!Ended("ClientError")
    BY <1>2, <1>4 DEF Rest!CutOff
  <2>2. /\ "ClientError" \in RestOutcomes \ {"value"}
        /\ "ClientError" \notin Rest!Refusals \cup {"ValueError", "RuntimeError", "None"}
    BY DEF RestOutcomes, Rest!Refusals
  <2> QED
    BY <1>3, <1>4, <2>1, <2>2, OverAsIs
<1>5. CASE restCall.phase # "sent"
  <2>1. restCall' = restCall
    BY <1>2, <1>5 DEF Rest!CutOff
  <2>2. Rest!Pages' = Rest!Pages
    BY <2>1 DEF Rest!Pages
  <2>3. RestTypes'
    BY <1>3, <2>1 DEF RestInv, RestTypes
  <2>4. (AnswerTells /\ PagesSoFar /\ PageOnItsWay)'
    BY <2>1, <2>2 DEF RestInv, AnswerTells, PagesSoFar, PageOnItsWay
  <2>5. (Rest!OutcomeTells /\ Rest!PagesWhole)'
    BY <2>1, <2>2 DEF RestInv, Rest!OutcomeTells, Rest!PagesWhole
  <2> QED
    BY <2>3, <2>4, <2>5 DEF RestInv
<1> QED
  BY <1>4, <1>5

LEMMA RestBreaks == RestInv /\ Rest!Breaks => RestInv'
<1> SUFFICES ASSUME RestInv, Rest!Breaks PROVE RestInv'
  OBVIOUS
<1>1. PICK d \in {0, 1} : restCall' = [Rest!Ended("ClientError") EXCEPT !.done = @ + d]
  BY DEF Rest!Breaks
<1>2. /\ restCall.phase \in {"sent", "answered"}
      /\ session' \in [owner : {"client", "application"}, closed : BOOLEAN]
  BY DEF RestInv, RestTypes, Rest!Breaks
<1>3. /\ "ClientError" \in RestOutcomes \ {"value"}
      /\ "ClientError" \notin Rest!Refusals \cup {"ValueError", "RuntimeError", "None"}
  BY DEF RestOutcomes, Rest!Refusals
<1> QED
  BY <1>1, <1>2, <1>3, OverTells

LEMMA RestNextKeeps == RestInv /\ [Rest!Next]_(Rest!vars) => RestInv'
<1> SUFFICES ASSUME RestInv, [Rest!Next]_(Rest!vars) PROVE RestInv'
  OBVIOUS
<1>1. CASE Rest!CallSomething
  <2>1. PICK method \in Rest!Methods :
            \/ \E listing \in SUBSET Entries : Rest!Begin(method, listing)
            \/ Rest!RefuseArguments(method)
    <3>1. {} \in SUBSET Entries
      OBVIOUS
    <3> QED
      BY <1>1, <3>1 DEF Rest!CallSomething
  <2> QED
    BY <2>1, RestBegins, RestRefuses
<1>2. CASE Rest!AnswerSomehow
  <2>1. PICK status \in Rest!Statuses,
             body \in Rest!Bodies,
             page \in IF Rest!Pages THEN Rest!Listed(restCall.token) ELSE {Rest!NoPage} :
                 Rest!Answer(status, body, page)
    <3>1. {"valid"} \subseteq Rest!Bodies
      BY DEF Rest!Bodies
    <3> QED
      BY <1>2, <3>1 DEF Rest!AnswerSomehow
  <2> QED
    BY <2>1, RestAnswers
<1>3. CASE Rest!Return
  BY <1>3, RestIdles DEF Rest!Return
<1>4. CASE UNCHANGED Rest!vars
  <2>1. restCall' = restCall /\ session' = session
    BY <1>4 DEF Rest!vars
  <2>2. Rest!Pages' = Rest!Pages
    BY <2>1 DEF Rest!Pages
  <2>3. RestTypes' /\ AnswerTells'
    <3>1. RestTypes'
      BY <2>1 DEF RestInv, RestTypes
    <3>2. AnswerTells'
      BY <2>1, <2>2 DEF RestInv, AnswerTells
    <3> QED
      BY <3>1, <3>2
  <2>4. (PagesSoFar /\ PageOnItsWay)'
    BY <2>1, <2>2 DEF RestInv, PagesSoFar, PageOnItsWay
  <2>5. (Rest!OutcomeTells /\ Rest!PagesWhole)'
    BY <2>1, <2>2 DEF RestInv, Rest!OutcomeTells, Rest!PagesWhole
  <2> QED
    BY <2>3, <2>4, <2>5 DEF RestInv
<1>5. CASE Rest!Breaks
  BY <1>5, RestBreaks
<1>6. CASE Rest!TakeFailure
  BY <1>6, RestIsTold
<1>7. CASE Rest!TakeBody
  BY <1>7, RestTakesBody
<1>8. CASE Rest!OthersChange
  BY <1>8, RestOthers
<1>9. CASE Rest!Close \/ Rest!OwnerCloses
  BY <1>9, RestCloses
<1> QED
  BY <1>1, <1>2, <1>3, <1>4, <1>5, <1>6, <1>7, <1>8, <1>9 DEF Rest!Next

(* The session and the call of a REST client keep their shape (Meshagent).  *)
THEOREM RestTypeCorrect == Rest!Spec => []Rest!TypeOK
<1>1. RestInv => Rest!TypeOK
  BY DEF RestInv, RestTypes, RestCall, RestPhases, Rest!TypeOK
<1> QED
  BY <1>1, RestInitHolds, RestNextKeeps, PTL DEF Rest!Spec

(* What a method returns or raises is what its server answered: no refusal  *)
(* is taken for a value, nor a value for a refusal (_raise_for_status and   *)
(* the methods that read the body).                                         *)
THEOREM OutcomesTell == Rest!Spec => []Rest!OutcomeTells
<1>1. RestInv => Rest!OutcomeTells
  BY DEF RestInv
<1> QED
  BY <1>1, RestInitHolds, RestNextKeeps, PTL DEF Rest!Spec

(* A list read page by page holds every entry that stood all the while, and *)
(* none twice, however the pages were cut and whatever came and went        *)
(* meanwhile (the loop of get_resource_policy).                             *)
THEOREM PagesAreWhole == Rest!Spec => []Rest!PagesWhole
<1>1. RestInv => Rest!PagesWhole
  BY DEF RestInv
<1> QED
  BY <1>1, RestInitHolds, RestNextKeeps, PTL DEF Rest!Spec

-----------------------------------------------------------------------------
(***************************************************************************)
(* Theorems about FilesClient: for any number of tasks and of files, and a *)
(* server that may answer with any page and any token.                      *)
(***************************************************************************)

FolderPhases == {"idle", "waiting", "discovering", "asking", "over"}
FolderOperations == Folder!Kinds \cup {""}
FolderOutcomes ==
    {"", "value", "ValueError", "RoomException", "NotFoundError", "ClientError", "False"}
Listings == Seq(SUBSET Files)

FolderTask ==
    [phase : FolderPhases, operation : FolderOperations, token : Nat, seen : SUBSET Files,
     got : Listings, stood : SUBSET Files, honest : BOOLEAN, requests : Nat,
     outcome : FolderOutcomes]

Underway(r) == r.phase \in {"waiting", "discovering", "asking"}

(* A listing under way of an honest server has read all up to its token     *)
ReadUpToToken(r) ==
    Underway(r) /\ r.operation = "list" /\ r.honest =>
        /\ \A k \in DOMAIN r.got : \A f \in r.got[k] : f <= r.token
        /\ \A f \in r.stood : f <= r.token => \E k \in DOMAIN r.got : f \in r.got[k]
        /\ \A j, k \in DOMAIN r.got : j # k => r.got[j] \cap r.got[k] = {}

(* It has made a request for every token it has been given                  *)
OnePerToken(r) ==
    /\ Underway(r) => r.requests = Cardinality(r.seen)
    /\ r.requests <= Cardinality(Files) + 1

(* What a listing that is over tells is so                                  *)
ToldRightly(r) ==
    r.operation = "list" /\ r.phase = "over" /\ r.outcome = "value" /\ r.honest =>
        /\ \A f \in r.stood : \E k \in DOMAIN r.got : f \in r.got[k]
        /\ \A j, k \in DOMAIN r.got : j # k => r.got[j] \cap r.got[k] = {}

GoodTask(r) ==
    /\ r \in FolderTask /\ r.stood \subseteq folder
    /\ ReadUpToToken(r) /\ OnePerToken(r) /\ ToldRightly(r)

FolderTasks ==
    folder \subseteq Files /\ task \in [Tasks -> FolderTask] /\ \A t \in Tasks : GoodTask(task[t])

(* One task holds the lock, and looks for what is not known                 *)
FolderLock ==
    /\ endpoint \in BOOLEAN /\ lock \subseteq Tasks
    /\ \A t \in Tasks : t \in lock <=> task[t].phase = "discovering"
    /\ \A t, u \in lock : t = u
    /\ lock # {} => ~endpoint
    /\ configs = IF endpoint THEN 1 ELSE 0

FolderInv == FolderTasks /\ FolderLock

FolderConfigs == UNCHANGED <<endpoint, lock, configs>>

LEMMA FolderConstants ==
    /\ Files \subseteq Nat /\ {0} \cup Files \subseteq Nat
    /\ IsFiniteSet(Files) /\ Cardinality(Files) \in Nat
    /\ \A f \in Files : ~(f <= 0) /\ f # 0
<1>1. /\ Files \subseteq Nat /\ {0} \cup Files \subseteq Nat
      /\ \A f \in Files : ~(f <= 0) /\ f # 0
  BY PartsAssumption
<1>2. IsFiniteSet(Files)
  BY PartsAssumption
<1>3. Cardinality(Files) \in Nat
  BY <1>2, FS_CardinalityType
<1> QED
  BY <1>1, <1>2, <1>3

LEMMA IdleHas ==
    /\ Folder!Idle.phase = "idle" /\ Folder!Idle.requests = 0
    /\ Folder!Idle.stood = {} /\ Folder!Idle.seen = {} /\ Folder!Idle.token = 0
    /\ Folder!Idle.got = <<>>
  BY DEF Folder!Idle

LEMMA IdleIsGood == Folder!Idle \in FolderTask /\ GoodTask(Folder!Idle)
<1>1. Folder!Idle \in FolderTask
  BY EmptySeq DEF Folder!Idle, FolderTask, FolderPhases, FolderOperations, FolderOutcomes,
                  Listings
<1>2. Folder!Idle.phase = "idle" /\ Folder!Idle.requests = 0 /\ Folder!Idle.stood = {}
  BY IdleHas
<1>3. 0 <= Cardinality(Files) + 1
  BY FolderConstants
<1> QED
  BY <1>1, <1>2, <1>3 DEF GoodTask, Underway, ReadUpToToken, OnePerToken, ToldRightly

(* A task that is over and has read nothing                                 *)
OverTask(operation, outcome) ==
    [Folder!Idle EXCEPT !.operation = operation, !.phase = "over", !.outcome = outcome]

LEMMA TaskOverIs ==
    ASSUME NEW outcome \in FolderOutcomes, NEW operation \in FolderOperations
    PROVE  LET r == OverTask(operation, outcome) IN
           /\ r \in FolderTask /\ r.phase = "over" /\ r.operation = operation
           /\ r.outcome = outcome /\ r.requests = 0 /\ r.stood = {}
<1>1. "over" \in FolderPhases
  BY DEF FolderPhases
<1> QED
  BY <1>1, IdleIsGood, IdleHas DEF OverTask, FolderTask

LEMMA OverIsGood ==
    ASSUME NEW outcome \in FolderOutcomes, NEW operation \in FolderOperations,
           operation # "list" \/ outcome # "value"
    PROVE  GoodTask(OverTask(operation, outcome)) /\ OverTask(operation, outcome).phase = "over"
<1> DEFINE r == OverTask(operation, outcome)
<1>1. /\ r \in FolderTask /\ r.phase = "over" /\ r.operation = operation
      /\ r.outcome = outcome /\ r.requests = 0 /\ r.stood = {}
  BY TaskOverIs
<1>2. 0 <= Cardinality(Files) + 1
  BY FolderConstants
<1> HIDE DEF r
<1>3. GoodTask(r) /\ r.phase = "over"
  BY <1>1, <1>2 DEF GoodTask, Underway, ReadUpToToken, OnePerToken, ToldRightly
<1> QED
  BY <1>3 DEF r

(* One task moves, and the others stay as they are                          *)
LEMMA TasksMove ==
    ASSUME FolderInv, NEW t \in Tasks, NEW r, GoodTask(r),
           task' = [task EXCEPT ![t] = r], folder' = folder
    PROVE  FolderTasks'
<1>1. r \in FolderTask /\ task \in [Tasks -> FolderTask] /\ folder \subseteq Files
  BY DEF GoodTask, FolderInv, FolderTasks
<1>2. task' \in [Tasks -> FolderTask]
  BY <1>1
<1>3. ASSUME NEW u \in Tasks PROVE GoodTask(task[u])'
  <2>1. GoodTask(task'[u])
    <3>1. CASE u = t
      BY <1>1, <3>1
    <3>2. CASE u # t
      BY <1>1, <3>2 DEF FolderInv, FolderTasks
    <3> QED
      BY <3>1, <3>2
  <2> QED
    BY <2>1 DEF GoodTask, Underway, ReadUpToToken, OnePerToken, ToldRightly
<1> QED
  BY <1>1, <1>2, <1>3 DEF FolderTasks

LEMMA TaskMoves ==
    ASSUME FolderInv, NEW t \in Tasks, NEW r, GoodTask(r),
           task' = [task EXCEPT ![t] = r], folder' = folder, FolderConfigs,
           task[t].phase # "discovering", r.phase # "discovering"
    PROVE  FolderInv'
<1>1. task \in [Tasks -> FolderTask]
  BY DEF FolderInv, FolderTasks
<1>2. \A u \in Tasks : task'[u].phase = "discovering" <=> task[u].phase = "discovering"
  BY <1>1
<1>3. FolderLock'
  BY <1>2 DEF FolderInv, FolderLock, FolderConfigs
<1> QED
  BY <1>3, TasksMove DEF FolderInv

LEMMA FolderInitHolds == Folder!Init => FolderInv
<1> SUFFICES ASSUME Folder!Init PROVE FolderInv
  OBVIOUS
<1>1. task = [t \in Tasks |-> Folder!Idle] /\ folder \subseteq Files
  BY DEF Folder!Init
<1>2. FolderTasks
  BY <1>1, IdleIsGood DEF FolderTasks
<1>3. \A t \in Tasks : task[t].phase # "discovering"
  BY <1>1 DEF Folder!Idle
<1>4. FolderLock
  BY <1>3 DEF Folder!Init, FolderLock
<1> QED
  BY <1>2, <1>4 DEF FolderInv

(* What an operation makes of an exception                                  *)
LEMMA RaisedIs ==
    ASSUME NEW t, NEW error \in {"NotFoundError", "RoomException"}
    PROVE  Folder!Raised(t, error) \in FolderOutcomes \ {"value"}
  BY DEF Folder!Raised, FolderOutcomes

LEMMA TaskIs ==
    ASSUME FolderInv, NEW t \in Tasks
    PROVE  /\ task[t] \in FolderTask /\ GoodTask(task[t])
           /\ task[t].operation \in FolderOperations
  BY DEF FolderInv, FolderTasks, FolderTask

(* Operations are called or refused, and what they came to is taken         *)
LEMMA CallKeeps ==
    ASSUME FolderInv, NEW t \in Tasks, NEW k \in Folder!Kinds, Folder!Call(t, k)
    PROVE  FolderInv'
<1> DEFINE stood == IF k = "list" THEN folder ELSE {}
           r == [Folder!Idle EXCEPT !.operation = k, !.phase = "waiting", !.stood = stood]
<1>1. stood \subseteq folder /\ folder \subseteq Files
  BY DEF FolderInv, FolderTasks
<1>2. k \in FolderOperations /\ "waiting" \in FolderPhases
  BY DEF FolderOperations, FolderPhases
<1>3. task' = [task EXCEPT ![t] = r]
  BY DEF Folder!Call
<1> HIDE DEF stood
<1>4. r \in FolderTask
  <2>1. stood \in SUBSET Files
    BY <1>1
  <2> QED
    BY <1>2, <2>1, IdleIsGood DEF FolderTask
<1>5. /\ r.phase = "waiting" /\ r.stood = stood /\ r.got = <<>> /\ r.token = 0
      /\ r.seen = {} /\ r.requests = 0
  BY IdleIsGood, IdleHas DEF FolderTask
<1>6. GoodTask(r)
  <2>1. \A f \in stood : ~(f <= 0)
    BY <1>1, FolderConstants
  <2>2. ReadUpToToken(r)
    BY <1>5, <2>1 DEF ReadUpToToken
  <2>3. OnePerToken(r)
    <3>1. Cardinality({}) = 0 /\ 0 <= Cardinality(Files) + 1
      BY FolderConstants, FS_EmptySet
    <3> QED
      BY <1>5, <3>1 DEF OnePerToken
  <2>4. ToldRightly(r)
    BY <1>5 DEF ToldRightly
  <2> QED
    BY <1>1, <1>4, <1>5, <2>2, <2>3, <2>4 DEF GoodTask
<1>7. r.phase # "discovering" /\ task[t].phase # "discovering"
  BY <1>5 DEF Folder!Call, Folder!At
<1>8. folder' = folder /\ FolderConfigs
  BY DEF Folder!Call, FolderConfigs
<1> HIDE DEF r
<1> QED
  BY <1>3, <1>6, <1>7, <1>8, TaskMoves

LEMMA RefuseKeeps ==
    ASSUME FolderInv, NEW t \in Tasks, NEW k \in Folder!Kinds, Folder!RefuseArguments(t, k)
    PROVE  FolderInv'
<1> DEFINE r == OverTask(k, "ValueError")
<1>1. k \in FolderOperations /\ "ValueError" \in FolderOutcomes
  BY DEF FolderOperations, FolderOutcomes
<1>2. task' = [task EXCEPT ![t] = r]
  BY DEF Folder!RefuseArguments, OverTask
<1>3. GoodTask(r) /\ r.phase = "over"
  BY <1>1, OverIsGood
<1>4. /\ task[t].phase # "discovering" /\ folder' = folder /\ FolderConfigs
  BY DEF Folder!RefuseArguments, Folder!At, FolderConfigs
<1> HIDE DEF r
<1> QED
  BY <1>2, <1>3, <1>4, TaskMoves

(* A task that is over, whatever it is told                                 *)
LEMMA OverIsOver ==
    ASSUME NEW t, NEW outcome
    PROVE  Folder!Over(t, outcome) = OverTask(task[t].operation, outcome)
  BY DEF Folder!Over, OverTask

LEMMA EndIsGood ==
    ASSUME FolderInv, NEW t \in Tasks, NEW outcome \in FolderOutcomes,
           task[t].operation # "list" \/ outcome # "value"
    PROVE  GoodTask(Folder!Over(t, outcome)) /\ Folder!Over(t, outcome).phase = "over"
<1>1. task[t].operation \in FolderOperations
  BY TaskIs
<1> QED
  BY <1>1, OverIsGood, OverIsOver

LEMMA FailureKeeps ==
    ASSUME FolderInv, NEW t \in Tasks, NEW status \in {307, 403, 404},
           Folder!TakeFailure(t, status)
    PROVE  FolderInv'
<1> DEFINE outcome == Folder!Raised(t, Folder!Failure(status))
           r == Folder!Over(t, outcome)
<1>1. Folder!Failure(status) \in {"NotFoundError", "RoomException"}
  BY DEF Folder!Failure
<1>2. outcome \in FolderOutcomes /\ outcome # "value"
  BY <1>1, RaisedIs
<1>3. /\ task' = [task EXCEPT ![t] = r]
      /\ task[t].phase = "asking" /\ folder' = folder /\ FolderConfigs
  BY DEF Folder!TakeFailure, Folder!At, FolderConfigs
<1> HIDE DEF outcome
<1>4. GoodTask(r) /\ r.phase = "over"
  BY <1>2, EndIsGood
<1>5. task[t].phase # "discovering" /\ r.phase # "discovering"
  BY <1>3, <1>4
<1> HIDE DEF r
<1> QED
  BY <1>3, <1>4, <1>5, TaskMoves

LEMMA BreakKeeps ==
    ASSUME FolderInv, NEW t \in Tasks, Folder!Breaks(t)
    PROVE  FolderInv'
<1> DEFINE r == Folder!Over(t, "ClientError")
<1>1. "ClientError" \in FolderOutcomes
  BY DEF FolderOutcomes
<1>2. /\ task' = [task EXCEPT ![t] = r]
      /\ task[t].phase = "asking" /\ folder' = folder /\ FolderConfigs
  BY DEF Folder!Breaks, Folder!At, FolderConfigs
<1>3. GoodTask(r) /\ r.phase = "over"
  BY <1>1, EndIsGood
<1> HIDE DEF r
<1> QED
  BY <1>2, <1>3, TaskMoves

LEMMA AnswerKeeps ==
    ASSUME FolderInv, NEW t \in Tasks, Folder!TakeAnswer(t)
    PROVE  FolderInv'
<1> DEFINE r == Folder!Over(t, "value")
<1>1. /\ task' = [task EXCEPT ![t] = r]
      /\ task[t].phase = "asking" /\ task[t].operation # "list"
      /\ folder' = folder /\ FolderConfigs
  BY DEF Folder!TakeAnswer, Folder!At, FolderConfigs
<1>2. "value" \in FolderOutcomes
  BY DEF FolderOutcomes
<1>3. GoodTask(r) /\ r.phase = "over"
  BY <1>1, <1>2, EndIsGood
<1> HIDE DEF r
<1> QED
  BY <1>1, <1>3, TaskMoves

LEMMA ReturnKeeps ==
    ASSUME FolderInv, NEW t \in Tasks, Folder!Return(t)
    PROVE  FolderInv'
<1>1. /\ task' = [task EXCEPT ![t] = Folder!Idle] /\ folder' = folder /\ FolderConfigs
      /\ task[t].phase # "discovering"
  BY DEF Folder!Return, Folder!At, FolderConfigs
<1>2. Folder!Idle.phase # "discovering"
  BY DEF Folder!Idle
<1> QED
  BY <1>1, <1>2, IdleIsGood, TaskMoves

(* A call that stays under way keeps what it has read                       *)
LEMMA PhaseMoves ==
    ASSUME FolderInv, NEW t \in Tasks, Underway(task[t]),
           NEW phase \in {"waiting", "discovering", "asking"}
    PROVE  /\ GoodTask([task[t] EXCEPT !.phase = phase])
           /\ [task[t] EXCEPT !.phase = phase].phase = phase
<1> DEFINE r == [task[t] EXCEPT !.phase = phase]
<1>1. task[t] \in FolderTask /\ GoodTask(task[t])
  BY TaskIs
<1>2. phase \in FolderPhases
  BY DEF FolderPhases
<1>3. r \in FolderTask
  BY <1>1, <1>2 DEF FolderTask
<1>4. /\ r.phase = phase /\ r.operation = task[t].operation /\ r.honest = task[t].honest
      /\ r.got = task[t].got /\ r.stood = task[t].stood /\ r.token = task[t].token
      /\ r.requests = task[t].requests /\ r.seen = task[t].seen
  BY <1>1 DEF FolderTask
<1> HIDE DEF r
<1>5. Underway(r) /\ r.phase # "over"
  BY <1>4 DEF Underway
<1>6. ReadUpToToken(r)
  BY <1>1, <1>4 DEF GoodTask, ReadUpToToken
<1>7. OnePerToken(r)
  BY <1>1, <1>4 DEF GoodTask, OnePerToken
<1>8. ToldRightly(r)
  BY <1>5 DEF ToldRightly
<1>9. r.stood \subseteq folder
  BY <1>1, <1>4 DEF GoodTask
<1>10. GoodTask(r)
  BY <1>3, <1>6, <1>7, <1>8, <1>9 DEF GoodTask
<1> QED
  BY <1>4, <1>10 DEF r

(* The lock is taken by one, and given back whatever comes of it            *)
LEMMA KnownKeeps ==
    ASSUME FolderInv, NEW t \in Tasks, Folder!Known(t)
    PROVE  FolderInv'
<1> DEFINE r == [task[t] EXCEPT !.phase = "asking"]
<1>1. /\ task[t].phase = "waiting" /\ folder' = folder /\ FolderConfigs
      /\ task' = [task EXCEPT ![t] = r]
  BY DEF Folder!Known, Folder!At, FolderConfigs
<1>2. GoodTask(r) /\ r.phase = "asking"
  BY <1>1, PhaseMoves DEF Underway
<1> HIDE DEF r
<1> QED
  BY <1>1, <1>2, TaskMoves

LEMMA DiscoverKeeps ==
    ASSUME FolderInv, NEW t \in Tasks, Folder!Discover(t)
    PROVE  FolderInv'
<1> DEFINE r == [task[t] EXCEPT !.phase = "discovering"]
<1>1. /\ task[t].phase = "waiting" /\ folder' = folder
      /\ task' = [task EXCEPT ![t] = r]
      /\ lock = {} /\ lock' = {t} /\ ~endpoint /\ endpoint' = endpoint
      /\ configs' = configs
  BY DEF Folder!Discover, Folder!At, Folder!MayEnter
<1>2. GoodTask(r) /\ r.phase = "discovering"
  BY <1>1, PhaseMoves DEF Underway
<1> HIDE DEF r
<1>3. FolderTasks'
  BY <1>1, <1>2, TasksMove
<1>4. \A u \in Tasks : u \in lock' <=> task'[u].phase = "discovering"
  <2>1. task \in [Tasks -> FolderTask]
    BY DEF FolderInv, FolderTasks
  <2>2. \A u \in Tasks : task[u].phase # "discovering"
    BY <1>1 DEF FolderInv, FolderLock
  <2>3. \A u \in Tasks : u # t => task'[u] = task[u]
    BY <1>1, <2>1
  <2>4. task'[t] = r
    BY <1>1, <2>1
  <2> QED
    BY <1>1, <1>2, <2>2, <2>3, <2>4
<1>5. FolderLock'
  BY <1>1, <1>4 DEF FolderInv, FolderLock
<1> QED
  BY <1>3, <1>5 DEF FolderInv

LEMMA DiscoveredKeeps ==
    ASSUME FolderInv, NEW t \in Tasks, Folder!Discovered(t)
    PROVE  FolderInv'
<1>1. /\ task[t].phase = "discovering" /\ folder' = folder /\ lock' = {}
      /\ task \in [Tasks -> FolderTask]
  BY DEF Folder!Discovered, Folder!At, FolderInv, FolderTasks
<1>2. t \in lock /\ endpoint = FALSE /\ configs = 0 /\ \A u \in lock : u = t
  BY <1>1 DEF FolderInv, FolderLock
<1>3. \A u \in Tasks : u # t => task[u].phase # "discovering"
  BY <1>2 DEF FolderInv, FolderLock
<1>4. ASSUME NEW r, GoodTask(r), r.phase # "discovering", task' = [task EXCEPT ![t] = r],
             \/ endpoint' = TRUE /\ configs' = configs + 1
             \/ endpoint' = endpoint /\ configs' = configs
      PROVE  FolderInv'
  <2>1. FolderTasks'
    BY <1>1, <1>4, TasksMove
  <2>2. \A u \in Tasks : task'[u].phase # "discovering"
    BY <1>1, <1>3, <1>4
  <2>3. endpoint' \in BOOLEAN /\ configs' = IF endpoint' THEN 1 ELSE 0
    <3>1. configs + 1 = 1 /\ configs = 0 /\ endpoint = FALSE
      BY <1>2
    <3>2. CASE endpoint' = TRUE /\ configs' = configs + 1
      <4>1. configs' = 1
        BY <3>1, <3>2
      <4> QED
        BY <3>2, <4>1, Zenon
    <3>3. CASE endpoint' = endpoint /\ configs' = configs
      <4>1. endpoint' = FALSE /\ configs' = 0
        BY <3>1, <3>3
      <4> QED
        BY <4>1, Zenon
    <3> QED
      BY <1>4, <3>2, <3>3
  <2>4. FolderLock'
    BY <1>1, <2>2, <2>3 DEF FolderLock
  <2> QED
    BY <2>1, <2>4 DEF FolderInv
<1>5. CASE endpoint' = TRUE /\ configs' = configs + 1 /\ task' = [task EXCEPT ![t].phase = "asking"]
  <2> DEFINE r == [task[t] EXCEPT !.phase = "asking"]
  <2>1. GoodTask(r) /\ r.phase = "asking"
    BY <1>1, PhaseMoves DEF Underway
  <2>2. task' = [task EXCEPT ![t] = r]
    BY <1>5
  <2> HIDE DEF r
  <2> QED
    BY <1>4, <1>5, <2>1, <2>2
<1>6. ASSUME NEW error \in {"NotFoundError", "RoomException"},
             task' = [task EXCEPT ![t] = Folder!Over(t, Folder!Raised(t, error))],
             endpoint' = endpoint /\ configs' = configs
      PROVE  FolderInv'
  <2> DEFINE outcome == Folder!Raised(t, error)
             r == Folder!Over(t, outcome)
  <2>1. outcome \in FolderOutcomes /\ outcome # "value"
    BY RaisedIs
  <2>2. task' = [task EXCEPT ![t] = r]
    BY <1>6
  <2> HIDE DEF outcome
  <2>3. GoodTask(r) /\ r.phase = "over"
    BY <2>1, EndIsGood
  <2> HIDE DEF r
  <2> QED
    BY <1>4, <1>6, <2>2, <2>3
<1> QED
  BY <1>5, <1>6 DEF Folder!Discovered

(* Others change the folder: what they touch no longer stands               *)
LEMMA FolderChanges ==
    ASSUME FolderInv, NEW f \in Files, Folder!OthersChange(f)
    PROVE  FolderInv'
<1> DEFINE new(t) == [task[t] EXCEPT !.stood = task[t].stood \ {f}]
<1>1. /\ task' = [t \in Tasks |-> new(t)] /\ folder' \subseteq Files
      /\ folder \ {f} \subseteq folder' /\ FolderConfigs
  BY DEF Folder!OthersChange, FolderInv, FolderTasks, FolderConfigs
<1>2. ASSUME NEW t \in Tasks
      PROVE  /\ new(t) \in FolderTask /\ new(t).stood = task[t].stood \ {f}
             /\ new(t).phase = task[t].phase /\ new(t).operation = task[t].operation
             /\ new(t).honest = task[t].honest /\ new(t).got = task[t].got
             /\ new(t).token = task[t].token /\ new(t).requests = task[t].requests
             /\ new(t).seen = task[t].seen /\ new(t).outcome = task[t].outcome
  <2>1. task[t] \in FolderTask
    BY TaskIs
  <2>2. task[t].stood \in SUBSET Files
    BY <2>1 DEF FolderTask
  <2>3. task[t].stood \ {f} \in SUBSET Files
    BY <2>2
  <2> QED
    BY <2>1, <2>3 DEF FolderTask
<1> HIDE DEF new
<1>3. ASSUME NEW t \in Tasks PROVE GoodTask(task[t])'
  <2>1. GoodTask(task[t])
    BY TaskIs
  <2>2. task'[t] = new(t)
    BY <1>1
  <2>3. new(t).stood \subseteq folder'
    BY <1>1, <1>2, <2>1 DEF GoodTask
  <2>4. ReadUpToToken(new(t)) /\ ToldRightly(new(t))
    BY <1>2, <2>1 DEF GoodTask, ReadUpToToken, ToldRightly, Underway
  <2>5. OnePerToken(new(t))
    BY <1>2, <2>1 DEF GoodTask, OnePerToken, Underway
  <2>6. ReadUpToToken(task'[t]) /\ ToldRightly(task'[t]) /\ OnePerToken(task'[t])
        /\ task'[t].stood \subseteq folder' /\ task'[t] \in FolderTask
    BY <1>2, <2>2, <2>3, <2>4, <2>5
  <2> QED
    BY <2>6 DEF GoodTask, ReadUpToToken, ToldRightly, OnePerToken, Underway
<1>4. task' \in [Tasks -> FolderTask]
  BY <1>1, <1>2
<1>5. FolderTasks'
  BY <1>1, <1>3, <1>4 DEF FolderTasks
<1>6. \A t \in Tasks : task'[t].phase = task[t].phase
  BY <1>1, <1>2
<1>7. FolderLock'
  BY <1>1, <1>6 DEF FolderInv, FolderLock, FolderConfigs
<1> QED
  BY <1>5, <1>7 DEF FolderInv

(* A page of a listing holds what there is of its stretch                   *)
LEMMA FolderPageIs ==
    ASSUME FolderInv, NEW t \in Tasks, NEW last \in Folder!Cuts(t)
    PROVE  /\ Folder!Page(t, last) \subseteq folder
           /\ last \in {0} \cup Files
           /\ last = 0 \/ last > task[t].token
           /\ \A f \in Folder!Page(t, last) :
                  f > task[t].token /\ (last = 0 \/ f <= last)
           /\ \A f \in folder :
                  f > task[t].token /\ (last = 0 \/ f <= last) => f \in Folder!Page(t, last)
<1>1. folder \subseteq Files
  BY DEF FolderInv, FolderTasks
<1> QED
  BY <1>1 DEF Folder!Page, Folder!Cuts, Folder!After

LEMMA TokensCount ==
    ASSUME NEW seen \in SUBSET Files, NEW next \in Files, NEW requests, NEW more,
           requests = Cardinality(seen), more = requests + 1
    PROVE  /\ requests \in Nat /\ requests + 1 <= Cardinality(Files) + 1
           /\ next \notin seen => /\ more = Cardinality(seen \cup {next})
                                 /\ more <= Cardinality(Files) + 1
<1>1. /\ IsFiniteSet(seen) /\ Cardinality(seen) \in Nat
      /\ Cardinality(seen) <= Cardinality(Files)
  BY FolderConstants, FS_Subset, FS_CardinalityType
<1>2. next \notin seen => Cardinality(seen \cup {next}) = Cardinality(seen) + 1
  BY <1>1, FS_AddElement
<1> DEFINE all == Cardinality(Files)
           some == Cardinality(seen)
<1>3. all \in Nat /\ some \in Nat /\ some <= all /\ requests = some
  BY <1>1, FolderConstants
<1> HIDE DEF all, some
<1>4. requests \in Nat /\ requests + 1 <= all + 1 /\ more = some + 1
  BY <1>3
<1> QED
  BY <1>2, <1>4 DEF all, some

Collected(q, new, more, honest) ==
    [q EXCEPT !.got = new, !.requests = more, !.honest = honest]

LEMMA Collects ==
    ASSUME NEW q \in FolderTask, NEW new \in Listings, NEW more \in Nat, NEW honest \in BOOLEAN
    PROVE  /\ Collected(q, new, more, honest) \in FolderTask
           /\ Collected(q, new, more, honest).phase = q.phase
           /\ Collected(q, new, more, honest).operation = q.operation
           /\ Collected(q, new, more, honest).stood = q.stood
           /\ Collected(q, new, more, honest).seen = q.seen
           /\ Collected(q, new, more, honest).got = new
           /\ Collected(q, new, more, honest).requests = more
           /\ Collected(q, new, more, honest).honest = honest
<1> DEFINE collected == Collected(q, new, more, honest)
<1> DEFINE asked == [q EXCEPT !.got = new, !.requests = more]
<1>1. /\ asked \in FolderTask /\ asked.phase = q.phase
      /\ asked.operation = q.operation /\ asked.stood = q.stood
      /\ asked.seen = q.seen /\ asked.got = new /\ asked.requests = more
  BY DEF FolderTask
<1>2. collected = [asked EXCEPT !.honest = honest]
  BY DEF FolderTask, Collected
<1> HIDE DEF asked
<1>3. collected \in FolderTask
  BY <1>1, <1>2 DEF FolderTask
<1>4. /\ collected.phase = asked.phase
      /\ collected.operation = asked.operation /\ collected.stood = asked.stood
      /\ collected.seen = asked.seen /\ collected.got = asked.got
      /\ collected.requests = asked.requests
  BY <1>1, <1>2 DEF FolderTask
<1>5. collected.honest = honest
  BY <1>1, <1>2 DEF FolderTask
<1> QED
  BY <1>1, <1>3, <1>4, <1>5

LEMMA PageKeeps ==
    ASSUME FolderInv, NEW t \in Tasks, NEW last \in Folder!Cuts(t), NEW next \in {0} \cup Files,
           Folder!TakePage(t, last, next)
    PROVE  FolderInv'
<1> DEFINE q == task[t]
           new == Append(q.got, Folder!Page(t, last))
           more == q.requests + 1
           honest == q.honest /\ next = last
           collected == [q EXCEPT !.got = new, !.requests = more, !.honest = honest]
<1>1. /\ q.phase = "asking" /\ q.operation = "list" /\ folder' = folder /\ FolderConfigs
      /\ task' = [task EXCEPT ![t] =
             IF next = 0 THEN [collected EXCEPT !.phase = "over", !.outcome = "value"]
             ELSE IF next \in collected.seen
             THEN [collected EXCEPT !.phase = "over", !.outcome = "RoomException"]
             ELSE [collected EXCEPT !.phase = "waiting", !.token = next,
                                    !.seen = Folder!Remembered(t, next)]]
  BY DEF Folder!TakePage, Folder!At, FolderConfigs
<1>2. q \in FolderTask /\ GoodTask(q)
  BY TaskIs
<1>3. /\ q.got \in Seq(SUBSET Files) /\ q.stood \in SUBSET Files /\ q.seen \in SUBSET Files
      /\ q.token \in Nat /\ q.requests \in Nat /\ q.honest \in BOOLEAN
      /\ q.stood \subseteq folder /\ folder \subseteq Files
  BY <1>2 DEF FolderTask, Listings, GoodTask, FolderInv, FolderTasks
<1>4. /\ Folder!Page(t, last) \in SUBSET Files /\ last \in Nat /\ next \in Nat
  BY <1>3, FolderPageIs, FolderConstants
<1>5. /\ honest \in BOOLEAN /\ (honest => q.honest /\ next = last)
  BY Zenon
<1>6. new \in Listings
  BY <1>3, <1>4, PageAdded DEF Listings
<1>7. /\ q.requests = Cardinality(q.seen) /\ more <= Cardinality(Files) + 1
      /\ more \in Nat
  <2>1. q.requests = Cardinality(q.seen)
    BY <1>1, <1>2 DEF GoodTask, OnePerToken, Underway
  <2>2. /\ Cardinality(q.seen) \in Nat /\ Cardinality(q.seen) <= Cardinality(Files)
        /\ Cardinality(Files) \in Nat
    BY <1>3, FolderConstants, FS_Subset, FS_CardinalityType
  <2> DEFINE some == Cardinality(q.seen)
             all == Cardinality(Files)
  <2> HIDE DEF some, all
  <2>3. some \in Nat /\ all \in Nat /\ some <= all /\ q.requests = some
    BY <2>1, <2>2 DEF some, all
  <2>4. more \in Nat /\ more <= all + 1
    BY <2>3
  <2> QED
    BY <2>1, <2>4 DEF all
<1>8. honest => ReadBy(new, q.stood, last)
  <2> SUFFICES ASSUME honest PROVE ReadBy(new, q.stood, last)
    OBVIOUS
  <2>1. ReadTo(q.got, q.stood, q.token)
    BY <1>1, <1>2, <1>5 DEF GoodTask, ReadUpToToken, Underway, ReadTo
  <2> DEFINE page == Folder!Page(t, last)
  <2>2. OfStretch(page, q.stood, q.token, last)
    BY <1>3, FolderPageIs DEF OfStretch
  <2>3. page \in SUBSET Files /\ new = Append(q.got, page) /\ Files \subseteq Nat
    BY <1>4, FolderConstants
  <2> DEFINE got == q.got
             stood == q.stood
             token == q.token
  <2>4. /\ got \in Seq(SUBSET Files) /\ page \in SUBSET Files /\ stood \in SUBSET Files
        /\ token \in Nat /\ last \in Nat /\ Files \subseteq Nat
        /\ ReadTo(got, stood, token) /\ OfStretch(page, stood, token, last)
        /\ new = Append(got, page)
    BY <1>3, <1>4, <2>1, <2>2, <2>3
  <2> HIDE DEF page, new, got, stood, token
  <2>5. ReadBy(new, stood, last)
    BY <2>4, PagesGrow
  <2> QED
    BY <2>5 DEF stood
<1> HIDE DEF new, more, honest, q
<1>9. /\ collected \in FolderTask /\ collected.phase = "asking"
      /\ collected.operation = "list" /\ collected.stood = q.stood
      /\ collected.seen = q.seen /\ collected.got = new /\ collected.requests = more
      /\ collected.honest = honest
  <2>1. collected = Collected(q, new, more, honest)
    BY DEF Collected
  <2>2. q \in FolderTask /\ q.phase = "asking" /\ q.operation = "list"
    BY <1>1, <1>2
  <2>3. q \in FolderTask /\ more \in Nat /\ honest \in BOOLEAN /\ new \in Listings
    BY <1>5, <1>6, <1>7, <2>2
  <2> HIDE DEF collected
  <2>4. /\ Collected(q, new, more, honest) \in FolderTask
        /\ Collected(q, new, more, honest).phase = q.phase
        /\ Collected(q, new, more, honest).operation = q.operation
        /\ Collected(q, new, more, honest).stood = q.stood
        /\ Collected(q, new, more, honest).seen = q.seen
        /\ Collected(q, new, more, honest).got = new
        /\ Collected(q, new, more, honest).requests = more
        /\ Collected(q, new, more, honest).honest = honest
    BY <2>3, Collects
  <2> QED
    BY <2>1, <2>2, <2>4
<1> HIDE DEF collected
<1>10. CASE next = 0
  <2> DEFINE r == [collected EXCEPT !.phase = "over", !.outcome = "value"]
  <2>1. "over" \in FolderPhases /\ "value" \in FolderOutcomes
    BY DEF FolderPhases, FolderOutcomes
  <2>2. /\ r \in FolderTask /\ r.phase = "over" /\ r.outcome = "value" /\ r.got = new
        /\ r.stood = q.stood /\ r.honest = honest /\ r.requests = more
    BY <1>9, <2>1 DEF FolderTask
  <2>3. task' = [task EXCEPT ![t] = r]
    BY <1>1, <1>10
  <2> HIDE DEF r
  <2>4. honest => /\ \A f \in q.stood : \E k \in DOMAIN new : f \in new[k]
                  /\ \A j, k \in DOMAIN new : j # k => new[j] \cap new[k] = {}
    <3>1. honest => last = 0
      BY <1>5, <1>10
    <3> QED
      BY <1>8, <3>1 DEF ReadBy
  <2>5. ToldRightly(r)
    BY <2>2, <2>4 DEF ToldRightly
  <2>6. ReadUpToToken(r) /\ OnePerToken(r)
    BY <1>7, <2>2 DEF ReadUpToToken, OnePerToken, Underway
  <2>7. GoodTask(r)
    BY <1>3, <2>2, <2>5, <2>6 DEF GoodTask
  <2> QED
    BY <1>1, <2>2, <2>3, <2>7, TaskMoves DEF q
<1>11. CASE next # 0 /\ next \in q.seen
  <2> DEFINE r == [collected EXCEPT !.phase = "over", !.outcome = "RoomException"]
  <2>1. "over" \in FolderPhases /\ "RoomException" \in FolderOutcomes
    BY DEF FolderPhases, FolderOutcomes
  <2>2. /\ r \in FolderTask /\ r.phase = "over" /\ r.outcome = "RoomException"
        /\ r.stood = q.stood /\ r.requests = more
    BY <1>9, <2>1 DEF FolderTask
  <2>3. task' = [task EXCEPT ![t] = r]
    BY <1>1, <1>9, <1>11
  <2> HIDE DEF r
  <2>4. ReadUpToToken(r) /\ OnePerToken(r) /\ ToldRightly(r)
    BY <1>7, <2>2 DEF ReadUpToToken, OnePerToken, ToldRightly, Underway
  <2>5. GoodTask(r)
    BY <1>3, <2>2, <2>4 DEF GoodTask
  <2> QED
    BY <1>1, <2>2, <2>3, <2>5, TaskMoves DEF q
<1>12. CASE next # 0 /\ next \notin q.seen
  <2> DEFINE seen == q.seen \cup {next}
             r == [collected EXCEPT !.phase = "waiting", !.token = next, !.seen = seen]
  <2>1. /\ "waiting" \in FolderPhases /\ seen \in SUBSET Files /\ next \in Files
    BY <1>3, <1>12 DEF FolderPhases
  <2>2. task' = [task EXCEPT ![t] = r]
    BY <1>1, <1>9, <1>12 DEF Folder!Remembered, q
  <2>3. more = Cardinality(seen)
    <3>1. more = q.requests + 1
      BY DEF more
    <3>2. more = Cardinality(q.seen \cup {next})
      BY <1>3, <1>7, <1>12, <2>1, <3>1, TokensCount
    <3> QED
      BY <3>2
  <2> HIDE DEF seen
  <2>4. /\ r \in FolderTask /\ r.phase = "waiting" /\ r.token = next /\ r.seen = seen
        /\ r.got = new /\ r.stood = q.stood /\ r.honest = honest /\ r.requests = more
    BY <1>4, <1>9, <2>1 DEF FolderTask
  <2> HIDE DEF r
  <2>5. OnePerToken(r)
    BY <1>7, <2>3, <2>4 DEF OnePerToken
  <2>6. ToldRightly(r)
    BY <2>4 DEF ToldRightly
  <2>7. ReadUpToToken(r)
    <3>1. honest => next = last /\ last # 0
      BY <1>5, <1>12
    <3> QED
      BY <1>8, <2>4, <3>1 DEF ReadUpToToken, ReadBy
  <2>8. GoodTask(r)
    BY <1>3, <2>4, <2>5, <2>6, <2>7 DEF GoodTask
  <2> QED
    BY <1>1, <2>2, <2>4, <2>8, TaskMoves DEF q
<1> QED
  BY <1>10, <1>11, <1>12

LEMMA FolderNextKeeps == FolderInv /\ [Folder!Next]_(Folder!vars) => FolderInv'
<1> SUFFICES ASSUME FolderInv, [Folder!Next]_(Folder!vars) PROVE FolderInv'
  OBVIOUS
<1>1. CASE UNCHANGED Folder!vars
  <2>1. /\ endpoint' = endpoint /\ lock' = lock /\ task' = task /\ folder' = folder
        /\ configs' = configs
    BY <1>1 DEF Folder!vars
  <2>2. FolderLock'
    BY <2>1 DEF FolderInv, FolderLock
  <2>3. \A t \in Tasks : GoodTask(task[t])'
    <3>1. ASSUME NEW t \in Tasks PROVE GoodTask(task[t])'
      <4>1. GoodTask(task'[t])
        BY <2>1, TaskIs
      <4> QED
        BY <2>1, <4>1 DEF GoodTask, ReadUpToToken, OnePerToken, ToldRightly, Underway
    <3> QED
      BY <3>1
  <2>4. FolderTasks'
    BY <2>1, <2>3 DEF FolderInv, FolderTasks
  <2> QED
    BY <2>2, <2>4 DEF FolderInv
<1>2. ASSUME NEW t \in Tasks, NEW k \in Folder!Kinds,
             Folder!Call(t, k) \/ Folder!RefuseArguments(t, k)
      PROVE  FolderInv'
  BY <1>2, CallKeeps, RefuseKeeps
<1>3. ASSUME NEW t \in Tasks, Folder!Known(t) \/ Folder!Discover(t) \/ Folder!Discovered(t)
      PROVE  FolderInv'
  BY <1>3, KnownKeeps, DiscoverKeeps, DiscoveredKeeps
<1>4. ASSUME NEW t \in Tasks, NEW status \in {307, 403, 404}, Folder!TakeFailure(t, status)
      PROVE  FolderInv'
  BY <1>4, FailureKeeps
<1>5. ASSUME NEW t \in Tasks, Folder!Breaks(t) \/ Folder!TakeAnswer(t) \/ Folder!Return(t)
      PROVE  FolderInv'
  BY <1>5, BreakKeeps, AnswerKeeps, ReturnKeeps
<1>6. ASSUME NEW t \in Tasks, NEW last \in Folder!Cuts(t), NEW next \in {0} \cup Files,
             Folder!TakePage(t, last, next)
      PROVE  FolderInv'
  BY <1>6, PageKeeps
<1>7. ASSUME NEW f \in Files, Folder!OthersChange(f) PROVE FolderInv'
  BY <1>7, FolderChanges
<1> QED
  BY <1>1, <1>2, <1>3, <1>4, <1>5, <1>6, <1>7 DEF Folder!Next

(* The tasks of a files client keep their shape (FilesClient).              *)
THEOREM FolderTypeCorrect == Folder!Spec => []Folder!TypeOK
<1>1. FolderInv => Folder!TypeOK
  <2> SUFFICES ASSUME FolderInv PROVE Folder!TypeOK
    OBVIOUS
  <2>1. configs \in Nat
    BY DEF FolderInv, FolderLock
  <2>2. endpoint \in BOOLEAN /\ lock \subseteq Tasks
    BY DEF FolderInv, FolderLock
  <2>3. folder \subseteq Files
    BY DEF FolderInv, FolderTasks
  <2>4. \A t \in Tasks : task[t].operation \in FolderOperations /\ task[t].phase \in FolderPhases
    BY TaskIs DEF FolderTask
  <2> QED
    BY <2>1, <2>2, <2>3, <2>4 DEF Folder!TypeOK, FolderOperations, FolderPhases
<1> QED
  BY <1>1, FolderInitHolds, FolderNextKeeps, PTL DEF Folder!Spec

LEMMA FolderCounts == ASSUME NEW S PROVE Folder!Cardinality(S) = Cardinality(S)
  BY DEF Folder!Cardinality, Cardinality

(* The lock is held by one task at most *)
LEMMA OneDiscovers == FolderInv => Folder!DiscoveredOnce
<1> SUFFICES ASSUME FolderInv PROVE Folder!DiscoveredOnce
  OBVIOUS
<1> DEFINE D == {t \in Tasks : Folder!At(t, "discovering")}
<1>1. \A t, u \in D : t = u
  BY DEF FolderInv, FolderLock, Folder!At
<1>2. Cardinality(D) \in {0, 1}
  <2>1. CASE D = {}
    BY <2>1, FS_EmptySet
  <2>2. ASSUME NEW t \in D PROVE Cardinality(D) = 1
    <3>1. D = {t}
      BY <1>1, <2>2
    <3> HIDE DEF D
    <3> QED
      BY <3>1, FS_Singleton
  <2> QED
    BY <2>1, <2>2
<1>3. configs \in {0, 1}
  BY DEF FolderInv, FolderLock
<1> HIDE DEF D
<1>4. Cardinality(D) <= 1 /\ configs <= 1
  BY <1>2, <1>3
<1> QED
  BY <1>4, FolderCounts DEF Folder!DiscoveredOnce, D

(* The files endpoint is asked for once, by one task, however many calls    *)
(* need it at the same time (_endpoint and its lock).                       *)
THEOREM EndpointFoundOnce == Folder!Spec => []Folder!DiscoveredOnce
  BY OneDiscovers, FolderInitHolds, FolderNextKeeps, PTL DEF Folder!Spec

(* A listing makes no more requests than there are files and one, whatever  *)
(* tokens the server gives it, and what an honest server has it return is   *)
(* whole and repeats nothing (list and its set of seen tokens).             *)
THEOREM ListingsAreWhole == Folder!Spec => []Folder!ListingEnds
<1>1. FolderInv => Folder!ListingEnds
  <2> SUFFICES ASSUME FolderInv, NEW t \in Tasks, task[t].operation = "list"
               PROVE  /\ task[t].requests <= Cardinality(Files) + 1
                      /\ Folder!At(t, "over") /\ task[t].outcome = "value"
                             /\ task[t].honest =>
                            /\ \A f \in task[t].stood :
                                   \E k \in DOMAIN task[t].got : f \in task[t].got[k]
                            /\ \A j, k \in DOMAIN task[t].got :
                                   j # k => task[t].got[j] \cap task[t].got[k] = {}
    BY FolderCounts DEF Folder!ListingEnds
  <2>1. OnePerToken(task[t]) /\ ToldRightly(task[t])
    BY TaskIs DEF GoodTask
  <2> QED
    BY <2>1 DEF OnePerToken, ToldRightly, Folder!At
<1> QED
  BY <1>1, FolderInitHolds, FolderNextKeeps, PTL DEF Folder!Spec

-----------------------------------------------------------------------------
(***************************************************************************)
(* Theorems about DocumentDeltas, for a text of any length and any number  *)
(* of children.  That the runs hold the text is told by cuts of the text,  *)
(* one behind every run, and never by joining the runs.                    *)
(***************************************************************************)

(* Slices of sequences                                                      *)
LEMMA UptoIs ==
    ASSUME NEW S, NEW s \in Seq(S), NEW n \in 0..Len(s)
    PROVE  /\ Document!Upto(s, n) \in Seq(S) /\ Len(Document!Upto(s, n)) = n
           /\ \A k \in 1..n : Document!Upto(s, n)[k] = s[k]
  BY DEF Document!Upto

LEMMA FromIs ==
    ASSUME NEW S, NEW s \in Seq(S), NEW n \in 0..Len(s)
    PROVE  /\ Document!From(s, n) \in Seq(S) /\ Len(Document!From(s, n)) = Len(s) - n
           /\ \A k \in 1..(Len(s) - n) : Document!From(s, n)[k] = s[n + k]
  BY DEF Document!From

LEMMA JoinIs ==
    ASSUME NEW S, NEW s \in Seq(S), NEW t \in Seq(S)
    PROVE  /\ s \o t \in Seq(S) /\ Len(s \o t) = Len(s) + Len(t)
           /\ \A k \in 1..Len(s) : (s \o t)[k] = s[k]
           /\ \A k \in 1..Len(t) : (s \o t)[Len(s) + k] = t[k]
  OBVIOUS

(* t is s with new put in behind the place at                               *)
AreWith(S, s, at, new, t) ==
    /\ t \in Seq(S) /\ Len(t) = Len(s) + Len(new)
    /\ \A k \in 1..at : t[k] = s[k]
    /\ \A k \in 1..Len(new) : t[at + k] = new[k]
    /\ \A k \in (at + 1)..Len(s) : t[k + Len(new)] = s[k]

LEMMA WithAre ==
    ASSUME NEW S, NEW s \in Seq(S), NEW at \in 0..Len(s), NEW new \in Seq(S)
    PROVE  AreWith(S, s, at, new, Document!With(s, at, new))
<1> DEFINE t == Document!With(s, at, new)
           front == Document!Upto(s, at)
           back == Document!From(s, at)
           head == front \o new
<1>1. /\ front \in Seq(S) /\ Len(front) = at /\ \A k \in 1..at : front[k] = s[k]
  BY UptoIs
<1>2. /\ back \in Seq(S) /\ Len(back) = Len(s) - at
      /\ \A k \in 1..(Len(s) - at) : back[k] = s[at + k]
  BY FromIs
<1> HIDE DEF front, back
<1>3. /\ head \in Seq(S) /\ Len(head) = at + Len(new)
      /\ \A k \in 1..at : head[k] = front[k]
      /\ \A k \in 1..Len(new) : head[at + k] = new[k]
  <2>1. /\ head \in Seq(S) /\ Len(head) = Len(front) + Len(new)
        /\ \A k \in 1..Len(front) : head[k] = front[k]
        /\ \A k \in 1..Len(new) : head[Len(front) + k] = new[k]
    BY <1>1
  <2> QED
    BY <1>1, <2>1
<1>4. t = head \o back
  BY DEF Document!With, front, back
<1> HIDE DEF head, t
<1>5. Len(s) \in Nat /\ Len(new) \in Nat /\ Len(head) \in Nat
  BY <1>3
<1>6. /\ t \in Seq(S) /\ Len(t) = Len(head) + Len(back)
      /\ \A k \in 1..Len(head) : t[k] = head[k]
      /\ \A k \in 1..Len(back) : t[Len(head) + k] = back[k]
  <2>1. head \in Seq(S) /\ back \in Seq(S)
    BY <1>2, <1>3
  <2> QED
    BY <1>4, <2>1
<1>7. \A k \in 1..at : t[k] = s[k]
  BY <1>1, <1>3, <1>5, <1>6
<1>8. \A k \in 1..Len(new) : t[at + k] = new[k]
  BY <1>3, <1>5, <1>6
<1>9. ASSUME NEW k \in (at + 1)..Len(s) PROVE t[k + Len(new)] = s[k]
  <2>1. k - at \in 1..Len(back) /\ Len(head) + (k - at) = k + Len(new)
    BY <1>2, <1>3, <1>5
  <2>2. t[Len(head) + (k - at)] = back[k - at]
    BY <1>6, <2>1
  <2>3. back[k - at] = s[at + (k - at)] /\ at + (k - at) = k
    BY <1>2, <1>5, <2>1
  <2> QED
    BY <2>1, <2>2, <2>3
<1>10. t \in Seq(S) /\ Len(t) = Len(s) + Len(new)
  BY <1>2, <1>3, <1>5, <1>6
<1>11. AreWith(S, s, at, new, t)
  BY <1>7, <1>8, <1>9, <1>10 DEF AreWith
<1> QED
  BY <1>11 DEF t

LEMMA NumbersWith ==
    ASSUME NEW s \in Seq(Nat), NEW at \in 0..Len(s), NEW new \in Seq(Nat)
    PROVE  LET t == Document!With(s, at, new) IN
           /\ t \in Seq(Nat) /\ Len(t) = Len(s) + Len(new)
           /\ \A k \in 1..at : t[k] = s[k]
           /\ \A k \in 1..Len(new) : t[at + k] = new[k]
           /\ \A k \in (at + 1)..Len(s) : t[k + Len(new)] = s[k]
<1>1. AreWith(Nat, s, at, new, Document!With(s, at, new))
  BY WithAre, Zenon
<1> QED
  BY <1>1 DEF AreWith

LEMMA WithoutIs ==
    ASSUME NEW S, NEW s \in Seq(S), NEW at \in Nat, NEW n \in Nat, at + n <= Len(s)
    PROVE  LET t == Document!Without(s, at, n) IN
           /\ t \in Seq(S) /\ Len(t) = Len(s) - n
           /\ \A k \in 1..at : t[k] = s[k]
           /\ \A k \in (at + 1)..(Len(s) - n) : t[k] = s[k + n]
<1> DEFINE t == Document!Without(s, at, n)
           front == Document!Upto(s, at)
           back == Document!From(s, at + n)
<1>0. Len(s) \in Nat /\ at \in 0..Len(s) /\ at + n \in 0..Len(s)
  OBVIOUS
<1>1. /\ front \in Seq(S) /\ Len(front) = at /\ \A k \in 1..at : front[k] = s[k]
  BY <1>0, UptoIs
<1>2. /\ back \in Seq(S) /\ Len(back) = Len(s) - (at + n)
      /\ \A k \in 1..(Len(s) - (at + n)) : back[k] = s[(at + n) + k]
  BY <1>0, FromIs
<1>3. t = front \o back
  BY DEF Document!Without
<1> HIDE DEF front, back, t
<1>4. /\ t \in Seq(S) /\ Len(t) = at + Len(back)
      /\ \A k \in 1..at : t[k] = front[k]
      /\ \A k \in 1..Len(back) : t[at + k] = back[k]
  BY <1>1, <1>2, <1>3, JoinIs
<1>5. ASSUME NEW k \in (at + 1)..(Len(s) - n) PROVE t[k] = s[k + n]
  <2>1. k - at \in 1..Len(back) /\ at + (k - at) = k /\ (at + n) + (k - at) = k + n
    BY <1>0, <1>2
  <2> QED
    BY <1>2, <1>4, <2>1
<1> QED
  BY <1>0, <1>1, <1>2, <1>4, <1>5 DEF t

-----------------------------------------------------------------------------
(* Runs that spell a word                                                   *)
TextRun == [insert : Seq(Nat), bold : BOOLEAN]

(* The cut is one into stretches, from the left to the right                *)
Spelt(cut, rs, word) ==
    /\ cut \in [0..Len(rs) -> Nat] /\ Document!CutAt(cut, rs, word)
    /\ \A j, k \in 0..Len(rs) : j <= k => cut[j] <= cut[k]

(* a stretch of the word                                                    *)
Stretch(own, word, low) == \A j \in 1..Len(own) : own[j] = word[low + j]

LEMMA SpeltIs ==
    ASSUME NEW rs \in Seq(TextRun), NEW word \in Seq(Nat), NEW cut, Spelt(cut, rs, word)
    PROVE  /\ \A k \in 0..Len(rs) : cut[k] \in Nat /\ cut[k] <= Len(word)
           /\ cut[0] = 0 /\ cut[Len(rs)] = Len(word)
           /\ \A k \in 1..Len(rs) :
                  /\ rs[k].insert \in Seq(Nat) /\ Len(rs[k].insert) = cut[k] - cut[k - 1]
                  /\ cut[k - 1] \in Nat /\ cut[k - 1] <= cut[k]
                  /\ Stretch(rs[k].insert, word, cut[k - 1])
<1>1. \A k \in 0..Len(rs) : cut[k] \in Nat /\ cut[k] <= cut[Len(rs)]
  <2>1. Len(rs) \in Nat /\ Len(rs) \in 0..Len(rs) /\ \A k \in 0..Len(rs) : k <= Len(rs)
    OBVIOUS
  <2> QED
    BY <2>1 DEF Spelt
<1>2. cut[0] = 0 /\ cut[Len(rs)] = Len(word)
  BY DEF Spelt, Document!CutAt
<1>3. ASSUME NEW k \in 1..Len(rs)
      PROVE  /\ rs[k].insert \in Seq(Nat) /\ Len(rs[k].insert) = cut[k] - cut[k - 1]
             /\ cut[k - 1] \in Nat /\ cut[k - 1] <= cut[k]
             /\ Stretch(rs[k].insert, word, cut[k - 1])
  <2>1. rs[k] \in TextRun
    OBVIOUS
  <2>2. rs[k].insert \in Seq(Nat)
    BY <2>1 DEF TextRun
  <2>3. /\ cut[k] = cut[k - 1] + Len(rs[k].insert)
        /\ Stretch(rs[k].insert, word, cut[k - 1])
    BY DEF Spelt, Document!CutAt, Stretch
  <2>4. cut[k] \in Nat /\ cut[k - 1] \in Nat /\ cut[k - 1] <= cut[k]
    <3>1. k \in 0..Len(rs) /\ k - 1 \in 0..Len(rs) /\ k - 1 <= k
      OBVIOUS
    <3> QED
      BY <3>1 DEF Spelt
  <2>5. Len(rs[k].insert) \in Nat
    BY <2>2
  <2> QED
    BY <2>2, <2>3, <2>4, <2>5
<1> QED
  BY <1>1, <1>2, <1>3


(* What has to be shown of a cut                                            *)
LEMMA SpeltHolds ==
    ASSUME NEW rs \in Seq(TextRun), NEW word \in Seq(Nat), NEW cut, cut \in [0..Len(rs) -> Nat],
           cut[0] = 0, cut[Len(rs)] = Len(word),
           \A j, k \in 0..Len(rs) : j <= k => cut[j] <= cut[k],
           \A k \in 1..Len(rs) :
               /\ cut[k] = cut[k - 1] + Len(rs[k].insert)
               /\ Stretch(rs[k].insert, word, cut[k - 1])
    PROVE  Spelt(cut, rs, word)
  BY DEF Spelt, Document!CutAt, Stretch

(* runs of the same characters spell the same word                          *)
LEMMA SpeltAgain ==
    ASSUME NEW rs \in Seq(TextRun), NEW word \in Seq(Nat), NEW cut, Spelt(cut, rs, word),
           NEW rs2 \in Seq(TextRun), Len(rs2) = Len(rs),
           \A k \in 1..Len(rs) : rs2[k].insert = rs[k].insert
    PROVE  Spelt(cut, rs2, word)
<1>1. /\ cut \in [0..Len(rs) -> Nat] /\ cut[0] = 0 /\ cut[Len(rs)] = Len(word)
      /\ \A j, k \in 0..Len(rs) : j <= k => cut[j] <= cut[k]
  BY DEF Spelt, Document!CutAt
<1>2. ASSUME NEW k \in 1..Len(rs)
      PROVE  /\ cut[k] = cut[k - 1] + Len(rs2[k].insert)
             /\ Stretch(rs2[k].insert, word, cut[k - 1])
  <2>1. /\ cut[k] = cut[k - 1] + Len(rs[k].insert)
        /\ Stretch(rs[k].insert, word, cut[k - 1])
    BY DEF Spelt, Document!CutAt, Stretch
  <2>2. rs2[k].insert = rs[k].insert
    OBVIOUS
  <2> QED
    BY <2>1, <2>2
<1> QED
  BY <1>1, <1>2, SpeltHolds

(* a word with something put into it                                        *)
WordWith(word, p, new, word2) ==
    /\ word2 \in Seq(Nat) /\ Len(word2) = Len(word) + Len(new)
    /\ \A k \in 1..p : word2[k] = word[k]
    /\ \A k \in 1..Len(new) : word2[p + k] = new[k]
    /\ \A k \in (p + 1)..Len(word) : word2[k + Len(new)] = word[k]

LEMMA StretchBefore ==
    ASSUME NEW word, NEW word2, NEW new, NEW p \in Nat, WordWith(word, p, new, word2),
           NEW own \in Seq(Nat), NEW low \in Nat, low + Len(own) <= p,
           Stretch(own, word, low)
    PROVE  Stretch(own, word2, low)
<1>1. \A k \in 1..p : word2[k] = word[k]
  BY DEF WordWith
<1>2. Len(own) \in Nat /\ \A j \in 1..Len(own) : low + j \in 1..p
  OBVIOUS
<1> QED
  BY <1>1, <1>2 DEF Stretch

LEMMA StretchBehind ==
    ASSUME NEW word \in Seq(Nat), NEW word2, NEW new, NEW n \in Nat, n = Len(new), NEW p \in Nat,
           WordWith(word, p, new, word2),
           NEW own \in Seq(Nat), NEW low \in Nat, p <= low, low + Len(own) <= Len(word),
           Stretch(own, word, low)
    PROVE  Stretch(own, word2, low + n)
<1>1. \A k \in (p + 1)..Len(word) : word2[k + n] = word[k]
  BY DEF WordWith
<1>2. ASSUME NEW j \in 1..Len(own) PROVE own[j] = word2[(low + n) + j]
  <2>1. Len(own) \in Nat /\ Len(word) \in Nat
    OBVIOUS
  <2>2. low + j \in (p + 1)..Len(word) /\ (low + j) + n = (low + n) + j
    BY <2>1
  <2>3. word2[(low + j) + n] = word[low + j]
    BY <1>1, <2>2
  <2>4. own[j] = word[low + j]
    BY DEF Stretch
  <2> QED
    BY <2>2, <2>3, <2>4
<1> QED
  BY <1>2 DEF Stretch

LEMMA StretchAround ==
    ASSUME NEW word \in Seq(Nat), NEW word2, NEW new \in Seq(Nat), NEW p \in Nat,
           WordWith(word, p, new, word2),
           NEW own \in Seq(Nat), NEW low \in Nat, NEW x \in 0..Len(own), p = low + x,
           low + Len(own) <= Len(word), Stretch(own, word, low)
    PROVE  /\ Len(Document!With(own, x, new)) = Len(own) + Len(new)
           /\ Stretch(Document!With(own, x, new), word2, low)
<1> DEFINE own2 == Document!With(own, x, new)
           n == Len(new)
           l == Len(own)
           all == Len(word)
<1>1. n \in Nat /\ l \in Nat /\ all \in Nat /\ x \in Nat /\ x <= l /\ low + l <= all
  OBVIOUS
<1>2. /\ Len(own2) = l + n
      /\ \A k \in 1..x : own2[k] = own[k]
      /\ \A k \in 1..n : own2[x + k] = new[k]
      /\ \A k \in (x + 1)..l : own2[k + n] = own[k]
  BY NumbersWith
<1>3. /\ \A k \in 1..p : word2[k] = word[k]
      /\ \A k \in 1..n : word2[p + k] = new[k]
      /\ \A k \in (p + 1)..all : word2[k + n] = word[k]
  BY DEF WordWith
<1>4. \A j \in 1..l : own[j] = word[low + j]
  BY DEF Stretch
<1> HIDE DEF n, l, all, own2
<1>5. ASSUME NEW j \in Nat, 1 <= j, j <= x PROVE own2[j] = word2[low + j]
  <2>1. j \in 1..x /\ j \in 1..l /\ low + j \in 1..p
    BY <1>1, <1>5
  <2> QED
    BY <1>2, <1>3, <1>4, <2>1
<1>6. ASSUME NEW j \in Nat, x < j, j <= x + n PROVE own2[j] = word2[low + j]
  <2>1. j - x \in 1..n /\ x + (j - x) = j /\ p + (j - x) = low + j
    BY <1>1, <1>6
  <2>2. own2[x + (j - x)] = new[j - x] /\ word2[p + (j - x)] = new[j - x]
    BY <1>2, <1>3, <2>1
  <2> QED
    BY <2>1, <2>2
<1>7. ASSUME NEW j \in Nat, x + n < j, j <= l + n PROVE own2[j] = word2[low + j]
  <2> DEFINE k == j - n
  <2>1. /\ k \in (x + 1)..l /\ k + n = j /\ k \in 1..l
        /\ low + k \in (p + 1)..all /\ (low + k) + n = low + j
    BY <1>1, <1>7
  <2> HIDE DEF k
  <2>2. /\ own2[k + n] = own[k]
        /\ word2[(low + k) + n] = word[low + k]
        /\ own[k] = word[low + k]
    BY <1>2, <1>3, <1>4, <2>1
  <2> QED
    BY <2>1, <2>2
<1>8. ASSUME NEW j \in 1..Len(own2) PROVE own2[j] = word2[low + j]
  <2>1. j \in Nat /\ 1 <= j /\ j <= l + n
    BY <1>1, <1>2
  <2>2. j <= x \/ (x < j /\ j <= x + n) \/ x + n < j
    BY <1>1, <2>1
  <2> QED
    BY <1>5, <1>6, <1>7, <2>1, <2>2
<1> QED
  BY <1>2, <1>8 DEF n, l, own2, Stretch

(* What is put into a run is put into the word                              *)
RunWith(rs, i, x, new, rs2) ==
    /\ rs2 \in Seq(TextRun) /\ Len(rs2) = Len(rs)
    /\ \A k \in 1..Len(rs) : k # i => rs2[k] = rs[k]
    /\ rs2[i].insert = Document!With(rs[i].insert, x, new)

CutWith(cut, m, i, n) == [k \in 0..m |-> IF k < i THEN cut[k] ELSE cut[k] + n]

LEMMA SpeltWith ==
    ASSUME NEW rs \in Seq(TextRun), NEW word \in Seq(Nat), NEW cut, Spelt(cut, rs, word),
           NEW i \in 1..Len(rs), NEW p \in Nat, cut[i - 1] <= p, p <= cut[i],
           NEW new \in Seq(Nat), NEW rs2, RunWith(rs, i, p - cut[i - 1], new, rs2),
           NEW word2, WordWith(word, p, new, word2)
    PROVE  Spelt(CutWith(cut, Len(rs), i, Len(new)), rs2, word2)
<1> DEFINE n == Len(new)
           m == Len(rs)
           cut2 == CutWith(cut, m, i, n)
<1>1. n \in Nat /\ m \in Nat /\ i \in Nat /\ 1 <= i /\ i <= m /\ Len(word) \in Nat
  OBVIOUS
<1>2. \A k \in 0..m : /\ k < i => cut2[k] = cut[k]
                      /\ k >= i => cut2[k] = cut[k] + n
                      /\ cut[k] \in Nat /\ cut[k] <= Len(word)
  <2>1. \A k \in 0..m : cut[k] \in Nat /\ cut[k] <= Len(word)
    BY SpeltIs
  <2> HIDE DEF n, m
  <2>2. \A k \in 0..m : cut2[k] = IF k < i THEN cut[k] ELSE cut[k] + n
    BY DEF CutWith
  <2> HIDE DEF cut2
  <2> QED
    BY <1>1, <2>1, <2>2
<1>3. cut2 \in [0..m -> Nat]
  <2> HIDE DEF n, m
  <2> QED
    BY <1>1, <1>2 DEF CutWith
<1>4. \A j, k \in 0..m : j <= k => cut[j] <= cut[k]
  BY DEF Spelt
<1>5. \A k \in 1..m : /\ rs[k].insert \in Seq(Nat) /\ Len(rs[k].insert) = cut[k] - cut[k - 1]
                      /\ cut[k - 1] \in Nat /\ cut[k - 1] <= cut[k]
                      /\ Stretch(rs[k].insert, word, cut[k - 1])
  BY SpeltIs
<1>6. cut[0] = 0 /\ cut[m] = Len(word)
  BY SpeltIs
<1>7. /\ rs2 \in Seq(TextRun) /\ Len(rs2) = m
      /\ \A k \in 1..m : k # i => rs2[k] = rs[k]
      /\ rs2[i].insert = Document!With(rs[i].insert, p - cut[i - 1], new)
      /\ word2 \in Seq(Nat) /\ Len(word2) = Len(word) + n
  BY DEF RunWith, WordWith
<1> HIDE DEF cut2, n, m
<1>8. ASSUME NEW j \in 0..m, NEW k \in 0..m, j <= k PROVE cut2[j] <= cut2[k]
  <2>1. /\ cut[j] <= cut[k] /\ cut[j] \in Nat /\ cut[k] \in Nat
        /\ j \in Int /\ k \in Int
    BY <1>1, <1>2, <1>4, <1>8
  <2>2. cut2[j] = cut[j] \/ (j >= i /\ cut2[j] = cut[j] + n)
    BY <1>1, <1>2, <2>1
  <2>3. cut2[k] = cut[k] + n \/ (k < i /\ cut2[k] = cut[k])
    BY <1>1, <1>2, <2>1
  <2> QED
    BY <1>1, <1>8, <2>1, <2>2, <2>3
<1>9. cut2[0] = 0 /\ cut2[m] = Len(word2)
  <2>1. 0 \in 0..m /\ m \in 0..m /\ 0 < i /\ m >= i
    BY <1>1
  <2>2. cut2[0] = cut[0] /\ cut2[m] = cut[m] + n
    BY <1>2, <2>1
  <2> QED
    BY <1>6, <1>7, <2>2
<1>10. ASSUME NEW k \in 1..m
       PROVE  /\ cut2[k] = cut2[k - 1] + Len(rs2[k].insert)
              /\ Stretch(rs2[k].insert, word2, cut2[k - 1])
  <2> DEFINE own == rs[k].insert
             low == cut[k - 1]
  <2>1. /\ own \in Seq(Nat) /\ Len(own) \in Nat /\ cut[k] = low + Len(own) /\ low \in Nat
        /\ low + Len(own) <= Len(word) /\ Stretch(own, word, low)
    <3>1. k \in 0..m /\ own \in Seq(Nat)
      BY <1>1, <1>5
    <3>2. Len(own) \in Nat
      BY <3>1
    <3>3. /\ cut[k] \in Nat /\ cut[k] <= Len(word) /\ low \in Nat
          /\ Len(own) = cut[k] - low /\ Stretch(own, word, low)
      BY <1>2, <1>5, <3>1
    <3>4. /\ cut[k] = low + Len(own) /\ low + Len(own) <= Len(word)
      <4> DEFINE high == cut[k]
                 size == Len(own)
                 all == Len(word)
      <4>1. size \in Nat /\ high \in Nat /\ low \in Nat /\ all \in Nat
            /\ size = high - low /\ high <= all
        BY <1>1, <3>2, <3>3
      <4> HIDE DEF high, low, size, all
      <4>2. high = low + size /\ low + size <= all
        BY <4>1
      <4> QED
        BY <4>2 DEF high, size, all
    <3> QED
      BY <3>1, <3>2, <3>3, <3>4
  <2>2. k - 1 \in 0..m /\ k \in 0..m /\ i \in 0..m /\ i - 1 \in 0..m /\ k \in Int /\ i \in Int
    BY <1>1
  <2>3. CASE k < i
    <3>1. rs2[k] = rs[k] /\ cut2[k] = cut[k] /\ cut2[k - 1] = low
      BY <1>2, <1>7, <2>2, <2>3
    <3>2. cut[k] <= p
      <4>1. cut[k] <= cut[i - 1] /\ cut[i - 1] \in Nat /\ cut[k] \in Nat
        BY <1>2, <1>4, <2>2, <2>3
      <4> QED
        BY <4>1
    <3> HIDE DEF own, low
    <3>3. Stretch(own, word2, low)
      BY <2>1, <3>2, StretchBefore
    <3> QED
      BY <2>1, <3>1, <3>3 DEF own, low
  <2>4. CASE k = i
    <3>1. cut2[k] = cut[k] + n /\ cut2[k - 1] = low /\ low <= p /\ p <= low + Len(own)
      BY <1>2, <2>1, <2>2, <2>4
    <3> DEFINE own2 == rs2[k].insert
               x == p - low
    <3>2. own2 = Document!With(own, x, new)
      BY <1>7, <2>4
    <3> HIDE DEF own, low, own2
    <3>3. x \in 0..Len(own) /\ p = low + x
      BY <2>1, <3>1
    <3> HIDE DEF x
    <3>4. Len(own2) = Len(own) + Len(new) /\ Stretch(own2, word2, low)
      <4>1. /\ own \in Seq(Nat) /\ low \in Nat /\ low + Len(own) <= Len(word)
            /\ Stretch(own, word, low)
        BY <2>1
      <4>2. WordWith(word, p, new, word2)
        OBVIOUS
      <4>3. /\ Len(Document!With(own, x, new)) = Len(own) + Len(new)
            /\ Stretch(Document!With(own, x, new), word2, low)
        BY <3>3, <4>1, <4>2, StretchAround
      <4> QED
        BY <3>2, <4>3
    <3>5. cut2[k] = low + Len(own2)
      BY <1>1, <2>1, <3>1, <3>4 DEF n
    <3> QED
      BY <3>1, <3>4, <3>5 DEF own2
  <2>5. CASE k > i
    <3>1. rs2[k] = rs[k] /\ cut2[k] = cut[k] + n /\ cut2[k - 1] = low + n
      BY <1>2, <1>7, <2>2, <2>5
    <3>2. p <= low
      <4>1. cut[i] <= cut[k - 1] /\ cut[i] \in Nat
        BY <1>2, <1>4, <2>2, <2>5
      <4> QED
        BY <2>1, <4>1
    <3> HIDE DEF own, low
    <3>3. Stretch(own, word2, low + n)
      BY <1>1, <2>1, <3>2, StretchBehind DEF n
    <3>4. cut2[k] = (low + n) + Len(own)
      BY <1>1, <2>1, <3>1
    <3> QED
      BY <3>1, <3>3, <3>4 DEF own
  <2> QED
    BY <2>2, <2>3, <2>4, <2>5
<1> QED
  BY <1>3, <1>7, <1>8, <1>9, <1>10, SpeltHolds DEF cut2, n, m

(* a run becomes two                                                        *)
RunSplit(rs, i, x, rs2) ==
    /\ rs2 \in Seq(TextRun) /\ Len(rs2) = Len(rs) + 1
    /\ \A k \in 1..Len(rs) : k < i => rs2[k] = rs[k]
    /\ rs2[i].insert = Document!Upto(rs[i].insert, x)
    /\ rs2[i + 1].insert = Document!From(rs[i].insert, x)
    /\ \A k \in 1..Len(rs) : k > i => rs2[k + 1] = rs[k]

CutSplit(cut, m, i, p) ==
    [k \in 0..(m + 1) |-> IF k < i THEN cut[k] ELSE IF k = i THEN p ELSE cut[k - 1]]

LEMMA StretchSplit ==
    ASSUME NEW word \in Seq(Nat), NEW own \in Seq(Nat), NEW low \in Nat, NEW x \in 0..Len(own),
           Stretch(own, word, low)
    PROVE  /\ Len(Document!Upto(own, x)) = x
           /\ Stretch(Document!Upto(own, x), word, low)
           /\ Len(Document!From(own, x)) = Len(own) - x
           /\ Stretch(Document!From(own, x), word, low + x)
<1>1. x \in Nat /\ Len(own) \in Nat /\ x <= Len(own)
  OBVIOUS
<1>2. /\ Len(Document!Upto(own, x)) = x
      /\ \A k \in 1..x : Document!Upto(own, x)[k] = own[k]
  BY UptoIs
<1>3. /\ Len(Document!From(own, x)) = Len(own) - x
      /\ \A k \in 1..(Len(own) - x) : Document!From(own, x)[k] = own[x + k]
  BY FromIs
<1>4. \A j \in 1..Len(own) : own[j] = word[low + j]
  BY DEF Stretch
<1>5. Stretch(Document!Upto(own, x), word, low)
  <2>1. ASSUME NEW j \in 1..x PROVE Document!Upto(own, x)[j] = word[low + j]
    <3>1. j \in 1..Len(own)
      BY <1>1
    <3> QED
      BY <1>2, <1>4, <3>1
  <2> QED
    BY <1>2, <2>1 DEF Stretch
<1>6. ASSUME NEW j \in 1..(Len(own) - x)
      PROVE  Document!From(own, x)[j] = word[(low + x) + j]
  <2>1. x + j \in 1..Len(own) /\ low + (x + j) = (low + x) + j
    BY <1>1
  <2>2. own[x + j] = word[low + (x + j)]
    BY <1>4, <2>1
  <2> QED
    BY <1>3, <2>1, <2>2
<1>7. Stretch(Document!From(own, x), word, low + x)
  BY <1>3, <1>6 DEF Stretch
<1> QED
  BY <1>2, <1>3, <1>5, <1>7

LEMMA SpeltSplit ==
    ASSUME NEW rs \in Seq(TextRun), NEW word \in Seq(Nat), NEW cut, Spelt(cut, rs, word),
           NEW i \in 1..Len(rs), NEW p \in Nat, cut[i - 1] <= p, p <= cut[i],
           NEW rs2, RunSplit(rs, i, p - cut[i - 1], rs2)
    PROVE  Spelt(CutSplit(cut, Len(rs), i, p), rs2, word)
<1> DEFINE m == Len(rs)
           cut2 == CutSplit(cut, m, i, p)
<1>1. m \in Nat /\ i \in Nat /\ 1 <= i /\ i <= m
  OBVIOUS
<1>2. \A k \in 0..m : cut[k] \in Nat /\ cut[k] <= Len(word)
  BY SpeltIs
<1>3. cut[0] = 0 /\ cut[m] = Len(word)
  BY SpeltIs
<1>4. \A j, k \in 0..m : j <= k => cut[j] <= cut[k]
  BY DEF Spelt
<1>5. \A k \in 1..m : /\ rs[k].insert \in Seq(Nat) /\ Len(rs[k].insert) = cut[k] - cut[k - 1]
                      /\ cut[k - 1] \in Nat /\ cut[k - 1] <= cut[k]
                      /\ Stretch(rs[k].insert, word, cut[k - 1])
  BY SpeltIs
<1>6. /\ rs2 \in Seq(TextRun) /\ Len(rs2) = m + 1
      /\ \A k \in 1..m : k < i => rs2[k] = rs[k]
      /\ rs2[i].insert = Document!Upto(rs[i].insert, p - cut[i - 1])
      /\ rs2[i + 1].insert = Document!From(rs[i].insert, p - cut[i - 1])
      /\ \A k \in 1..m : k > i => rs2[k + 1] = rs[k]
  BY DEF RunSplit
<1> HIDE DEF m
<1>7. \A k \in 0..(m + 1) : /\ k < i => cut2[k] = cut[k] /\ k \in 0..m
                            /\ k = i => cut2[k] = p
                            /\ k > i => cut2[k] = cut[k - 1] /\ k - 1 \in 0..m
  <2>1. \A k \in 0..(m + 1) :
            cut2[k] = IF k < i THEN cut[k] ELSE IF k = i THEN p ELSE cut[k - 1]
    BY DEF CutSplit
  <2> HIDE DEF cut2
  <2>2. \A k \in 0..(m + 1) : (k < i => k \in 0..m) /\ (k > i => k - 1 \in 0..m)
    BY <1>1
  <2> QED
    BY <1>1, <2>1, <2>2
<1>8. cut2 \in [0..(m + 1) -> Nat]
  <2>1. \A k \in 0..(m + 1) :
            (IF k < i THEN cut[k] ELSE IF k = i THEN p ELSE cut[k - 1]) \in Nat
    BY <1>1, <1>2
  <2> QED
    BY <2>1 DEF CutSplit
<1> HIDE DEF cut2
<1>9. ASSUME NEW j \in 0..(m + 1), NEW k \in 0..(m + 1), j <= k PROVE cut2[j] <= cut2[k]
  <2>1. i \in 0..m /\ i - 1 \in 0..m /\ cut[i] \in Nat /\ cut[i - 1] \in Nat
        /\ j \in Int /\ k \in Int
    BY <1>1, <1>2
  <2>2. CASE k < i
    BY <1>1, <1>4, <1>7, <1>9, <2>1, <2>2
  <2>3. CASE k = i
    <3>1. CASE j < i
      <4>1. cut2[j] = cut[j] /\ j \in 0..m /\ j <= i - 1
        BY <1>1, <1>7, <2>1, <3>1
      <4>2. cut[j] <= cut[i - 1] /\ cut[j] \in Nat
        BY <1>2, <1>4, <2>1, <4>1
      <4> QED
        BY <1>7, <2>1, <2>3, <4>1, <4>2
    <3>2. CASE j = i
      BY <1>7, <2>3, <3>2
    <3> QED
      BY <1>1, <1>9, <2>1, <2>3, <3>1, <3>2
  <2>4. CASE k > i
    <3>1. cut2[k] = cut[k - 1] /\ k - 1 \in 0..m /\ i <= k - 1 /\ cut[k - 1] \in Nat
      BY <1>1, <1>2, <1>7, <2>1, <2>4
    <3>2. cut[i] <= cut[k - 1]
      BY <1>4, <2>1, <3>1
    <3>3. CASE j < i
      <4>1. cut2[j] = cut[j] /\ j \in 0..m /\ j <= k - 1
        BY <1>1, <1>7, <2>1, <2>4, <3>3
      <4> QED
        BY <1>4, <3>1, <4>1
    <3>4. CASE j = i
      BY <1>7, <2>1, <3>1, <3>2, <3>4
    <3>5. CASE j > i
      <4>1. cut2[j] = cut[j - 1] /\ j - 1 \in 0..m /\ j - 1 <= k - 1
        BY <1>1, <1>7, <1>9, <2>1, <3>5
      <4> QED
        BY <1>4, <3>1, <4>1
    <3> QED
      BY <1>1, <2>1, <3>3, <3>4, <3>5
  <2> QED
    BY <1>1, <2>1, <2>2, <2>3, <2>4
<1>10. cut2[0] = 0 /\ cut2[m + 1] = Len(word)
  <2>1. 0 \in 0..(m + 1) /\ 0 < i /\ m + 1 \in 0..(m + 1) /\ m + 1 > i /\ (m + 1) - 1 = m
    BY <1>1
  <2> QED
    BY <1>3, <1>7, <2>1
<1>11. ASSUME NEW k \in 1..(m + 1)
       PROVE  /\ cut2[k] = cut2[k - 1] + Len(rs2[k].insert)
              /\ Stretch(rs2[k].insert, word, cut2[k - 1])
  <2>1. /\ k \in 0..(m + 1) /\ k - 1 \in 0..(m + 1) /\ k \in Int
        /\ i \in 1..m /\ i \in 0..(m + 1) /\ i \in 0..m
    BY <1>1
  <2> DEFINE own == rs[i].insert
             low == cut[i - 1]
             x == p - low
  <2>2. /\ own \in Seq(Nat) /\ Len(own) = cut[i] - low /\ low \in Nat /\ cut[i] \in Nat
        /\ low <= cut[i] /\ Stretch(own, word, low)
    BY <1>2, <1>5, <2>1
  <2>3. x \in 0..Len(own) /\ low + x = p
    BY <2>2
  <2>4. /\ rs2[i].insert = Document!Upto(own, x)
        /\ rs2[i + 1].insert = Document!From(own, x)
    BY <1>6
  <2> HIDE DEF own, low, x
  <2>5. /\ Len(Document!Upto(own, x)) = x
        /\ Stretch(Document!Upto(own, x), word, low)
        /\ Len(Document!From(own, x)) = Len(own) - x
        /\ Stretch(Document!From(own, x), word, low + x)
    BY <2>2, <2>3, StretchSplit
  <2>6. CASE k < i
    <3>1. /\ rs2[k] = rs[k] /\ cut2[k] = cut[k] /\ cut2[k - 1] = cut[k - 1]
          /\ k \in 1..m /\ k - 1 \in 0..m
      BY <1>1, <1>6, <1>7, <2>1, <2>6
    <3> QED
      BY <1>2, <1>5, <2>1, <3>1
  <2>7. CASE k = i
    <3>1. cut2[k] = p /\ cut2[k - 1] = low
      BY <1>1, <1>7, <2>1, <2>7 DEF low
    <3> QED
      BY <2>2, <2>3, <2>4, <2>5, <2>7, <3>1
  <2>8. CASE k = i + 1
    <3>1. cut2[k] = cut[i] /\ cut2[k - 1] = p
      BY <1>1, <1>7, <2>1, <2>8
    <3>2. /\ Len(rs2[k].insert) = Len(own) - x
          /\ Stretch(rs2[k].insert, word, low + x)
      BY <2>4, <2>5, <2>8
    <3>3. x \in Int /\ Len(own) \in Int
      <4>1. Len(own) \in Nat
        BY <2>2
      <4> QED
        BY <2>3, <4>1
    <3>4. p + (Len(own) - x) = cut[i]
      <4>1. cut[i] \in Int /\ low \in Int /\ Len(own) = cut[i] - low /\ p = low + x
        BY <2>2, <2>3
      <4> QED
        BY <3>3, <4>1
    <3> QED
      BY <2>3, <3>1, <3>2, <3>4
  <2>9. CASE k > i + 1
    <3> DEFINE l == k - 1
    <3>1. l \in 1..m /\ l > i /\ l + 1 = k /\ l \in 0..m
      BY <1>1, <2>1, <2>9
    <3>2. cut2[k] = cut[l] /\ cut2[k - 1] = cut[l - 1] /\ l - 1 \in 0..m
      BY <1>1, <1>7, <2>1, <2>9
    <3> HIDE DEF l
    <3>3. rs2[k] = rs[l]
      BY <1>6, <3>1
    <3> QED
      BY <1>2, <1>5, <3>1, <3>2, <3>3
  <2> QED
    BY <1>1, <2>1, <2>6, <2>7, <2>8, <2>9
<1> QED
  BY <1>6, <1>8, <1>9, <1>10, <1>11, SpeltHolds DEF cut2, m

-----------------------------------------------------------------------------
(* The walk keeps its types and its place                                   *)
Changes == {"insert", "delete", "format"}
ItemKinds == Changes \cup {"retain", "skip", "add", "drop"}
Items == [kind : ItemKinds, n : Nat, new : Seq(Nat)]
Letter == [c : 1..MaxText, bold : BOOLEAN]
Known(s) == \A k \in 1..Len(s) : s[k] \in 1..childrenMade

DocTypes ==
    /\ text \in Seq(Letter) /\ textMade \in 0..MaxText
    /\ children \in Seq(Nat) /\ childrenMade \in Nat
    /\ delta \in Seq(Items) /\ runs \in Seq(TextRun)
    /\ nodes \in Seq(Nat) /\ Known(nodes)
    /\ position \in 1..(Len(runs) + 1)
    /\ retain \in Int /\ offset \in Nat /\ counted \in Nat
    /\ failed \in BOOLEAN /\ rough \in BOOLEAN

(* A delta of the text has one change; the walk stands behind the runs, or  *)
(* in or before the run the change is made in.                              *)
TextStage ==
    delta # <<>> =>
        /\ delta[1].kind \in Changes => Len(delta) = 1
        /\ delta[1].kind = "retain" =>
               /\ Len(delta) = 2 /\ delta[2].kind \in Changes /\ delta[1].n > 0
               /\ counted = 0 => position = 1 /\ offset = 0 /\ retain = 0
               /\ counted # 0 => offset < retain
        /\ delta[1].kind \in Changes =>
               \/ position = Len(runs) + 1 \/ retain <= offset
               \/ retain - offset <= Len(runs[position].insert)
               \/ delta[1].kind # "insert" /\ delta[1].n <= counted
        /\ delta[1].kind = "insert" => position = Len(runs) + 1 \/ offset <= retain

LEMMA TailIs ==
    ASSUME NEW S, NEW s \in Seq(S), s # <<>>
    PROVE  /\ Tail(s) \in Seq(S) /\ Len(Tail(s)) = Len(s) - 1 /\ Len(s) >= 1
           /\ \A k \in 1..(Len(s) - 1) : Tail(s)[k] = s[k + 1]
           /\ Head(s) = s[1] /\ s[1] \in S
           /\ Len(s) = 1 => Tail(s) = <<>>
<1>1. /\ Tail(s) \in Seq(S) /\ Len(Tail(s)) = Len(s) - 1
      /\ \A k \in 1..Len(Tail(s)) : Tail(s)[k] = s[k + 1]
  BY HeadTailProperties
<1>2. Len(s) \in Nat /\ Len(s) >= 1
  BY EmptySeq
<1>3. s[1] \in S
  BY <1>2
<1>4. Head(s) = s[1]
  OBVIOUS
<1>5. ASSUME Len(s) = 1 PROVE Tail(s) = <<>>
  <2>1. Len(Tail(s)) = 0
    BY <1>1, <1>5
  <2> QED
    BY <1>1, <2>1, EmptySeq
<1> QED
  BY <1>1, <1>2, <1>3, <1>4, <1>5

LEMMA OpIs ==
    ASSUME DocTypes, delta # <<>>
    PROVE  /\ Document!op = delta[1] /\ delta[1] \in Items
           /\ delta[1].n \in Nat /\ delta[1].new \in Seq(Nat)
           /\ Tail(delta) \in Seq(Items) /\ Len(Tail(delta)) = Len(delta) - 1
           /\ Len(delta) = 1 => Tail(delta) = <<>>
           /\ Len(delta) \in Nat /\ Len(delta) >= 1
           /\ \A k \in 1..(Len(delta) - 1) : Tail(delta)[k] = delta[k + 1]
<1>1. delta \in Seq(Items)
  BY DEF DocTypes
<1>2. /\ Tail(delta) \in Seq(Items) /\ Len(Tail(delta)) = Len(delta) - 1
      /\ Len(delta) = 1 => Tail(delta) = <<>>
      /\ Head(delta) = delta[1] /\ delta[1] \in Items /\ Len(delta) >= 1
      /\ \A k \in 1..(Len(delta) - 1) : Tail(delta)[k] = delta[k + 1]
  BY <1>1, TailIs
<1>3. delta[1].n \in Nat /\ delta[1].new \in Seq(Nat)
  BY <1>2 DEF Items
<1> QED
  BY <1>1, <1>2, <1>3 DEF Document!op

LEMMA HereIs ==
    ASSUME DocTypes, position <= Len(runs)
    PROVE  /\ position \in 1..Len(runs) /\ runs[position] \in TextRun
           /\ Document!here = runs[position].insert
           /\ Document!here \in Seq(Nat) /\ Len(Document!here) \in Nat
           /\ runs[position].bold \in BOOLEAN
<1>1. runs \in Seq(TextRun) /\ position \in 1..(Len(runs) + 1) /\ Len(runs) \in Nat
  BY DEF DocTypes
<1>2. position \in 1..Len(runs)
  BY <1>1
<1>3. runs[position] \in TextRun
  BY <1>1, <1>2
<1>4. runs[position].insert \in Seq(Nat) /\ runs[position].bold \in BOOLEAN
  BY <1>3 DEF TextRun
<1>5. Len(runs[position].insert) \in Nat
  BY <1>4
<1> QED
  BY <1>2, <1>3, <1>4, <1>5 DEF Document!here

LEMMA SplitIs ==
    ASSUME DocTypes, position <= Len(runs), offset <= retain,
           retain - offset <= Len(runs[position].insert)
    PROVE  /\ retain - offset \in 0..Len(Document!here)
           /\ Document!start = Document!Upto(Document!here, retain - offset)
           /\ Document!end = Document!From(Document!here, retain - offset)
           /\ Document!start \in Seq(Nat) /\ Len(Document!start) = retain - offset
           /\ Document!end \in Seq(Nat)
           /\ Len(Document!end) = Len(Document!here) - (retain - offset)
           /\ Len(Document!end) \in Nat
<1>1. /\ Document!here \in Seq(Nat) /\ Len(Document!here) \in Nat
      /\ Document!here = runs[position].insert
  BY HereIs
<1>2. retain - offset \in 0..Len(Document!here)
  BY <1>1 DEF DocTypes
<1>3. /\ Document!start = Document!Upto(Document!here, retain - offset)
      /\ Document!end = Document!From(Document!here, retain - offset)
  BY DEF Document!start, Document!end
<1> HIDE DEF Document!here
<1>4. /\ Document!start \in Seq(Nat) /\ Len(Document!start) = retain - offset
      /\ Document!end \in Seq(Nat)
      /\ Len(Document!end) = Len(Document!here) - (retain - offset)
  BY <1>1, <1>2, <1>3, UptoIs, FromIs
<1>5. Len(Document!end) \in Nat
  BY <1>4
<1> QED
  BY <1>2, <1>3, <1>4, <1>5

LEMMA SetHereIs ==
    ASSUME DocTypes, position <= Len(runs), NEW s \in Seq(Nat)
    PROVE  LET rs == Document!SetHere(s) IN
           /\ rs \in Seq(TextRun) /\ Len(rs) = Len(runs)
           /\ \A k \in 1..Len(runs) : k # position => rs[k] = runs[k]
           /\ rs[position] = Document!Run(s, runs[position].bold)
           /\ rs[position].insert = s /\ rs[position].bold = runs[position].bold
<1>1. /\ position \in 1..Len(runs) /\ runs[position] \in TextRun
      /\ runs[position].bold \in BOOLEAN
  BY HereIs
<1>2. runs \in Seq(TextRun)
  BY DEF DocTypes
<1>3. [runs[position] EXCEPT !.insert = s] = Document!Run(s, runs[position].bold)
  BY <1>1 DEF TextRun, Document!Run
<1>4. Document!Run(s, runs[position].bold) \in TextRun
  BY <1>1 DEF TextRun, Document!Run
<1>5. Document!SetHere(s) = [runs EXCEPT ![position] = Document!Run(s, runs[position].bold)]
  BY <1>1, <1>2, <1>3 DEF Document!SetHere
<1>6. /\ Document!Run(s, runs[position].bold).insert = s
      /\ Document!Run(s, runs[position].bold).bold = runs[position].bold
  BY DEF Document!Run
<1> HIDE DEF Document!Run
<1> QED
  BY <1>1, <1>2, <1>4, <1>5, <1>6

LEMMA RunsWith ==
    ASSUME NEW s \in Seq(TextRun), NEW at \in 0..Len(s), NEW new \in Seq(TextRun)
    PROVE  LET t == Document!With(s, at, new) IN
           /\ t \in Seq(TextRun) /\ Len(t) = Len(s) + Len(new)
           /\ \A k \in 1..at : t[k] = s[k]
           /\ \A k \in 1..Len(new) : t[at + k] = new[k]
           /\ \A k \in (at + 1)..Len(s) : t[k + Len(new)] = s[k]
<1>1. AreWith(TextRun, s, at, new, Document!With(s, at, new))
  BY WithAre, Zenon
<1> QED
  BY <1>1 DEF AreWith

LEMMA RunsWithout ==
    ASSUME NEW s \in Seq(TextRun), NEW at \in Nat, NEW n \in Nat, at + n <= Len(s)
    PROVE  /\ Document!Without(s, at, n) \in Seq(TextRun)
           /\ Len(Document!Without(s, at, n)) = Len(s) - n
  BY WithoutIs

(* A step of the walk over the text keeps the types                         *)
LEMMA TypedStep ==
    ASSUME DocTypes, UNCHANGED <<Document!runtime, nodes>>,
           delta' \in Seq(Items), runs' \in Seq(TextRun), position' \in 1..(Len(runs') + 1),
           retain' \in Int, offset' \in Nat, counted' \in Nat, failed' \in BOOLEAN
    PROVE  DocTypes'
  BY DEF DocTypes, Document!runtime, Known

LEMMA WalkTyped ==
    ASSUME DocTypes, TextStage, Document!Retain \/ Document!Advance
    PROVE  DocTypes' /\ TextStage'
<1>1. CASE Document!Retain
  <2>1. /\ delta # <<>> /\ Document!op.kind = "retain" /\ counted = 0
        /\ retain' = retain + Document!op.n /\ counted' = 1
        /\ UNCHANGED <<Document!runtime, nodes>>
        /\ UNCHANGED <<delta, runs, position, offset, failed>>
    BY <1>1 DEF Document!Retain, Document!Applying
  <2>2. Document!op = delta[1] /\ delta[1].n \in Nat
    BY <2>1, OpIs
  <2>3. /\ Len(delta) = 2 /\ delta[2].kind \in Changes /\ delta[1].n > 0
        /\ offset = 0 /\ retain = 0
    BY <2>1, <2>2 DEF TextStage
  <2>4. DocTypes'
    <3>1. retain' \in Int /\ counted' \in Nat
      BY <2>1, <2>2, <2>3
    <3> QED
      BY <2>1, <3>1, TypedStep DEF DocTypes
  <2>5. TextStage'
    <3>1. delta[1].kind \notin Changes
      BY <2>1, <2>2 DEF Changes
    <3>2. offset' < retain'
      BY <2>1, <2>2, <2>3
    <3> QED
      BY <2>1, <2>2, <2>3, <3>1, <3>2 DEF TextStage
  <2> QED
    BY <2>4, <2>5
<1>2. CASE Document!Advance
  <2>1. /\ delta # <<>> /\ Document!op.kind = "retain" /\ counted = 1 /\ position <= Len(runs)
        /\ UNCHANGED <<Document!runtime, nodes>> /\ UNCHANGED <<runs, retain, failed>>
    BY <1>2 DEF Document!Advance, Document!Applying, Document!Beyond, DocTypes
  <2>2. /\ Document!op = delta[1] /\ delta[1].n \in Nat /\ Tail(delta) \in Seq(Items)
        /\ Len(Tail(delta)) = Len(delta) - 1
        /\ \A k \in 1..(Len(delta) - 1) : Tail(delta)[k] = delta[k + 1]
    BY <2>1, OpIs
  <2>3. /\ Document!here = runs[position].insert /\ Len(Document!here) \in Nat
        /\ position \in 1..Len(runs)
    BY <2>1, HereIs
  <2>4. /\ Len(delta) = 2 /\ delta[2].kind \in Changes /\ offset < retain
        /\ delta[1].n > 0 /\ delta[1].kind \notin Changes /\ delta[1].kind # "insert"
    <3>1. delta[1].kind = "retain"
      BY <2>1, <2>2
    <3> QED
      BY <2>1, <3>1 DEF TextStage, Changes
  <2>5. offset \in Nat /\ retain \in Int /\ delta \in Seq(Items) /\ failed \in BOOLEAN
        /\ runs \in Seq(TextRun)
    BY DEF DocTypes
  <2>6. CASE retain > offset + Len(Document!here)
    <3>1. /\ offset' = offset + Len(Document!here) /\ position' = position + 1
          /\ UNCHANGED <<delta, counted>>
      BY <1>2, <2>6 DEF Document!Advance
    <3>2. DocTypes'
      <4>1. offset' \in Nat /\ position' \in 1..(Len(runs') + 1)
        BY <2>1, <2>3, <2>5, <3>1
      <4>2. counted' \in Nat /\ delta' \in Seq(Items)
        BY <3>1 DEF DocTypes
      <4> QED
        BY <2>1, <2>5, <4>1, <4>2, TypedStep
    <3>3. offset' < retain' /\ counted' # 0
      BY <2>1, <2>5, <2>6, <3>1
    <3>4. TextStage'
      BY <2>4, <3>1, <3>3 DEF TextStage
    <3> QED
      BY <3>2, <3>4
  <2>7. CASE ~(retain > offset + Len(Document!here))
    <3>1. delta' = Tail(delta) /\ counted' = 0 /\ UNCHANGED <<position, offset>>
      BY <1>2, <2>7 DEF Document!Advance, Document!NextItem
    <3>2. DocTypes'
      <4>1. position' \in 1..(Len(runs') + 1)
        BY <2>1, <3>1 DEF DocTypes
      <4> QED
        BY <2>1, <2>2, <2>5, <3>1, <4>1, TypedStep
    <3>3. delta'[1] = delta[2] /\ Len(delta') = 1
      BY <2>2, <2>4, <3>1
    <3>4. retain' - offset' <= Len(runs'[position'].insert) /\ offset' <= retain'
      BY <2>1, <2>3, <2>4, <2>5, <2>7, <3>1
    <3>5. delta'[1].kind # "retain"
      BY <2>4, <3>3 DEF Changes
    <3>6. TextStage'
      BY <3>3, <3>4, <3>5 DEF TextStage
    <3> QED
      BY <3>2, <3>6
  <2> QED
    BY <2>6, <2>7
<1> QED
  BY <1>1, <1>2

LEMMA ChangeStands ==
    ASSUME DocTypes, TextStage, delta # <<>>, Document!op.kind \in Changes
    PROVE  /\ Document!op = delta[1] /\ Len(delta) = 1 /\ Tail(delta) = <<>>
           /\ Document!op.n \in Nat /\ Document!op.new \in Seq(Nat)
           /\ Document!remaining = Document!op.n - counted /\ Document!remaining \in Int
           /\ \/ position = Len(runs) + 1 \/ retain <= offset
              \/ retain - offset <= Len(runs[position].insert)
              \/ Document!op.kind # "insert" /\ Document!op.n <= counted
           /\ Document!op.kind = "insert" => position = Len(runs) + 1 \/ offset <= retain
<1>1. /\ Document!op = delta[1] /\ Document!op.n \in Nat /\ Document!op.new \in Seq(Nat)
      /\ Len(delta) = 1 => Tail(delta) = <<>>
  BY OpIs
<1>2. /\ Len(delta) = 1
      /\ \/ position = Len(runs) + 1 \/ retain <= offset
         \/ retain - offset <= Len(runs[position].insert)
         \/ delta[1].kind # "insert" /\ delta[1].n <= counted
      /\ delta[1].kind = "insert" => position = Len(runs) + 1 \/ offset <= retain
  BY <1>1 DEF TextStage
<1>3. Document!remaining = Document!op.n - counted
  BY DEF Document!remaining
<1>4. counted \in Nat
  BY DEF DocTypes
<1>5. Document!remaining \in Int
  BY <1>1, <1>3, <1>4
<1> QED
  BY <1>1, <1>2, <1>3, <1>5

LEMMA NoItems == <<>> \in Seq(Items)
  BY EmptySeq

LEMMA InsertTyped ==
    ASSUME DocTypes, TextStage, Document!Insert
    PROVE  DocTypes' /\ TextStage'
<1>1. /\ delta # <<>> /\ Document!op.kind = "insert" /\ delta' = Tail(delta) /\ counted' = 0
      /\ retain' = retain + Document!op.n /\ UNCHANGED <<Document!runtime, nodes>>
      /\ UNCHANGED failed
  BY DEF Document!Insert, Document!Applying, Document!NextItem
<1>2. /\ Document!op = delta[1] /\ Tail(delta) = <<>> /\ Document!op.n \in Nat
      /\ Document!op.new \in Seq(Nat)
      /\ \/ position = Len(runs) + 1 \/ retain <= offset
         \/ retain - offset <= Len(runs[position].insert)
      /\ position = Len(runs) + 1 \/ offset <= retain
  BY <1>1, ChangeStands DEF Changes
<1>3. offset \in Nat /\ retain \in Int /\ runs \in Seq(TextRun) /\ failed \in BOOLEAN
      /\ position \in 1..(Len(runs) + 1) /\ Len(runs) \in Nat
  BY DEF DocTypes
<1>4. TextStage'
  BY <1>1, <1>2 DEF TextStage
<1>5. retain' \in Int /\ counted' \in Nat /\ delta' \in Seq(Items)
  <2>1. delta' \in Seq(Items)
    BY <1>1, <1>2, NoItems
  <2>2. retain' \in Int /\ counted' \in Nat
    BY <1>1, <1>2, <1>3
  <2> QED
    BY <2>1, <2>2
<1>6. CASE position > Len(runs)
  <2>1. /\ runs' = Append(runs, Document!Run(Document!op.new, FALSE))
        /\ position' = position + 1 /\ offset' = offset + Document!op.n
    BY <1>6 DEF Document!Insert, Document!Beyond
  <2>2. Document!Run(Document!op.new, FALSE) \in TextRun
    BY <1>2 DEF Document!Run, TextRun
  <2>3. runs' \in Seq(TextRun) /\ Len(runs') = Len(runs) + 1
    BY <1>3, <2>1, <2>2, AppendProperties
  <2>4. position' \in 1..(Len(runs') + 1) /\ offset' \in Nat
    BY <1>2, <1>3, <2>1, <2>3
  <2>5. DocTypes'
    BY <1>1, <1>3, <1>5, <2>3, <2>4, TypedStep
  <2> QED
    BY <1>4, <2>5
<1>7. CASE ~(position > Len(runs))
  <2>1. /\ runs' = Document!SetHere(Document!start \o Document!op.new \o Document!end)
        /\ UNCHANGED <<position, offset>>
    BY <1>7 DEF Document!Insert, Document!Beyond
  <2>2. position <= Len(runs) /\ offset <= retain
    BY <1>2, <1>3, <1>7
  <2>3. retain - offset <= Len(runs[position].insert)
    <3>1. Document!here = runs[position].insert /\ Len(Document!here) \in Nat
      BY <2>2, HereIs
    <3>2. position # Len(runs) + 1
      BY <1>3, <2>2
    <3> QED
      BY <1>2, <1>3, <2>2, <3>1, <3>2
  <2>4. Document!start \in Seq(Nat) /\ Document!end \in Seq(Nat)
    BY <2>2, <2>3, SplitIs
  <2>5. Document!start \o Document!op.new \o Document!end \in Seq(Nat)
    BY <1>2, <2>4
  <2>6. runs' \in Seq(TextRun) /\ Len(runs') = Len(runs)
    BY <2>1, <2>2, <2>5, SetHereIs
  <2>7. position' \in 1..(Len(runs') + 1) /\ offset' \in Nat
    BY <1>3, <2>1, <2>6
  <2>8. DocTypes'
    BY <1>1, <1>3, <1>5, <2>6, <2>7, TypedStep
  <2> QED
    BY <1>4, <2>8
<1> QED
  BY <1>6, <1>7

LEMMA EndTyped ==
    ASSUME DocTypes, TextStage, Document!Done
    PROVE  DocTypes' /\ TextStage' /\ delta' = <<>>
<1>1. /\ delta # <<>> /\ Document!op.kind \in {"delete", "format"}
      /\ delta' = Tail(delta) /\ counted' = 0
      /\ retain' = IF Document!op.kind = "format" THEN retain + Document!op.n ELSE retain
      /\ UNCHANGED <<Document!runtime, nodes>> /\ UNCHANGED <<runs, position, offset, failed>>
  BY DEF Document!Done, Document!NextItem
<1>2. Tail(delta) = <<>> /\ Document!op.n \in Nat
  BY <1>1, ChangeStands DEF Changes
<1>3. offset \in Nat /\ retain \in Int /\ runs \in Seq(TextRun) /\ failed \in BOOLEAN
      /\ position \in 1..(Len(runs) + 1)
  BY DEF DocTypes
<1>4. TextStage'
  BY <1>1, <1>2 DEF TextStage
<1>5. retain' \in Int /\ counted' \in Nat /\ delta' \in Seq(Items)
  <2>1. delta' \in Seq(Items)
    BY <1>1, <1>2, NoItems
  <2>2. retain' \in Int /\ counted' \in Nat
    BY <1>1, <1>2, <1>3
  <2> QED
    BY <2>1, <2>2
<1>6. position' \in 1..(Len(runs') + 1) /\ offset' \in Nat /\ runs' \in Seq(TextRun)
      /\ failed' \in BOOLEAN
  BY <1>1, <1>3
<1> QED
  BY <1>1, <1>2, <1>4, <1>5, <1>6, TypedStep

LEMMA FailTyped ==
    ASSUME DocTypes, Document!Fail, runs' \in Seq(TextRun), Len(runs') + 1 >= position
    PROVE  DocTypes' /\ TextStage' /\ delta' = <<>>
<1>1. /\ failed' = TRUE /\ delta' = <<>> /\ counted' = 0
      /\ UNCHANGED <<Document!runtime, nodes>> /\ UNCHANGED <<position, retain, offset>>
  BY DEF Document!Fail
<1>2. offset \in Nat /\ retain \in Int /\ position \in Nat /\ position >= 1
  BY DEF DocTypes
<1>3. position' \in 1..(Len(runs') + 1)
  BY <1>1, <1>2
<1>4. delta' \in Seq(Items) /\ counted' \in Nat /\ retain' \in Int /\ offset' \in Nat
      /\ failed' \in BOOLEAN
  BY <1>1, <1>2
<1>5. DocTypes'
  BY <1>1, <1>3, <1>4, TypedStep
<1>6. TextStage'
  BY <1>1 DEF TextStage
<1> QED
  BY <1>1, <1>5, <1>6

(* A delete or a format that has come to its run                            *)
LEMMA AtChange ==
    ASSUME DocTypes, TextStage, Document!Deleting \/ Document!Formatting
    PROVE  /\ delta # <<>> /\ Len(delta) = 1 /\ Document!op = delta[1]
           /\ Document!op.kind \in {"delete", "format"}
           /\ position \in 1..Len(runs) /\ runs[position] \in TextRun
           /\ Document!here = runs[position].insert
           /\ Document!here \in Seq(Nat) /\ Len(Document!here) \in Nat
           /\ Document!op.n \in Nat /\ Document!remaining = Document!op.n - counted
           /\ Document!remaining \in Int /\ Document!remaining > 0
           /\ retain <= offset \/ retain - offset <= Len(Document!here)
<1>1. /\ delta # <<>> /\ Document!op.kind \in {"delete", "format"}
      /\ Document!remaining > 0 /\ ~(position > Len(runs))
  BY DEF Document!Deleting, Document!Formatting, Document!Applying, Document!Beyond
<1>2. /\ Document!op = delta[1] /\ Len(delta) = 1
      /\ Document!op.n \in Nat
      /\ Document!remaining = Document!op.n - counted /\ Document!remaining \in Int
      /\ \/ position = Len(runs) + 1 \/ retain <= offset
         \/ retain - offset <= Len(runs[position].insert)
         \/ Document!op.kind # "insert" /\ Document!op.n <= counted
  BY <1>1, ChangeStands DEF Changes
<1>3. position \in 1..(Len(runs) + 1) /\ Len(runs) \in Nat /\ counted \in Nat
  BY DEF DocTypes
<1>4. position <= Len(runs) /\ position # Len(runs) + 1 /\ ~(Document!op.n <= counted)
  BY <1>1, <1>2, <1>3
<1>5. /\ position \in 1..Len(runs) /\ runs[position] \in TextRun
      /\ Document!here = runs[position].insert
      /\ Document!here \in Seq(Nat) /\ Len(Document!here) \in Nat
  BY <1>4, HereIs
<1> QED
  BY <1>1, <1>2, <1>4, <1>5

LEMMA ChangeStage ==
    ASSUME delta # <<>>, Len(delta) = 1, delta[1].kind \in {"delete", "format"}, UNCHANGED delta,
           \/ position' = Len(runs') + 1 \/ retain' <= offset'
           \/ retain' - offset' <= Len(runs'[position'].insert)
           \/ delta[1].n <= counted'
    PROVE  TextStage'
<1>1. delta[1].kind \notin {"retain", "insert"}
  OBVIOUS
<1> QED
  BY <1>1 DEF TextStage

LEMMA ChangeTyped ==
    ASSUME DocTypes, UNCHANGED <<Document!runtime, delta, nodes, retain, failed>>,
           runs' \in Seq(TextRun), position' \in 1..(Len(runs') + 1), offset' \in Nat,
           counted' \in Nat
    PROVE  DocTypes'
<1>1. delta \in Seq(Items) /\ retain \in Int /\ failed \in BOOLEAN
  BY DEF DocTypes
<1> QED
  BY <1>1, TypedStep

LEMMA DeletesTyped ==
    ASSUME DocTypes, TextStage,
           Document!DeleteEnd \/ Document!DeleteMiddle \/ Document!DeleteFront
    PROVE  DocTypes' /\ TextStage'
<1>1. Document!Deleting /\ UNCHANGED <<Document!runtime, delta, nodes, retain, failed>>
  BY DEF Document!DeleteEnd, Document!DeleteMiddle, Document!DeleteFront
<1>2. /\ delta # <<>> /\ Len(delta) = 1 /\ Document!op = delta[1]
      /\ Document!op.kind \in {"delete", "format"} /\ position \in 1..Len(runs)
      /\ Document!here = runs[position].insert
      /\ Document!here \in Seq(Nat) /\ Len(Document!here) \in Nat
      /\ Document!op.n \in Nat
      /\ Document!remaining \in Int /\ Document!remaining > 0
      /\ retain <= offset \/ retain - offset <= Len(Document!here)
  BY <1>1, AtChange
<1>3. /\ offset \in Nat /\ retain \in Int /\ counted \in Nat /\ Len(runs) \in Nat
      /\ position <= Len(runs)
  BY <1>2 DEF DocTypes
<1>4. ASSUME NEW s \in Seq(Nat), runs' = Document!SetHere(s)
      PROVE  /\ runs' \in Seq(TextRun) /\ Len(runs') = Len(runs)
             /\ runs'[position].insert = s
  BY <1>3, <1>4, SetHereIs
<1>5. CASE Document!DeleteEnd
  <2>1. /\ retain > offset /\ runs' = Document!SetHere(Document!start)
        /\ counted' = counted + Len(Document!end) /\ position' = position + 1
        /\ offset' = offset + Len(Document!here)
    BY <1>5 DEF Document!DeleteEnd
  <2>2. Document!start \in Seq(Nat) /\ Len(Document!end) \in Nat
    BY <1>2, <1>3, <2>1, SplitIs
  <2>3. runs' \in Seq(TextRun) /\ Len(runs') = Len(runs)
    BY <1>4, <2>1, <2>2
  <2>4. /\ position' \in 1..(Len(runs') + 1) /\ offset' \in Nat /\ counted' \in Nat
        /\ retain' <= offset'
    <3>1. retain - offset <= Len(Document!here) /\ retain' = retain
      BY <1>1, <1>2, <1>3, <2>1
    <3>2. position' \in 1..(Len(runs') + 1) /\ offset' \in Nat /\ counted' \in Nat
      <4>1. position' \in 1..(Len(runs') + 1)
        BY <1>2, <1>3, <2>1, <2>3
      <4>2. offset' \in Nat
        BY <1>2, <1>3, <2>1
      <4>3. counted' \in Nat
        BY <1>3, <2>1, <2>2
      <4> QED
        BY <4>1, <4>2, <4>3
    <3>3. retain' <= offset'
      BY <1>2, <1>3, <2>1, <3>1
    <3> QED
      BY <3>2, <3>3
  <2> QED
    BY <1>1, <1>2, <2>3, <2>4, ChangeTyped, ChangeStage
<1>6. CASE Document!DeleteMiddle
  <2> DEFINE left == Document!start \o Document!From(Document!end, Document!remaining)
  <2>1. /\ retain > offset /\ Document!remaining < Len(Document!end)
        /\ runs' = Document!SetHere(left) /\ counted' = counted + Len(left)
        /\ UNCHANGED <<position, offset>>
    BY <1>6 DEF Document!DeleteMiddle
  <2>2. /\ Document!start \in Seq(Nat) /\ Len(Document!start) = retain - offset
        /\ Document!end \in Seq(Nat) /\ Len(Document!end) \in Nat
    BY <1>2, <1>3, <2>1, SplitIs
  <2>3. Document!remaining \in 0..Len(Document!end)
    BY <1>2, <2>1, <2>2
  <2> DEFINE rest == Document!From(Document!end, Document!remaining)
  <2>4. rest \in Seq(Nat) /\ Len(rest) \in Nat
    BY <2>2, <2>3, FromIs
  <2> HIDE DEF rest
  <2>5. left \in Seq(Nat) /\ Len(left) = (retain - offset) + Len(rest)
    BY <2>2, <2>4, JoinIs DEF rest
  <2> HIDE DEF left
  <2>6. /\ runs' \in Seq(TextRun) /\ Len(runs') = Len(runs)
        /\ runs'[position].insert = left
    BY <1>4, <2>1, <2>5
  <2>7. /\ position' \in 1..(Len(runs') + 1) /\ offset' \in Nat /\ counted' \in Nat
        /\ retain' - offset' <= Len(runs'[position'].insert)
    BY <1>1, <1>2, <1>3, <2>1, <2>4, <2>5, <2>6
  <2> QED
    BY <1>1, <1>2, <2>6, <2>7, ChangeTyped, ChangeStage
<1>7. CASE Document!DeleteFront
  <2>1. /\ retain <= offset /\ Document!remaining < Len(Document!here)
        /\ runs' = Document!SetHere(Document!From(Document!here, Document!remaining))
        /\ counted' = counted + Document!remaining /\ UNCHANGED <<position, offset>>
    BY <1>7 DEF Document!DeleteFront
  <2>2. Document!remaining \in 0..Len(Document!here)
    BY <1>2, <2>1
  <2>3. Document!From(Document!here, Document!remaining) \in Seq(Nat)
    BY <1>2, <2>2, FromIs
  <2>4. runs' \in Seq(TextRun) /\ Len(runs') = Len(runs)
    BY <1>4, <2>1, <2>3
  <2>5. /\ position' \in 1..(Len(runs') + 1) /\ offset' \in Nat /\ counted' \in Nat
        /\ retain' <= offset'
    BY <1>1, <1>2, <1>3, <2>1, <2>4
  <2> QED
    BY <1>1, <1>2, <2>4, <2>5, ChangeTyped, ChangeStage
<1> QED
  BY <1>5, <1>6, <1>7

LEMMA FailuresTyped ==
    ASSUME DocTypes, TextStage, Document!OutOfRuns \/ Document!DeleteRun
    PROVE  DocTypes' /\ TextStage' /\ delta' = <<>>
<1>1. CASE Document!OutOfRuns
  <2>1. Document!Fail /\ UNCHANGED runs
    BY <1>1 DEF Document!OutOfRuns
  <2>2. runs \in Seq(TextRun) /\ Len(runs) + 1 >= position
    BY DEF DocTypes
  <2> QED
    BY <2>1, <2>2, FailTyped
<1>2. CASE Document!DeleteRun
  <2>1. Document!Deleting /\ runs' = Document!Without(runs, position - 1, 1) /\ Document!Fail
    BY <1>2 DEF Document!DeleteRun
  <2>2. position \in 1..Len(runs)
    BY <2>1, AtChange
  <2>3. runs \in Seq(TextRun) /\ Len(runs) \in Nat
    BY DEF DocTypes
  <2>4. position - 1 \in Nat /\ (position - 1) + 1 <= Len(runs)
    BY <2>2, <2>3
  <2>5. runs' \in Seq(TextRun) /\ Len(runs') = Len(runs) - 1
    BY <2>1, <2>3, <2>4, RunsWithout
  <2>6. Len(runs') + 1 >= position
    BY <2>2, <2>3, <2>5
  <2> QED
    BY <2>1, <2>5, <2>6, FailTyped
<1> QED
  BY <1>1, <1>2

(* The formats split the run they are made in                               *)
LEMMA OneRun ==
    ASSUME NEW r \in TextRun
    PROVE  <<r>> \in Seq(TextRun) /\ Len(<<r>>) = 1 /\ <<r>>[1] = r
  OBVIOUS

LEMMA TwoRuns ==
    ASSUME NEW r \in TextRun, NEW q \in TextRun
    PROVE  /\ <<r, q>> \in Seq(TextRun) /\ Len(<<r, q>>) = 2
           /\ <<r, q>>[1] = r /\ <<r, q>>[2] = q
  OBVIOUS

LEMMA WithOneRun ==
    ASSUME NEW s \in Seq(TextRun), NEW at \in 0..Len(s), NEW r \in TextRun
    PROVE  LET t == Document!With(s, at, <<r>>) IN
           /\ t \in Seq(TextRun) /\ Len(t) = Len(s) + 1
           /\ \A k \in 1..at : t[k] = s[k]
           /\ t[at + 1] = r
           /\ \A k \in (at + 1)..Len(s) : t[k + 1] = s[k]
<1> DEFINE new == <<r>>
           t == Document!With(s, at, new)
<1>1. new \in Seq(TextRun) /\ Len(new) = 1 /\ new[1] = r
  BY OneRun
<1> HIDE DEF new
<1>2. /\ t \in Seq(TextRun) /\ Len(t) = Len(s) + Len(new)
      /\ \A k \in 1..at : t[k] = s[k]
      /\ \A k \in 1..Len(new) : t[at + k] = new[k]
      /\ \A k \in (at + 1)..Len(s) : t[k + Len(new)] = s[k]
  BY <1>1, RunsWith
<1> HIDE DEF t
<1>3. t[at + 1] = r
  BY <1>1, <1>2
<1> QED
  BY <1>1, <1>2, <1>3 DEF t, new

LEMMA WithTwoRuns ==
    ASSUME NEW s \in Seq(TextRun), NEW at \in 0..Len(s), NEW r \in TextRun, NEW q \in TextRun
    PROVE  LET t == Document!With(s, at, <<r, q>>) IN
           /\ t \in Seq(TextRun) /\ Len(t) = Len(s) + 2
           /\ \A k \in 1..at : t[k] = s[k]
           /\ t[at + 1] = r /\ t[at + 2] = q
           /\ \A k \in (at + 1)..Len(s) : t[k + 2] = s[k]
<1> DEFINE new == <<r, q>>
           t == Document!With(s, at, new)
<1>1. new \in Seq(TextRun) /\ Len(new) = 2 /\ new[1] = r /\ new[2] = q
  BY TwoRuns
<1> HIDE DEF new
<1>2. /\ t \in Seq(TextRun) /\ Len(t) = Len(s) + Len(new)
      /\ \A k \in 1..at : t[k] = s[k]
      /\ \A k \in 1..Len(new) : t[at + k] = new[k]
      /\ \A k \in (at + 1)..Len(s) : t[k + Len(new)] = s[k]
  BY <1>1, RunsWith
<1> HIDE DEF t
<1>3. t[at + 1] = r /\ t[at + 2] = q
  BY <1>1, <1>2
<1> QED
  BY <1>1, <1>2, <1>3 DEF t, new

LEMMA SplitMade ==
    ASSUME NEW rs \in Seq(TextRun), NEW i \in 1..Len(rs), NEW x,
           NEW t \in Seq(TextRun), Len(t) = Len(rs), \A k \in 1..Len(rs) : k # i => t[k] = rs[k],
           t[i].insert = Document!Upto(rs[i].insert, x),
           NEW r \in TextRun, r.insert = Document!From(rs[i].insert, x)
    PROVE  RunSplit(rs, i, x, Document!With(t, i, <<r>>))
<1> DEFINE m == Len(rs)
           u == Document!With(t, i, <<r>>)
<1>1. m \in Nat /\ i \in Nat /\ 1 <= i /\ i <= m /\ i \in 0..Len(t) /\ i \in 1..m
  OBVIOUS
<1>3. /\ u \in Seq(TextRun) /\ Len(u) = m + 1
      /\ \A k \in 1..i : u[k] = t[k]
      /\ u[i + 1] = r
      /\ \A k \in (i + 1)..m : u[k + 1] = t[k]
  BY <1>1, WithOneRun
<1> HIDE DEF u, m
<1>4. u[i] = t[i] /\ u[i + 1] = r
  BY <1>1, <1>3
<1>5. \A k \in 1..m : k < i => u[k] = rs[k]
  <2>1. ASSUME NEW k \in 1..m, k < i PROVE u[k] = rs[k]
    <3>1. k \in 1..i /\ k # i
      BY <1>1, <2>1
    <3> QED
      BY <1>3, <3>1 DEF m
  <2> QED
    BY <2>1
<1>6. \A k \in 1..m : k > i => u[k + 1] = rs[k]
  <2>1. ASSUME NEW k \in 1..m, k > i PROVE u[k + 1] = rs[k]
    <3>1. k \in (i + 1)..m /\ k # i
      BY <1>1, <2>1
    <3> QED
      BY <1>3, <3>1 DEF m
  <2> QED
    BY <2>1
<1> QED
  BY <1>3, <1>4, <1>5, <1>6 DEF RunSplit, u, m

LEMMA FormatEndIs ==
    ASSUME DocTypes, TextStage, Document!FormatEnd
    PROVE  RunSplit(runs, position, retain - offset, runs')
<1>1. /\ Document!Formatting /\ retain > offset
      /\ runs' = Document!With(Document!SetHere(Document!start), position,
                               <<Document!Run(Document!end, TRUE)>>)
  BY DEF Document!FormatEnd
<1>2. /\ position \in 1..Len(runs) /\ Document!here = runs[position].insert
      /\ retain <= offset \/ retain - offset <= Len(Document!here)
  BY <1>1, AtChange
<1>3. /\ runs \in Seq(TextRun) /\ position <= Len(runs) /\ offset <= retain
      /\ retain - offset <= Len(runs[position].insert)
  BY <1>1, <1>2 DEF DocTypes
<1>4. /\ Document!start = Document!Upto(Document!here, retain - offset)
      /\ Document!end = Document!From(Document!here, retain - offset)
      /\ Document!start \in Seq(Nat) /\ Document!end \in Seq(Nat)
  BY <1>3, SplitIs
<1>5. /\ Document!SetHere(Document!start) \in Seq(TextRun)
      /\ Len(Document!SetHere(Document!start)) = Len(runs)
      /\ \A k \in 1..Len(runs) : k # position => Document!SetHere(Document!start)[k] = runs[k]
      /\ Document!SetHere(Document!start)[position].insert = Document!start
  BY <1>3, <1>4, SetHereIs
<1>6. /\ Document!Run(Document!end, TRUE) \in TextRun
      /\ Document!Run(Document!end, TRUE).insert = Document!end
  BY <1>4 DEF Document!Run, TextRun
<1> QED
  BY <1>1, <1>2, <1>3, <1>4, <1>5, <1>6, SplitMade

LEMMA FormatMiddleIs ==
    ASSUME DocTypes, TextStage, Document!FormatMiddle
    PROVE  \E rs \in Seq(TextRun) :
               /\ RunSplit(runs, position, retain - offset, rs)
               /\ RunSplit(rs, position + 1, Document!remaining, runs')
<1> DEFINE t == Document!SetHere(Document!start)
           own == Document!end
           middle == Document!Run(Document!Upto(own, Document!remaining), TRUE)
           last == Document!Run(Document!From(own, Document!remaining), runs[position].bold)
           whole == Document!Run(own, runs[position].bold)
           rs == Document!With(t, position, <<whole>>)
<1>1. /\ Document!Formatting /\ retain > offset /\ Document!remaining < Len(own)
      /\ runs' = Document!With(t, position, <<middle, last>>)
  BY DEF Document!FormatMiddle
<1>2. /\ position \in 1..Len(runs) /\ Document!here = runs[position].insert
      /\ Document!remaining \in Int /\ Document!remaining > 0
      /\ retain <= offset \/ retain - offset <= Len(Document!here)
  BY <1>1, AtChange
<1>3. /\ runs \in Seq(TextRun) /\ position <= Len(runs) /\ offset <= retain
      /\ retain - offset <= Len(runs[position].insert) /\ Len(runs) \in Nat
  BY <1>1, <1>2 DEF DocTypes
<1>4. /\ Document!start = Document!Upto(Document!here, retain - offset)
      /\ own = Document!From(Document!here, retain - offset)
      /\ Document!start \in Seq(Nat) /\ own \in Seq(Nat) /\ Len(own) \in Nat
  BY <1>3, SplitIs
<1>5. /\ t \in Seq(TextRun) /\ Len(t) = Len(runs)
      /\ \A k \in 1..Len(runs) : k # position => t[k] = runs[k]
      /\ t[position].insert = Document!start
  BY <1>3, <1>4, SetHereIs
<1>6. Document!remaining \in 0..Len(own)
  BY <1>1, <1>2, <1>4
<1>7. runs[position].bold \in BOOLEAN
  BY <1>3, HereIs
<1> HIDE DEF t, own
<1>8. /\ Document!Upto(own, Document!remaining) \in Seq(Nat)
      /\ Document!From(own, Document!remaining) \in Seq(Nat)
  BY <1>4, <1>6, UptoIs, FromIs
<1>9. /\ whole \in TextRun /\ middle \in TextRun /\ last \in TextRun
      /\ whole.insert = own /\ middle.insert = Document!Upto(own, Document!remaining)
      /\ last.insert = Document!From(own, Document!remaining)
  BY <1>4, <1>7, <1>8 DEF Document!Run, TextRun
<1> HIDE DEF whole, middle, last
<1>10. RunSplit(runs, position, retain - offset, rs)
  BY <1>2, <1>3, <1>4, <1>5, <1>9, SplitMade
<1>11. rs \in Seq(TextRun) /\ Len(rs) = Len(runs) + 1
  BY <1>10 DEF RunSplit
<1>12. position \in 0..Len(t) /\ position \in Nat /\ position >= 1
  BY <1>2, <1>3, <1>5
<1>13. /\ \A k \in 1..position : rs[k] = t[k]
       /\ rs[position + 1] = whole
       /\ \A k \in (position + 1)..Len(t) : rs[k + 1] = t[k]
  BY <1>5, <1>9, <1>12, WithOneRun
<1>14. /\ runs' \in Seq(TextRun) /\ Len(runs') = Len(runs) + 2
       /\ \A k \in 1..position : runs'[k] = t[k]
       /\ runs'[position + 1] = middle /\ runs'[(position + 1) + 1] = last
       /\ \A k \in (position + 1)..Len(t) : runs'[k + 2] = t[k]
  <2>1. /\ runs' \in Seq(TextRun) /\ Len(runs') = Len(t) + 2
        /\ \A k \in 1..position : runs'[k] = t[k]
        /\ runs'[position + 1] = middle /\ runs'[position + 2] = last
        /\ \A k \in (position + 1)..Len(t) : runs'[k + 2] = t[k]
    <3> DEFINE u == Document!With(t, position, <<middle, last>>)
    <3>1. t \in Seq(TextRun) /\ position \in 0..Len(t) /\ middle \in TextRun /\ last \in TextRun
      BY <1>5, <1>9, <1>12
    <3>2. /\ u \in Seq(TextRun) /\ Len(u) = Len(t) + 2
          /\ \A k \in 1..position : u[k] = t[k]
          /\ u[position + 1] = middle /\ u[position + 2] = last
          /\ \A k \in (position + 1)..Len(t) : u[k + 2] = t[k]
      BY <3>1, WithTwoRuns, SMTT(60)
    <3> QED
      BY <1>1, <3>2
  <2>2. (position + 1) + 1 = position + 2
    BY <1>12
  <2> QED
    BY <1>5, <2>1, <2>2
<1> HIDE DEF rs
<1>15. \A k \in 1..Len(rs) : k < position + 1 => runs'[k] = rs[k]
  <2>1. ASSUME NEW k \in 1..Len(rs), k < position + 1 PROVE runs'[k] = rs[k]
    <3>1. k \in 1..position
      BY <1>12, <2>1
    <3> QED
      BY <1>13, <1>14, <3>1
  <2> QED
    BY <2>1
<1>16. \A k \in 1..Len(rs) : k > position + 1 => runs'[k + 1] = rs[k]
  <2>1. ASSUME NEW k \in 1..Len(rs), k > position + 1 PROVE runs'[k + 1] = rs[k]
    <3>1. /\ k - 1 \in (position + 1)..Len(t) /\ (k - 1) + 1 = k /\ (k - 1) + 2 = k + 1
      BY <1>3, <1>5, <1>11, <1>12, <2>1
    <3>2. rs[(k - 1) + 1] = t[k - 1] /\ runs'[(k - 1) + 2] = t[k - 1]
      BY <1>13, <1>14, <3>1
    <3> QED
      BY <3>1, <3>2
  <2> QED
    BY <2>1
<1>17. Len(runs') = Len(rs) + 1
  BY <1>3, <1>11, <1>14
<1>18. RunSplit(rs, position + 1, Document!remaining, runs')
  BY <1>9, <1>13, <1>14, <1>15, <1>16, <1>17 DEF RunSplit
<1> QED
  BY <1>10, <1>11, <1>18

LEMMA FormatFrontIs ==
    ASSUME DocTypes, TextStage, Document!FormatFront
    PROVE  /\ runs' \in Seq(TextRun) /\ Len(runs') = Len(runs) + 1
           /\ position = Len(runs) => RunSplit(runs, position, Document!remaining, runs')
<1> DEFINE own == Document!here
           first == Document!Run(Document!Upto(own, Document!remaining), TRUE)
           last == Document!Run(Document!From(own, Document!remaining), runs[position].bold)
           t == [runs EXCEPT ![position] = first]
<1>1. /\ Document!Formatting /\ Document!remaining < Len(own)
      /\ runs' = Append(t, last)
  BY DEF Document!FormatFront
<1>2. /\ position \in 1..Len(runs) /\ own = runs[position].insert
      /\ own \in Seq(Nat) /\ Len(own) \in Nat /\ runs[position] \in TextRun
      /\ Document!remaining \in Int /\ Document!remaining > 0
  BY <1>1, AtChange
<1>3. runs \in Seq(TextRun) /\ Len(runs) \in Nat /\ runs[position].bold \in BOOLEAN
  BY <1>2 DEF DocTypes, TextRun
<1>4. Document!remaining \in 0..Len(own)
  BY <1>1, <1>2
<1> HIDE DEF own
<1>5. /\ Document!Upto(own, Document!remaining) \in Seq(Nat)
      /\ Document!From(own, Document!remaining) \in Seq(Nat)
  BY <1>2, <1>4, UptoIs, FromIs
<1>6. /\ first \in TextRun /\ last \in TextRun
      /\ first.insert = Document!Upto(own, Document!remaining)
      /\ last.insert = Document!From(own, Document!remaining)
  BY <1>3, <1>5 DEF Document!Run, TextRun
<1> HIDE DEF first, last
<1>7. /\ t \in Seq(TextRun) /\ Len(t) = Len(runs) /\ t[position] = first
      /\ \A k \in 1..Len(runs) : k # position => t[k] = runs[k]
  BY <1>2, <1>3, <1>6
<1> HIDE DEF t
<1>8. /\ runs' \in Seq(TextRun) /\ Len(runs') = Len(runs) + 1
      /\ \A k \in 1..Len(runs) : runs'[k] = t[k]
      /\ runs'[Len(runs) + 1] = last
  BY <1>1, <1>6, <1>7, AppendProperties
<1>9. ASSUME position = Len(runs)
      PROVE  RunSplit(runs, position, Document!remaining, runs')
  <2>1. runs'[position] = first /\ runs'[position + 1] = last
    BY <1>2, <1>7, <1>8, <1>9
  <2>2. \A k \in 1..Len(runs) : k < position => runs'[k] = runs[k]
    BY <1>2, <1>3, <1>7, <1>8
  <2>3. \A k \in 1..Len(runs) : ~(k > position)
    BY <1>3, <1>9
  <2> QED
    BY <1>2, <1>6, <1>8, <2>1, <2>2, <2>3 DEF RunSplit
<1> QED
  BY <1>8, <1>9

LEMMA FormatRunIs ==
    ASSUME DocTypes, TextStage, Document!FormatRun
    PROVE  /\ runs' \in Seq(TextRun) /\ Len(runs') = Len(runs)
           /\ \A k \in 1..Len(runs) : runs'[k].insert = runs[k].insert
<1>1. Document!Formatting /\ runs' = [runs EXCEPT ![position].bold = TRUE]
  BY DEF Document!FormatRun
<1>2. position \in 1..Len(runs) /\ runs[position] \in TextRun
  BY <1>1, AtChange
<1>3. runs \in Seq(TextRun)
  BY DEF DocTypes
<1> DEFINE r == [runs[position] EXCEPT !.bold = TRUE]
<1>4. r \in TextRun /\ r.insert = runs[position].insert
  BY <1>2 DEF TextRun
<1>5. runs' = [runs EXCEPT ![position] = r]
  BY <1>1, <1>2, <1>3
<1> HIDE DEF r
<1>6. /\ runs' \in Seq(TextRun) /\ Len(runs') = Len(runs) /\ runs'[position] = r
      /\ \A k \in 1..Len(runs) : k # position => runs'[k] = runs[k]
  BY <1>2, <1>3, <1>4, <1>5
<1>7. ASSUME NEW k \in 1..Len(runs) PROVE runs'[k].insert = runs[k].insert
  BY <1>4, <1>6
<1> QED
  BY <1>6, <1>7

LEMMA FormatsTyped ==
    ASSUME DocTypes, TextStage,
           \/ Document!FormatEnd \/ Document!FormatMiddle
           \/ Document!FormatRun \/ Document!FormatFront
    PROVE  DocTypes' /\ TextStage'
<1>1. Document!Formatting /\ UNCHANGED <<Document!runtime, delta, nodes, retain, failed>>
  BY DEF Document!FormatEnd, Document!FormatMiddle, Document!FormatRun, Document!FormatFront
<1>2. /\ delta # <<>> /\ Len(delta) = 1 /\ Document!op = delta[1]
      /\ Document!op.kind \in {"delete", "format"} /\ position \in 1..Len(runs)
      /\ Document!here = runs[position].insert
      /\ Document!here \in Seq(Nat) /\ Len(Document!here) \in Nat
      /\ Document!op.n \in Nat /\ Document!remaining = Document!op.n - counted
      /\ Document!remaining \in Int /\ Document!remaining > 0
      /\ retain <= offset \/ retain - offset <= Len(Document!here)
  BY <1>1, AtChange
<1>3. /\ offset \in Nat /\ retain \in Int /\ counted \in Nat /\ Len(runs) \in Nat
      /\ position <= Len(runs) /\ position \in Nat /\ position >= 1
  BY <1>2 DEF DocTypes
<1>4. CASE Document!FormatEnd
  <2>1. /\ retain > offset /\ counted' = counted + Len(Document!end)
        /\ position' = position + 2 /\ offset' = offset + Len(Document!here)
    BY <1>4 DEF Document!FormatEnd
  <2>2. Len(Document!end) \in Nat
    BY <1>2, <1>3, <2>1, SplitIs
  <2>3. runs' \in Seq(TextRun) /\ Len(runs') = Len(runs) + 1
    BY <1>4, FormatEndIs DEF RunSplit
  <2>4. retain - offset <= Len(Document!here) /\ retain' = retain
    BY <1>1, <1>2, <1>3, <2>1
  <2>5. position' \in 1..(Len(runs') + 1)
    BY <1>3, <2>1, <2>3
  <2>6. offset' \in Nat /\ retain' <= offset'
    BY <1>2, <1>3, <2>1, <2>4
  <2>7. counted' \in Nat
    BY <1>3, <2>1, <2>2
  <2> QED
    BY <1>1, <1>2, <2>3, <2>5, <2>6, <2>7, ChangeTyped, ChangeStage
<1>5. CASE Document!FormatMiddle
  <2>1. /\ retain > offset /\ counted' = counted + Document!remaining
        /\ position' = position + 3
        /\ offset' = offset + Len(Document!start) + Document!remaining
    BY <1>5 DEF Document!FormatMiddle
  <2>2. Len(Document!start) = retain - offset
    BY <1>2, <1>3, <2>1, SplitIs
  <2>3. runs' \in Seq(TextRun) /\ Len(runs') = Len(runs) + 2
    <3>1. PICK rs \in Seq(TextRun) :
              /\ RunSplit(runs, position, retain - offset, rs)
              /\ RunSplit(rs, position + 1, Document!remaining, runs')
      BY <1>5, FormatMiddleIs
    <3>2. Len(rs) = Len(runs) + 1 /\ runs' \in Seq(TextRun) /\ Len(runs') = Len(rs) + 1
      BY <3>1 DEF RunSplit
    <3> QED
      BY <1>3, <3>2
  <2>4. position' \in 1..(Len(runs') + 1)
    BY <1>3, <2>1, <2>3
  <2>5. offset' \in Nat
    <3>1. Document!remaining \in Int /\ Document!remaining > 0
      BY <1>2
    <3> QED
      BY <1>3, <2>1, <2>2, <3>1
  <2>6. counted' \in Nat /\ delta[1].n <= counted'
    BY <1>2, <1>3, <2>1
  <2> QED
    BY <1>1, <1>2, <2>3, <2>4, <2>5, <2>6, ChangeTyped, ChangeStage
<1>6. CASE Document!FormatRun
  <2>1. /\ retain <= offset /\ counted' = counted + Len(Document!here)
        /\ position' = position + 1 /\ offset' = offset + Len(Document!here)
    BY <1>6 DEF Document!FormatRun
  <2>2. runs' \in Seq(TextRun) /\ Len(runs') = Len(runs)
    BY <1>6, FormatRunIs
  <2>3. position' \in 1..(Len(runs') + 1)
    BY <1>3, <2>1, <2>2
  <2>4. offset' \in Nat /\ retain' <= offset' /\ counted' \in Nat
    BY <1>1, <1>2, <1>3, <2>1
  <2> QED
    BY <1>1, <1>2, <2>2, <2>3, <2>4, ChangeTyped, ChangeStage
<1>7. CASE Document!FormatFront
  <2>1. /\ retain <= offset /\ counted' = Document!op.n /\ UNCHANGED <<position, offset>>
    BY <1>7 DEF Document!FormatFront
  <2>2. runs' \in Seq(TextRun) /\ Len(runs') = Len(runs) + 1
    BY <1>7, FormatFrontIs
  <2>3. position' \in 1..(Len(runs') + 1)
    BY <1>3, <2>1, <2>2
  <2>4. offset' \in Nat /\ retain' <= offset' /\ counted' \in Nat
    BY <1>1, <1>2, <1>3, <2>1
  <2> QED
    BY <1>1, <1>2, <2>2, <2>3, <2>4, ChangeTyped, ChangeStage
<1> QED
  BY <1>4, <1>5, <1>6, <1>7

-----------------------------------------------------------------------------
(* An edit reports a delta of its place and itself                          *)
Skips(change) == IF change \in {"add", "drop"} THEN "skip" ELSE "retain"

LEMMA ItemsJoin ==
    ASSUME NEW s \in Seq(Items), NEW t \in Seq(Items)
    PROVE  /\ s \o t \in Seq(Items) /\ Len(s \o t) = Len(s) + Len(t)
           /\ \A k \in 1..Len(s) : (s \o t)[k] = s[k]
           /\ \A k \in 1..Len(t) : (s \o t)[Len(s) + k] = t[k]
  BY JoinIs

LEMMA DeltaIs ==
    ASSUME NEW change \in ItemKinds, NEW at \in Nat, NEW n \in Nat, NEW new \in Seq(Nat)
    PROVE  LET d == Document!Delta(change, at, n, new) IN
              /\ d \in Seq(Items) /\ d # <<>>
              /\ at = 0 => Len(d) = 1 /\ d[1] = Document!Item(change, n, new)
              /\ at # 0 => /\ Len(d) = 2 /\ d[1] = Document!Item(Skips(change), at, <<>>)
                           /\ d[2] = Document!Item(change, n, new)
<1> DEFINE first == Document!Item(Skips(change), at, <<>>)
           last == Document!Item(change, n, new)
<1>1. first \in Items /\ last \in Items
  <2>1. Skips(change) \in ItemKinds
    BY DEF ItemKinds, Skips
  <2>2. <<>> \in Seq(Nat)
    BY EmptySeq
  <2> QED
    BY <2>1, <2>2 DEF Document!Item, Items
<1>2. Document!Delta(change, at, n, new) = (IF at = 0 THEN <<>> ELSE <<first>>) \o <<last>>
  BY DEF Document!Delta, Skips
<1> HIDE DEF first, last
<1>3. <<last>> \in Seq(Items) /\ Len(<<last>>) = 1 /\ <<last>>[1] = last
  BY <1>1
<1>4. <<first>> \in Seq(Items) /\ Len(<<first>>) = 1 /\ <<first>>[1] = first
  BY <1>1
<1> DEFINE lasts == <<last>>
           firsts == <<first>>
           d == Document!Delta(change, at, n, new)
<1> HIDE DEF lasts, firsts, d
<1>5. CASE at = 0
  <2>1. d = lasts
    <3>1. lasts \in Seq(Items)
      BY <1>3 DEF lasts
    <3>2. <<>> \o lasts = lasts
      BY <3>1, ConcatEmptySeq
    <3> QED
      BY <1>2, <1>5, <3>2 DEF lasts, d
  <2> QED
    BY <1>3, <1>5, <2>1 DEF lasts, d, last
<1>6. CASE at # 0
  <2>1. d = firsts \o lasts
    BY <1>2, <1>6 DEF firsts, lasts, d
  <2>2. /\ firsts \in Seq(Items) /\ Len(firsts) = 1 /\ firsts[1] = first
        /\ lasts \in Seq(Items) /\ Len(lasts) = 1 /\ lasts[1] = last
    BY <1>3, <1>4 DEF firsts, lasts
  <2>3. /\ d \in Seq(Items) /\ Len(d) = 2 /\ d[1] = first /\ d[2] = last
    <3>1. /\ firsts \o lasts \in Seq(Items)
          /\ Len(firsts \o lasts) = Len(firsts) + Len(lasts)
          /\ \A k \in 1..Len(firsts) : (firsts \o lasts)[k] = firsts[k]
          /\ \A k \in 1..Len(lasts) : (firsts \o lasts)[Len(firsts) + k] = lasts[k]
      BY <2>2, ItemsJoin
    <3>2. /\ d \in Seq(Items) /\ Len(d) = Len(firsts) + Len(lasts)
          /\ \A k \in 1..Len(firsts) : d[k] = firsts[k]
          /\ \A k \in 1..Len(lasts) : d[Len(firsts) + k] = lasts[k]
      BY <2>1, <3>1
    <3> QED
      BY <2>2, <3>2
  <2>4. d # <<>>
    <3> SUFFICES ASSUME d = <<>> PROVE FALSE
      OBVIOUS
    <3>1. Len(<<>>) = 0
      OBVIOUS
    <3>2. Len(d) = 0
      BY <3>1, Zenon
    <3> QED
      BY <2>3, <3>2
  <2> QED
    BY <1>6, <2>3, <2>4 DEF d, first, last
<1> QED
  BY <1>5, <1>6

LEMMA ReportIs ==
    ASSUME DocTypes, NEW change \in ItemKinds, NEW at \in Nat, NEW n \in Nat, NEW new \in Seq(Nat),
           Document!Report(Document!Delta(change, at, n, new))
    PROVE  /\ delta' \in Seq(Items) /\ delta' # <<>>
           /\ at = 0 => Len(delta') = 1 /\ delta'[1] = Document!Item(change, n, new)
           /\ at # 0 => /\ Len(delta') = 2
                        /\ delta'[1] = Document!Item(Skips(change), at, <<>>)
                       /\ delta'[2] = Document!Item(change, n, new)
           /\ position' = 1 /\ retain' = 0 /\ offset' = 0 /\ counted' = 0
           /\ UNCHANGED <<runs, nodes, failed>>
           /\ position' \in 1..(Len(runs') + 1) /\ retain' \in Int /\ offset' \in Nat
           /\ counted' \in Nat /\ runs' \in Seq(TextRun) /\ failed' \in BOOLEAN
           /\ nodes' \in Seq(Nat)
<1>1. /\ delta' = Document!Delta(change, at, n, new)
      /\ position' = 1 /\ retain' = 0 /\ offset' = 0 /\ counted' = 0
      /\ UNCHANGED <<runs, nodes, failed>>
  BY DEF Document!Report
<1>2. /\ runs \in Seq(TextRun) /\ Len(runs) \in Nat /\ failed \in BOOLEAN
      /\ nodes \in Seq(Nat)
  BY DEF DocTypes
<1>3. 1 \in 1..(Len(runs) + 1)
  BY <1>2
<1> DEFINE d == Document!Delta(change, at, n, new)
<1>4. /\ d \in Seq(Items) /\ d # <<>>
      /\ at = 0 => Len(d) = 1 /\ d[1] = Document!Item(change, n, new)
      /\ at # 0 => /\ Len(d) = 2 /\ d[1] = Document!Item(Skips(change), at, <<>>)
                   /\ d[2] = Document!Item(change, n, new)
  BY DeltaIs
<1> HIDE DEF d
<1>5. delta' = d
  BY <1>1 DEF d
<1> QED
  BY <1>1, <1>2, <1>3, <1>4, <1>5

LEMMA ReportStage ==
    ASSUME DocTypes, NEW change \in Changes, NEW at \in Nat, NEW n \in Nat, NEW new \in Seq(Nat),
           Document!Report(Document!Delta(change, at, n, new))
    PROVE  TextStage'
<1>1. change \in ItemKinds /\ change \notin {"add", "drop", "retain"}
  BY DEF ItemKinds, Changes
<1>2. /\ delta' # <<>>
      /\ at = 0 => Len(delta') = 1 /\ delta'[1] = Document!Item(change, n, new)
      /\ at # 0 => /\ Len(delta') = 2 /\ delta'[1] = Document!Item("retain", at, <<>>)
                   /\ delta'[2] = Document!Item(change, n, new)
      /\ position' = 1 /\ retain' = 0 /\ offset' = 0 /\ counted' = 0
  <2>1. Skips(change) = "retain"
    BY <1>1 DEF Skips
  <2> QED
    BY <1>1, <2>1, ReportIs
<1>3. CASE at = 0
  <2>1. delta'[1].kind = change /\ Len(delta') = 1
    BY <1>2, <1>3 DEF Document!Item
  <2> QED
    BY <1>1, <1>2, <2>1 DEF TextStage
<1>4. CASE at # 0
  <2>1. /\ delta'[1].kind = "retain" /\ delta'[1].n = at /\ delta'[2].kind = change
        /\ Len(delta') = 2
    BY <1>2, <1>4 DEF Document!Item
  <2>2. at > 0 /\ "retain" \notin Changes
    BY <1>4 DEF Changes
  <2> QED
    BY <1>2, <2>1, <2>2 DEF TextStage
<1> QED
  BY <1>3, <1>4

LEMMA LettersWith ==
    ASSUME NEW s \in Seq(Letter), NEW at \in 0..Len(s), NEW new \in Seq(Letter)
    PROVE  LET t == Document!With(s, at, new) IN
           /\ t \in Seq(Letter) /\ Len(t) = Len(s) + Len(new)
           /\ \A k \in 1..at : t[k] = s[k]
           /\ \A k \in 1..Len(new) : t[at + k] = new[k]
           /\ \A k \in (at + 1)..Len(s) : t[k + Len(new)] = s[k]
<1>1. AreWith(Letter, s, at, new, Document!With(s, at, new))
  BY WithAre, Zenon
<1> QED
  BY <1>1 DEF AreWith

LEMMA LettersWithout ==
    ASSUME NEW s \in Seq(Letter), NEW at \in Nat, NEW n \in Nat, at + n <= Len(s)
    PROVE  LET t == Document!Without(s, at, n) IN
           /\ t \in Seq(Letter) /\ Len(t) = Len(s) - n
           /\ \A k \in 1..at : t[k] = s[k]
           /\ \A k \in (at + 1)..(Len(s) - n) : t[k] = s[k + n]
  BY WithoutIs

LEMMA NumbersWithout ==
    ASSUME NEW s \in Seq(Nat), NEW at \in Nat, NEW n \in Nat, at + n <= Len(s)
    PROVE  LET t == Document!Without(s, at, n) IN
           /\ t \in Seq(Nat) /\ Len(t) = Len(s) - n
           /\ \A k \in 1..at : t[k] = s[k]
           /\ \A k \in (at + 1)..(Len(s) - n) : t[k] = s[k + n]
  BY WithoutIs

LEMMA OneLess ==
    ASSUME NEW s \in Seq(Nat), NEW at \in Nat, at + 1 <= Len(s)
    PROVE  LET t == Document!Without(s, at, 1) IN
           /\ t \in Seq(Nat) /\ Len(t) = Len(s) - 1
           /\ \A k \in 1..at : t[k] = s[k]
           /\ \A k \in (at + 1)..(Len(s) - 1) : t[k] = s[k + 1]
<1>1. 1 \in Nat
  OBVIOUS
<1> QED
  BY <1>1, NumbersWithout

(* The characters an insert brings, formatted as the one before them is     *)
NewCharacters(n) == [k \in 1..n |-> textMade + k]
NewLetters(at, n) == [k \in 1..n |-> [c |-> NewCharacters(n)[k], bold |-> at > 0 /\ text[at].bold]]

LEMMA InsertTextIs ==
    ASSUME DocTypes, NEW at \in 0..Len(text), NEW n \in 1..MaxText, Document!InsertText(at, n)
    PROVE  /\ NewCharacters(n) \in Seq(Nat) /\ Len(NewCharacters(n)) = n /\ n \in Nat /\ at \in Nat
           /\ NewLetters(at, n) \in Seq(Letter) /\ Len(NewLetters(at, n)) = n
           /\ text' = Document!With(text, at, NewLetters(at, n))
           /\ text' \in Seq(Letter) /\ textMade' \in 0..MaxText
           /\ Document!Report(Document!Delta("insert", at, n, NewCharacters(n)))
           /\ UNCHANGED <<children, childrenMade, rough>>
<1>1. /\ textMade + n <= MaxText
      /\ text' = Document!With(text, at, NewLetters(at, n))
      /\ Document!Report(Document!Delta("insert", at, n, NewCharacters(n)))
      /\ textMade' = textMade + n /\ UNCHANGED <<children, childrenMade, rough>>
  BY DEF Document!InsertText, NewLetters, NewCharacters
<1>2. /\ text \in Seq(Letter) /\ textMade \in Nat /\ MaxText \in Nat /\ n \in Nat /\ n >= 1
      /\ Len(text) \in Nat /\ at \in Nat /\ at <= Len(text)
  BY PartsAssumption DEF DocTypes
<1>3. NewCharacters(n) \in Seq(Nat) /\ Len(NewCharacters(n)) = n
  BY <1>2 DEF NewCharacters
<1>4. \A k \in 1..n : NewCharacters(n)[k] \in 1..MaxText
  BY <1>1, <1>2 DEF NewCharacters
<1>5. (at > 0 /\ text[at].bold) \in BOOLEAN
  OBVIOUS
<1>6. \A k \in 1..n : [c |-> NewCharacters(n)[k], bold |-> at > 0 /\ text[at].bold] \in Letter
  BY <1>4, <1>5 DEF Letter
<1>7. NewLetters(at, n) \in Seq(Letter) /\ Len(NewLetters(at, n)) = n
  BY <1>2, <1>6 DEF NewLetters
<1>8. text' \in Seq(Letter)
  BY <1>1, <1>2, <1>7, LettersWith
<1>9. textMade' \in 0..MaxText
  BY <1>1, <1>2
<1> QED
  BY <1>1, <1>2, <1>3, <1>7, <1>8, <1>9

LEMMA DeleteTextIs ==
    ASSUME DocTypes, NEW at \in 0..Len(text), NEW n \in 1..(Len(text) - at),
           Document!DeleteText(at, n)
    PROVE  /\ at \in Nat /\ n \in Nat /\ n >= 1 /\ at + n <= Len(text)
           /\ text' = Document!Without(text, at, n) /\ text' \in Seq(Letter)
           /\ rough' = (rough \/ n > 1 \/ Len(text) = 1 \/ \E k \in 1..Len(text) : text[k].bold)
           /\ Document!Report(Document!Delta("delete", at, n, <<>>))
           /\ UNCHANGED <<children, textMade, childrenMade>>
<1>1. /\ text' = Document!Without(text, at, n)
      /\ rough' = (rough \/ n > 1 \/ Len(text) = 1 \/ \E k \in 1..Len(text) : text[k].bold)
      /\ Document!Report(Document!Delta("delete", at, n, <<>>))
      /\ UNCHANGED <<children, textMade, childrenMade>>
  BY DEF Document!DeleteText
<1>2. text \in Seq(Letter) /\ Len(text) \in Nat
  BY DEF DocTypes
<1>3. at \in Nat /\ n \in Nat /\ n >= 1 /\ at + n <= Len(text)
  BY <1>2
<1>4. text' \in Seq(Letter)
  BY <1>1, <1>2, <1>3, LettersWithout
<1> QED
  BY <1>1, <1>3, <1>4

LEMMA FormatTextIs ==
    ASSUME DocTypes, NEW at \in 0..Len(text), NEW n \in 1..(Len(text) - at),
           Document!FormatText(at, n)
    PROVE  /\ at \in Nat /\ n \in Nat /\ n >= 1 /\ at + n <= Len(text)
           /\ \A k \in (at + 1)..(at + n) : ~text[k].bold
           /\ text' \in Seq(Letter) /\ Len(text') = Len(text)
           /\ \A k \in 1..Len(text) : text'[k].c = text[k].c
           /\ text'[at + n].bold
           /\ rough' = (rough \/ \E k \in (at + n + 1)..Len(text) : text[k].bold)
           /\ Document!Report(Document!Delta("format", at, n, <<>>))
           /\ UNCHANGED <<children, textMade, childrenMade>>
<1> DEFINE new(k) == IF k \in (at + 1)..(at + n) THEN [text[k] EXCEPT !.bold = TRUE] ELSE text[k]
<1>1. /\ \A k \in (at + 1)..(at + n) : ~text[k].bold
      /\ text' = [k \in 1..Len(text) |-> new(k)]
      /\ rough' = (rough \/ \E k \in (at + n + 1)..Len(text) : text[k].bold)
      /\ Document!Report(Document!Delta("format", at, n, <<>>))
      /\ UNCHANGED <<children, textMade, childrenMade>>
  BY DEF Document!FormatText
<1>2. text \in Seq(Letter) /\ Len(text) \in Nat
  BY DEF DocTypes
<1>3. at \in Nat /\ n \in Nat /\ n >= 1 /\ at + n <= Len(text)
  BY <1>2
<1>4. ASSUME NEW k \in 1..Len(text) PROVE new(k) \in Letter /\ new(k).c = text[k].c
  <2>1. text[k] \in Letter
    BY <1>2
  <2>2. /\ [text[k] EXCEPT !.bold = TRUE] \in Letter
        /\ [text[k] EXCEPT !.bold = TRUE].c = text[k].c
    BY <2>1 DEF Letter
  <2> QED
    BY <2>1, <2>2
<1>5. new(at + n).bold
  <2>1. at + n \in 1..Len(text) /\ at + n \in (at + 1)..(at + n)
    BY <1>2, <1>3
  <2>2. text[at + n] \in Letter
    BY <1>2, <2>1
  <2>3. [text[at + n] EXCEPT !.bold = TRUE].bold
    BY <2>2 DEF Letter
  <2> QED
    BY <2>1, <2>3
<1> HIDE DEF new
<1>6. text' \in Seq(Letter) /\ Len(text') = Len(text)
  BY <1>1, <1>2, <1>4
<1>7. \A k \in 1..Len(text) : text'[k] = new(k)
  BY <1>1
<1>8. at + n \in 1..Len(text)
  BY <1>2, <1>3
<1> QED
  BY <1>1, <1>3, <1>4, <1>5, <1>6, <1>7, <1>8

LEMMA EditTyped ==
    ASSUME DocTypes, text' \in Seq(Letter), textMade' \in 0..MaxText, rough' \in BOOLEAN,
           UNCHANGED <<children, childrenMade>>,
           NEW change \in Changes, NEW at \in Nat, NEW n \in Nat, NEW new \in Seq(Nat),
           Document!Report(Document!Delta(change, at, n, new))
    PROVE  DocTypes' /\ TextStage'
<1>1. change \in ItemKinds
  BY DEF ItemKinds
<1>2. /\ delta' \in Seq(Items) /\ position' \in 1..(Len(runs') + 1) /\ retain' \in Int
      /\ offset' \in Nat /\ counted' \in Nat /\ runs' \in Seq(TextRun) /\ failed' \in BOOLEAN
      /\ nodes' = nodes
  BY <1>1, ReportIs
<1>3. /\ children \in Seq(Nat) /\ childrenMade \in Nat /\ nodes \in Seq(Nat) /\ Known(nodes)
  BY DEF DocTypes
<1>4. Known(nodes)'
  BY <1>2, <1>3 DEF Known
<1>5. DocTypes'
  BY <1>2, <1>3, <1>4 DEF DocTypes
<1> QED
  BY <1>5, ReportStage

-----------------------------------------------------------------------------
(* The children: what is left of the delta leads to the runtime's           *)
Addition(item) ==
    item.kind = "add" /\ item.n = 1 /\ Len(item.new) = 1 /\ Known(item.new)

(* from the j-th item of the delta on, which is for the place at            *)
ChildChange(j, at) ==
    \/ /\ Len(delta) = j /\ Addition(delta[j])
       /\ at >= -1 /\ at <= Len(nodes) /\ Len(children) = Len(nodes) + 1
       /\ ~rough => at >= 0 /\ children = Document!With(nodes, at, delta[j].new)
    \/ /\ delta[j].kind = "drop" /\ delta[j].n = 1 /\ at >= 0 /\ at < Len(nodes)
       /\ \/ /\ Len(delta) = j /\ Len(children) = Len(nodes) - 1
             /\ ~rough => children = Document!Without(nodes, at, 1)
          \/ /\ Len(delta) = j + 1 /\ Addition(delta[j + 1])
             /\ rough /\ Len(children) = Len(nodes)

ChildrenSame == Len(children) = Len(nodes) /\ (~rough => nodes = children)

ChildrenFollow ==
    /\ delta = <<>> \/ delta[1].kind \in Changes \cup {"retain"} => ChildrenSame
    /\ delta # <<>> =>
           /\ delta[1].kind = "skip" => retain = 0 /\ ChildChange(2, delta[1].n)
           /\ delta[1].kind \in {"add", "drop"} => ChildChange(1, retain)

LEMMA KnownWith ==
    ASSUME NEW s \in Seq(Nat), Known(s), NEW at \in 0..Len(s), NEW new \in Seq(Nat), Known(new)
    PROVE  Known(Document!With(s, at, new))
<1> DEFINE t == Document!With(s, at, new)
<1>1. /\ Len(t) = Len(s) + Len(new)
      /\ \A k \in 1..at : t[k] = s[k]
      /\ \A k \in 1..Len(new) : t[at + k] = new[k]
      /\ \A k \in (at + 1)..Len(s) : t[k + Len(new)] = s[k]
  BY NumbersWith
<1>2. Len(s) \in Nat /\ Len(new) \in Nat /\ at \in Nat /\ at <= Len(s)
  OBVIOUS
<1> HIDE DEF t
<1>3. ASSUME NEW k \in 1..Len(t) PROVE t[k] \in 1..childrenMade
  <2>1. CASE k <= at
    <3>1. k \in 1..at /\ k \in 1..Len(s)
      BY <1>2, <2>1
    <3> QED
      BY <1>1, <3>1 DEF Known
  <2>2. CASE k > at /\ k <= at + Len(new)
    <3>1. k - at \in 1..Len(new) /\ at + (k - at) = k
      BY <1>2, <2>2
    <3>2. t[at + (k - at)] = new[k - at]
      BY <1>1, <3>1
    <3> QED
      BY <3>1, <3>2 DEF Known
  <2>3. CASE k > at + Len(new)
    <3>1. /\ k - Len(new) \in (at + 1)..Len(s) /\ (k - Len(new)) + Len(new) = k
          /\ k - Len(new) \in 1..Len(s)
      BY <1>1, <1>2, <2>3
    <3>2. t[(k - Len(new)) + Len(new)] = s[k - Len(new)]
      BY <1>1, <3>1
    <3> QED
      BY <3>1, <3>2 DEF Known
  <2> QED
    BY <1>2, <2>1, <2>2, <2>3
<1> QED
  BY <1>3 DEF Known, t

LEMMA KnownWithout ==
    ASSUME NEW s \in Seq(Nat), Known(s), NEW at \in Nat, at + 1 <= Len(s)
    PROVE  Known(Document!Without(s, at, 1))
<1> DEFINE t == Document!Without(s, at, 1)
<1>1. /\ Len(t) = Len(s) - 1
      /\ \A k \in 1..at : t[k] = s[k]
      /\ \A k \in (at + 1)..(Len(s) - 1) : t[k] = s[k + 1]
  BY OneLess
<1>2. Len(s) \in Nat
  OBVIOUS
<1> HIDE DEF t
<1>3. ASSUME NEW k \in 1..Len(t) PROVE t[k] \in 1..childrenMade
  <2>1. CASE k <= at
    <3>1. k \in 1..at /\ k \in 1..Len(s)
      BY <1>2, <2>1
    <3> QED
      BY <1>1, <3>1 DEF Known
  <2>2. CASE k > at
    <3>1. k \in (at + 1)..(Len(s) - 1) /\ k + 1 \in 1..Len(s)
      BY <1>1, <1>2, <2>2
    <3> QED
      BY <1>1, <3>1 DEF Known
  <2> QED
    BY <2>1, <2>2
<1> QED
  BY <1>3 DEF Known, t

(* The steps over the children leave the text and the walk over it alone    *)
LEMMA ChildStep ==
    ASSUME DocTypes, UNCHANGED <<Document!runtime, runs, position, offset, failed>>,
           delta' \in Seq(Items), nodes' \in Seq(Nat), Known(nodes'), retain' \in Int, counted' = 0,
           delta' # <<>> => delta'[1].kind \in {"add", "drop"}
    PROVE  DocTypes' /\ TextStage'
<1>1. Known(nodes)'
  BY DEF Known, Document!runtime
<1>2. DocTypes'
  BY <1>1 DEF DocTypes, Document!runtime
<1>3. TextStage'
  BY DEF TextStage, Changes
<1> QED
  BY <1>2, <1>3

LEMMA SkipSteps ==
    ASSUME DocTypes, ChildrenFollow, Document!Skip
    PROVE  /\ DocTypes' /\ TextStage' /\ ChildrenFollow'
           /\ delta' # <<>> => delta'[1].kind \in {"skip", "add", "drop"}
<1>1. /\ delta # <<>> /\ Document!op.kind = "skip" /\ delta' = Tail(delta) /\ counted' = 0
      /\ retain' = retain + Document!op.n
      /\ UNCHANGED <<Document!runtime, runs, nodes, position, offset, failed>>
  BY DEF Document!Skip, Document!Applying, Document!NextItem
<1>2. /\ Document!op = delta[1] /\ delta[1].n \in Nat /\ delta' \in Seq(Items)
      /\ Len(delta') = Len(delta) - 1 /\ Len(delta) \in Nat /\ Len(delta) >= 1
      /\ \A k \in 1..(Len(delta) - 1) : delta'[k] = delta[k + 1]
  BY <1>1, OpIs
<1>3. retain = 0 /\ ChildChange(2, delta[1].n)
  BY <1>1, <1>2 DEF ChildrenFollow
<1>4. retain' = delta[1].n /\ Len(delta) \in {2, 3}
  BY <1>1, <1>2, <1>3 DEF ChildChange
<1>5. /\ delta'[1] = delta[2] /\ (Len(delta) = 3 => delta'[2] = delta[3])
      /\ Len(delta') = Len(delta) - 1
  BY <1>2, <1>4
<1>6. delta'[1].kind \in {"add", "drop"}
  BY <1>3, <1>5 DEF ChildChange, Addition
<1>7. UNCHANGED <<children, childrenMade, rough, nodes>>
  BY <1>1 DEF Document!runtime
<1>8. ChildChange(1, retain)'
  <2>1. /\ Len(delta) = 2 <=> Len(delta') = 1
        /\ Len(delta) = 3 <=> Len(delta') = 2
    BY <1>4, <1>5
  <2> QED
    BY <1>3, <1>4, <1>5, <1>7, <2>1 DEF ChildChange, Addition, Known
<1>9. ChildrenFollow'
  <2>1. delta' # <<>>
    <3> SUFFICES ASSUME delta' = <<>> PROVE FALSE
      OBVIOUS
    <3>1. Len(<<>>) = 0
      OBVIOUS
    <3>2. Len(delta') = 0
      BY <3>1, Zenon
    <3> QED
      BY <1>4, <1>5, <3>2
  <2> QED
    BY <1>6, <1>8, <2>1 DEF ChildrenFollow, Changes
<1>10. Known(nodes') /\ nodes' \in Seq(Nat) /\ retain' \in Int
  BY <1>1, <1>2, <1>4 DEF DocTypes
<1> QED
  BY <1>1, <1>2, <1>6, <1>9, <1>10, ChildStep

LEMMA AddSteps ==
    ASSUME DocTypes, ChildrenFollow, Document!Add
    PROVE  DocTypes' /\ TextStage' /\ ChildrenFollow' /\ delta' = <<>>
<1>1. /\ delta # <<>> /\ Document!op.kind = "add" /\ delta' = Tail(delta) /\ counted' = 0
      /\ nodes' = Document!With(nodes, Document!Place, Document!op.new)
      /\ retain' = retain + Document!op.n
      /\ UNCHANGED <<Document!runtime, runs, position, offset, failed>>
  BY DEF Document!Add, Document!Applying, Document!NextItem
<1>2. /\ Document!op = delta[1] /\ delta[1].n \in Nat /\ delta[1].new \in Seq(Nat)
      /\ Len(delta) = 1 => Tail(delta) = <<>>
  BY <1>1, OpIs
<1>3. /\ Len(delta) = 1 /\ Addition(delta[1]) /\ retain >= -1 /\ retain <= Len(nodes)
      /\ Len(children) = Len(nodes) + 1
      /\ ~rough => retain >= 0 /\ children = Document!With(nodes, retain, delta[1].new)
  BY <1>1, <1>2 DEF ChildrenFollow, ChildChange
<1>4. /\ nodes \in Seq(Nat) /\ Known(nodes) /\ retain \in Int /\ Len(nodes) \in Nat
      /\ children \in Seq(Nat)
  BY DEF DocTypes
<1>5. Document!Place \in 0..Len(nodes) /\ (retain >= 0 => Document!Place = retain)
  BY <1>3, <1>4 DEF Document!Place
<1>6. nodes' \in Seq(Nat) /\ Len(nodes') = Len(nodes) + Len(delta[1].new)
  BY <1>1, <1>2, <1>4, <1>5, NumbersWith
<1>7. Known(nodes')
  BY <1>1, <1>2, <1>3, <1>4, <1>5, KnownWith DEF Addition
<1>8. delta' = <<>> /\ UNCHANGED <<children, childrenMade, rough>>
  BY <1>1, <1>2, <1>3 DEF Document!runtime
<1>9. retain' \in Int
  BY <1>1, <1>2, <1>4
<1>10. ChildrenSame'
  <2>1. Len(children') = Len(nodes')
    BY <1>3, <1>6, <1>8 DEF Addition
  <2>2. ~rough' => nodes' = children'
    BY <1>1, <1>2, <1>3, <1>5, <1>8
  <2> QED
    BY <2>1, <2>2 DEF ChildrenSame
<1>11. ChildrenFollow'
  BY <1>8, <1>10 DEF ChildrenFollow
<1>12. DocTypes' /\ TextStage'
  BY <1>1, <1>6, <1>7, <1>8, <1>9, NoItems, ChildStep
<1> QED
  BY <1>8, <1>11, <1>12

LEMMA DropSteps ==
    ASSUME DocTypes, ChildrenFollow, Document!Drop
    PROVE  /\ DocTypes' /\ TextStage' /\ ChildrenFollow'
           /\ delta' # <<>> => delta'[1].kind \in {"skip", "add", "drop"}
<1>1. /\ delta # <<>> /\ Document!op.kind = "drop" /\ delta' = Tail(delta) /\ counted' = 0
      /\ nodes' = Document!Without(nodes, Document!Place, Document!op.n)
      /\ retain' = retain - Document!op.n
      /\ UNCHANGED <<Document!runtime, runs, position, offset, failed>>
  BY DEF Document!Drop, Document!Applying, Document!NextItem
<1>2. /\ Document!op = delta[1] /\ delta[1].n \in Nat /\ Tail(delta) \in Seq(Items)
      /\ Len(Tail(delta)) = Len(delta) - 1
      /\ Len(delta) = 1 => Tail(delta) = <<>>
      /\ \A k \in 1..(Len(delta) - 1) : Tail(delta)[k] = delta[k + 1]
  BY <1>1, OpIs
<1>3. /\ delta[1].n = 1 /\ retain >= 0 /\ retain < Len(nodes)
      /\ \/ /\ Len(delta) = 1 /\ Len(children) = Len(nodes) - 1
            /\ ~rough => children = Document!Without(nodes, retain, 1)
         \/ /\ Len(delta) = 2 /\ Addition(delta[2]) /\ rough /\ Len(children) = Len(nodes)
  BY <1>1, <1>2 DEF ChildrenFollow, ChildChange, Addition
<1>4. /\ nodes \in Seq(Nat) /\ Known(nodes) /\ retain \in Int /\ Len(nodes) \in Nat
      /\ retain \in Nat /\ retain + 1 <= Len(nodes)
  BY <1>3 DEF DocTypes
<1>5. nodes' = Document!Without(nodes, retain, 1)
  BY <1>1, <1>2, <1>3 DEF Document!Place
<1>6. nodes' \in Seq(Nat) /\ Len(nodes') = Len(nodes) - 1
  BY <1>4, <1>5, OneLess
<1>7. Known(nodes')
  BY <1>4, <1>5, KnownWithout
<1>8. /\ UNCHANGED <<children, childrenMade, rough>> /\ retain' = retain - 1 /\ retain' \in Int
      /\ delta' \in Seq(Items)
  BY <1>1, <1>2, <1>3, <1>4 DEF Document!runtime
<1>9. CASE Len(delta) = 1
  <2>1. delta' = <<>>
    BY <1>1, <1>2, <1>9
  <2>2. ChildrenSame'
    BY <1>3, <1>5, <1>6, <1>8, <1>9 DEF ChildrenSame
  <2>3. ChildrenFollow'
    BY <2>1, <2>2 DEF ChildrenFollow
  <2> QED
    BY <1>1, <1>6, <1>7, <1>8, <2>1, <2>3, ChildStep
<1>10. CASE Len(delta) = 2
  <2>1. Len(delta') = 1 /\ delta'[1] = delta[2]
    <3>1. Len(delta') = Len(delta) - 1 /\ \A k \in 1..(Len(delta) - 1) : delta'[k] = delta[k + 1]
      BY <1>1, <1>2
    <3>2. 1 \in 1..(Len(delta) - 1) /\ Len(delta) - 1 = 1
      BY <1>10
    <3>3. delta'[1] = delta[1 + 1]
      BY <3>1, <3>2
    <3>4. Len(delta') = 1
      BY <3>1, <3>2
    <3>5. 1 + 1 = 2
      OBVIOUS
    <3> QED
      BY <3>3, <3>4, <3>5, Zenon
  <2>2. Addition(delta[2]) /\ rough /\ Len(children) = Len(nodes)
    BY <1>3, <1>10
  <2>3. Addition(delta[1])' /\ delta'[1].kind = "add"
    BY <1>8, <2>1, <2>2 DEF Addition, Known
  <2>4. retain' >= -1 /\ retain' <= Len(nodes') /\ Len(children') = Len(nodes') + 1
    BY <1>3, <1>4, <1>6, <1>8, <2>2
  <2>5. ChildChange(1, retain)'
    BY <1>8, <2>1, <2>2, <2>3, <2>4 DEF ChildChange
  <2>6. delta' # <<>>
    <3> SUFFICES ASSUME delta' = <<>> PROVE FALSE
      OBVIOUS
    <3>1. Len(<<>>) = 0
      OBVIOUS
    <3>2. Len(delta') = 0
      BY <3>1, Zenon
    <3> QED
      BY <2>1, <3>2
  <2>7. ChildrenFollow'
    BY <2>3, <2>5, <2>6 DEF ChildrenFollow, Changes
  <2> QED
    BY <1>1, <1>6, <1>7, <1>8, <2>3, <2>7, ChildStep
<1> QED
  BY <1>3, <1>9, <1>10

LEMMA NotEmpty ==
    ASSUME Len(delta') > 0
    PROVE  delta' # <<>>
<1> SUFFICES ASSUME delta' = <<>> PROVE FALSE
  OBVIOUS
<1>1. Len(<<>>) = 0
  OBVIOUS
<1>2. Len(delta') = 0
  BY <1>1, Zenon
<1> QED
  BY <1>2

(* What an edit of the children reports                                     *)
LEMMA ChildEdit ==
    ASSUME DocTypes, children' \in Seq(Nat), childrenMade' \in Nat, childrenMade' >= childrenMade,
           rough' \in BOOLEAN, UNCHANGED <<text, textMade>>,
           NEW change \in {"add", "drop"}, NEW at \in Nat, NEW n \in Nat, NEW new \in Seq(Nat),
           delta' \in Seq(Items), Len(delta') > 0,
           delta'[1].kind = IF at = 0 THEN change ELSE "skip",
           position' = 1, retain' = 0, offset' = 0, counted' = 0, UNCHANGED <<runs, nodes, failed>>
    PROVE  DocTypes' /\ TextStage' /\ delta' # <<>>
<1>1. /\ text \in Seq(Letter) /\ textMade \in 0..MaxText /\ runs \in Seq(TextRun)
      /\ nodes \in Seq(Nat) /\ Known(nodes) /\ failed \in BOOLEAN
      /\ childrenMade \in Nat /\ Len(runs) \in Nat
  BY DEF DocTypes
<1>2. Known(nodes)'
  BY <1>1 DEF Known
<1>3. position' \in 1..(Len(runs') + 1)
  BY <1>1
<1>4. DocTypes'
  BY <1>1, <1>2, <1>3 DEF DocTypes
<1>5. TextStage'
  BY DEF TextStage, Changes
<1> QED
  BY <1>4, <1>5, NotEmpty

LEMMA InsertChildSteps ==
    ASSUME DocTypes, ChildrenFollow, delta = <<>>, NEW at \in 0..Len(children),
           Document!InsertChild(at)
    PROVE  /\ DocTypes' /\ TextStage' /\ ChildrenFollow' /\ delta' # <<>>
           /\ delta'[1].kind \in {"skip", "add", "drop"}
<1> DEFINE new == <<childrenMade + 1>>
<1>1. /\ children' = Document!With(children, at, new) /\ childrenMade' = childrenMade + 1
      /\ Document!Report(Document!Delta("add", at, 1, new))
      /\ UNCHANGED <<text, textMade, rough>>
  BY DEF Document!InsertChild
<1>2. /\ children \in Seq(Nat) /\ Len(children) \in Nat /\ childrenMade \in Nat
      /\ nodes \in Seq(Nat) /\ rough \in BOOLEAN /\ at \in Nat /\ at <= Len(children)
  BY DEF DocTypes
<1>3. ChildrenSame
  BY DEF ChildrenFollow
<1>4. new \in Seq(Nat) /\ Len(new) = 1 /\ new[1] = childrenMade + 1
  BY <1>2
<1> HIDE DEF new
<1>5. children' \in Seq(Nat) /\ Len(children') = Len(children) + 1
  <2> DEFINE t == Document!With(children, at, new)
  <2>1. t \in Seq(Nat) /\ Len(t) = Len(children) + Len(new)
    BY <1>2, <1>4, NumbersWith
  <2> QED
    BY <1>1, <1>4, <2>1
<1>6. /\ delta' \in Seq(Items) /\ delta' # <<>>
      /\ at = 0 => Len(delta') = 1 /\ delta'[1] = Document!Item("add", 1, new)
      /\ at # 0 => /\ Len(delta') = 2 /\ delta'[1] = Document!Item("skip", at, <<>>)
                   /\ delta'[2] = Document!Item("add", 1, new)
      /\ position' = 1 /\ retain' = 0 /\ offset' = 0 /\ counted' = 0
      /\ UNCHANGED <<runs, nodes, failed>>
  <2>1. Skips("add") = "skip" /\ "add" \in ItemKinds
    BY DEF Skips, ItemKinds
  <2>2. 1 \in Nat
    OBVIOUS
  <2> QED
    BY <1>1, <1>2, <1>4, <2>1, <2>2, ReportIs
<1>7. /\ Document!Item("add", 1, new).kind = "add" /\ Document!Item("add", 1, new).n = 1
      /\ Document!Item("add", 1, new).new = new
      /\ Document!Item("skip", at, <<>>).kind = "skip" /\ Document!Item("skip", at, <<>>).n = at
  BY DEF Document!Item
<1>8. delta'[1].kind = IF at = 0 THEN "add" ELSE "skip"
  BY <1>6, <1>7
<1>9. DocTypes' /\ TextStage'
  <2>1. Len(delta') > 0
    BY <1>6
  <2>2. childrenMade' \in Nat /\ childrenMade' >= childrenMade /\ rough' \in BOOLEAN
    BY <1>1, <1>2
  <2>3. 1 \in Nat
    OBVIOUS
  <2> QED
    BY <1>1, <1>2, <1>4, <1>5, <1>6, <1>8, <2>1, <2>2, <2>3, ChildEdit
<1>10. ASSUME NEW j \in {1, 2}, Len(delta') = j, delta'[j] = Document!Item("add", 1, new)
       PROVE  /\ Addition(delta[j])'
              /\ (~rough) => children' = Document!With(nodes', at, delta'[j].new)
  <2>1. \A k \in 1..Len(new) : new[k] \in 1..childrenMade'
    BY <1>1, <1>2, <1>4
  <2>2. Addition(delta[j])'
    BY <1>4, <1>7, <1>10, <2>1 DEF Addition, Known
  <2>3. (~rough) => children' = Document!With(nodes', at, delta'[j].new)
    BY <1>1, <1>3, <1>6, <1>7, <1>10 DEF ChildrenSame
  <2> QED
    BY <2>2, <2>3
<1>11. at >= -1 /\ at >= 0 /\ at <= Len(nodes') /\ Len(children') = Len(nodes') + 1
  BY <1>2, <1>3, <1>5, <1>6 DEF ChildrenSame
<1>12. CASE at = 0
  <2>1. ChildChange(1, retain)'
    BY <1>1, <1>6, <1>10, <1>11, <1>12 DEF ChildChange
  <2> QED
    BY <1>6, <1>8, <1>9, <1>12, <2>1 DEF ChildrenFollow, Changes
<1>13. CASE at # 0
  <2>1. ChildChange(2, delta[1].n)'
    BY <1>1, <1>6, <1>7, <1>10, <1>11, <1>13 DEF ChildChange
  <2> QED
    BY <1>6, <1>8, <1>9, <1>13, <2>1 DEF ChildrenFollow, Changes
<1> QED
  BY <1>12, <1>13

LEMMA DeleteChildSteps ==
    ASSUME DocTypes, ChildrenFollow, delta = <<>>, NEW at \in 0..(Len(children) - 1),
           Document!DeleteChild(at)
    PROVE  /\ DocTypes' /\ TextStage' /\ ChildrenFollow' /\ delta' # <<>>
           /\ delta'[1].kind \in {"skip", "add", "drop"}
<1>1. /\ children' = Document!Without(children, at, 1)
      /\ Document!Report(Document!Delta("drop", at, 1, <<>>))
      /\ UNCHANGED <<text, textMade, childrenMade, rough>>
  BY DEF Document!DeleteChild
<1>2. /\ children \in Seq(Nat) /\ Len(children) \in Nat /\ childrenMade \in Nat
      /\ nodes \in Seq(Nat) /\ rough \in BOOLEAN /\ at \in Nat /\ at + 1 <= Len(children)
  BY DEF DocTypes
<1>3. ChildrenSame
  BY DEF ChildrenFollow
<1>4. children' \in Seq(Nat) /\ Len(children') = Len(children) - 1
  BY <1>1, <1>2, OneLess
<1>5. /\ <<>> \in Seq(Nat) /\ 1 \in Nat
  BY EmptySeq
<1>6. /\ delta' \in Seq(Items) /\ delta' # <<>>
      /\ at = 0 => Len(delta') = 1 /\ delta'[1] = Document!Item("drop", 1, <<>>)
      /\ at # 0 => /\ Len(delta') = 2 /\ delta'[1] = Document!Item("skip", at, <<>>)
                   /\ delta'[2] = Document!Item("drop", 1, <<>>)
      /\ position' = 1 /\ retain' = 0 /\ offset' = 0 /\ counted' = 0
      /\ UNCHANGED <<runs, nodes, failed>>
  <2>1. Skips("drop") = "skip" /\ "drop" \in ItemKinds
    BY DEF Skips, ItemKinds
  <2> QED
    BY <1>1, <1>2, <1>5, <2>1, ReportIs
<1>7. /\ Document!Item("drop", 1, <<>>).kind = "drop" /\ Document!Item("drop", 1, <<>>).n = 1
      /\ Document!Item("skip", at, <<>>).kind = "skip" /\ Document!Item("skip", at, <<>>).n = at
  BY DEF Document!Item
<1>8. delta'[1].kind = IF at = 0 THEN "drop" ELSE "skip"
  BY <1>6, <1>7
<1>9. DocTypes' /\ TextStage'
  <2>1. Len(delta') > 0
    BY <1>6
  <2>2. childrenMade' \in Nat /\ childrenMade' >= childrenMade /\ rough' \in BOOLEAN
    BY <1>1, <1>2
  <2> QED
    BY <1>1, <1>2, <1>4, <1>5, <1>6, <1>8, <2>1, <2>2, ChildEdit
<1>10. /\ at >= 0 /\ at < Len(nodes') /\ Len(children') = Len(nodes') - 1
       /\ ~rough' => children' = Document!Without(nodes', at, 1)
  BY <1>1, <1>2, <1>3, <1>4, <1>6 DEF ChildrenSame
<1>11. CASE at = 0
  <2>1. ChildChange(1, retain)'
    BY <1>6, <1>7, <1>10, <1>11 DEF ChildChange
  <2> QED
    BY <1>6, <1>8, <1>9, <1>11, <2>1 DEF ChildrenFollow, Changes
<1>12. CASE at # 0
  <2>1. ChildChange(2, delta[1].n)'
    BY <1>6, <1>7, <1>10, <1>12 DEF ChildChange
  <2> QED
    BY <1>6, <1>8, <1>9, <1>12, <2>1 DEF ChildrenFollow, Changes
<1> QED
  BY <1>11, <1>12

LEMMA ReplaceChildSteps ==
    ASSUME DocTypes, ChildrenFollow, delta = <<>>, NEW at \in 0..(Len(children) - 1),
           Document!ReplaceChild(at)
    PROVE  /\ DocTypes' /\ TextStage' /\ ChildrenFollow' /\ delta' # <<>> /\ rough'
<1> DEFINE new == <<childrenMade + 1>>
           drops == Document!Delta("drop", at, 1, <<>>)
           add == Document!Item("add", 1, new)
<1>1. /\ children' = Document!With(Document!Without(children, at, 1), at, new)
      /\ childrenMade' = childrenMade + 1 /\ rough' = TRUE
      /\ Document!Report(Append(drops, add)) /\ UNCHANGED <<text, textMade>>
  BY DEF Document!ReplaceChild
<1>2. /\ children \in Seq(Nat) /\ Len(children) \in Nat /\ childrenMade \in Nat
      /\ at \in Nat /\ at + 1 <= Len(children)
  BY DEF DocTypes
<1>3. ChildrenSame
  BY DEF ChildrenFollow
<1>4. new \in Seq(Nat) /\ Len(new) = 1 /\ new[1] = childrenMade + 1
  BY <1>2
<1>5. /\ <<>> \in Seq(Nat) /\ 1 \in Nat
  BY EmptySeq
<1>6. /\ drops \in Seq(Items)
      /\ at = 0 => Len(drops) = 1 /\ drops[1] = Document!Item("drop", 1, <<>>)
      /\ at # 0 => /\ Len(drops) = 2 /\ drops[1] = Document!Item("skip", at, <<>>)
                   /\ drops[2] = Document!Item("drop", 1, <<>>)
  <2>1. Skips("drop") = "skip" /\ "drop" \in ItemKinds
    BY DEF Skips, ItemKinds
  <2> QED
    <3>1. /\ drops \in Seq(Items)
          /\ at = 0 => Len(drops) = 1 /\ drops[1] = Document!Item("drop", 1, <<>>)
          /\ at # 0 => /\ Len(drops) = 2 /\ drops[1] = Document!Item(Skips("drop"), at, <<>>)
                       /\ drops[2] = Document!Item("drop", 1, <<>>)
      <4>1. "drop" \in ItemKinds /\ at \in Nat
        BY <1>2, <2>1
      <4> QED
        BY <1>5, <4>1, DeltaIs
    <3> QED
      BY <2>1, <3>1
<1>7. /\ Document!Item("drop", 1, <<>>).kind = "drop" /\ Document!Item("drop", 1, <<>>).n = 1
      /\ Document!Item("skip", at, <<>>).kind = "skip" /\ Document!Item("skip", at, <<>>).n = at
      /\ add.kind = "add" /\ add.n = 1 /\ add.new = new
  BY DEF Document!Item
<1>8. add \in Items
  BY <1>4, <1>5 DEF Document!Item, Items, ItemKinds
<1> HIDE DEF new, drops, add
<1>9. children' \in Seq(Nat) /\ Len(children') = Len(children)
  <2> DEFINE less == Document!Without(children, at, 1)
             t == Document!With(less, at, new)
  <2>1. less \in Seq(Nat) /\ Len(less) = Len(children) - 1
    BY <1>2, OneLess
  <2> HIDE DEF less
  <2>2. at \in 0..Len(less)
    BY <1>2, <2>1
  <2>3. t \in Seq(Nat) /\ Len(t) = Len(less) + Len(new)
    BY <1>4, <2>1, <2>2, NumbersWith
  <2> QED
    BY <1>1, <1>2, <1>4, <2>1, <2>3 DEF less
<1>10. /\ delta' = Append(drops, add)
       /\ position' = 1 /\ retain' = 0 /\ offset' = 0 /\ counted' = 0
       /\ UNCHANGED <<runs, nodes, failed>>
  BY <1>1 DEF Document!Report
<1>11. /\ delta' \in Seq(Items) /\ Len(delta') = Len(drops) + 1
       /\ \A k \in 1..Len(drops) : delta'[k] = drops[k]
       /\ delta'[Len(drops) + 1] = add
  BY <1>6, <1>8, <1>10, AppendProperties
<1>12. /\ at = 0 => /\ Len(delta') = 1 + 1 /\ delta'[1] = Document!Item("drop", 1, <<>>)
                    /\ delta'[1 + 1] = add
       /\ at # 0 => /\ Len(delta') = 2 + 1 /\ delta'[1] = Document!Item("skip", at, <<>>)
                    /\ delta'[2] = Document!Item("drop", 1, <<>>) /\ delta'[2 + 1] = add
  BY <1>6, <1>11
<1>13. delta'[1].kind = IF at = 0 THEN "drop" ELSE "skip"
  BY <1>7, <1>12
<1>14. /\ DocTypes' /\ TextStage' /\ delta' # <<>>
  <2>1. Len(delta') > 0
    BY <1>12
  <2>2. childrenMade' \in Nat /\ childrenMade' >= childrenMade /\ rough' \in BOOLEAN
    BY <1>1, <1>2
  <2> QED
    BY <1>1, <1>2, <1>5, <1>9, <1>10, <1>11, <1>13, <2>1, <2>2, ChildEdit
<1>15. at >= 0 /\ at < Len(nodes') /\ Len(children') = Len(nodes')
  BY <1>2, <1>3, <1>9, <1>10 DEF ChildrenSame
<1>16. \A k \in 1..Len(new) : new[k] \in 1..childrenMade'
  BY <1>1, <1>2, <1>4
<1>17. CASE at = 0
  <2>1. Addition(delta[1 + 1])'
    BY <1>4, <1>7, <1>12, <1>16, <1>17 DEF Addition, Known
  <2>2. ChildChange(1, retain)'
    BY <1>1, <1>7, <1>10, <1>12, <1>15, <1>17, <2>1 DEF ChildChange
  <2> QED
    BY <1>1, <1>13, <1>14, <1>17, <2>2 DEF ChildrenFollow, Changes
<1>18. CASE at # 0
  <2>1. Addition(delta[2 + 1])'
    BY <1>4, <1>7, <1>12, <1>16, <1>18 DEF Addition, Known
  <2>2. ChildChange(2, delta[1].n)'
    BY <1>1, <1>7, <1>12, <1>15, <1>18, <2>1 DEF ChildChange
  <2>3. retain' = 0
    BY <1>10
  <2> QED
    BY <1>1, <1>13, <1>14, <1>18, <2>2, <2>3 DEF ChildrenFollow, Changes
<1> QED
  BY <1>17, <1>18

LEMMA TextStepsChildren ==
    ASSUME ChildrenFollow, UNCHANGED <<children, nodes>>, rough => rough',
           delta = <<>> \/ delta[1].kind \in Changes \cup {"retain"},
           delta' = <<>> \/ delta'[1].kind \in Changes \cup {"retain"}
    PROVE  ChildrenFollow'
<1>1. ChildrenSame
  BY DEF ChildrenFollow
<1>2. ChildrenSame'
  BY <1>1 DEF ChildrenSame
<1>3. delta' # <<>> => delta'[1].kind \notin {"skip", "add", "drop"}
  BY DEF Changes
<1> QED
  BY <1>2, <1>3 DEF ChildrenFollow

-----------------------------------------------------------------------------
(* The text: the runs spell the word the walk has come to                   *)
Chars == Document!Characters
Marked(p) == \E q \in 1..Len(text) : text[q].bold /\ p <= q
Change == delta[Len(delta)]

(* Between two deltas the runs spell the text, and the last one of several  *)
(* does not begin behind the formatted characters.                          *)
TextStill ==
    \E cut : /\ Spelt(cut, runs, Chars) /\ Len(runs) > 0
             /\ Len(runs) > 1 => Marked(cut[Len(runs) - 1])

(* The walk is on its way to the place at, or stands in the run of it       *)
Found(at, cut) ==
    \/ /\ Len(delta) = 2 /\ delta[1].kind = "retain" /\ delta[1].n = at /\ at > 0
       /\ \/ counted = 0 /\ position = 1 /\ offset = 0 /\ retain = 0
          \/ /\ counted = 1 /\ retain = at /\ position <= Len(runs)
             /\ offset = cut[position - 1] /\ offset < at
    \/ /\ Len(delta) = 1 /\ retain = at /\ counted = 0 /\ position <= Len(runs)
       /\ offset = cut[position - 1] /\ offset <= at /\ at <= cut[position]

(* An insert: the runs spell the word before it                             *)
InsertWalk ==
    \E word \in Seq(Nat), at \in Nat : \E cut :
        /\ Spelt(cut, runs, word) /\ Len(runs) > 0 /\ at <= Len(word)
        /\ WordWith(word, at, Change.new, Chars) /\ Len(Change.new) = Change.n
        /\ Found(at, cut)
        /\ Len(runs) > 1 =>
               Marked(IF at <= cut[Len(runs) - 1] THEN cut[Len(runs) - 1] + Change.n
                      ELSE cut[Len(runs) - 1])

WordWithout(word, p, word2) ==
    /\ word2 \in Seq(Nat) /\ Len(word2) = Len(word) - 1
    /\ \A k \in 1..p : word2[k] = word[k]
    /\ \A k \in (p + 1)..(Len(word) - 1) : word2[k] = word[k + 1]

(* A delete: the one run is the word before it, or already the one after    *)
DeleteWalk ==
    /\ Len(runs) = 1 /\ Change.n = 1
    /\ \/ \E word \in Seq(Nat), at \in Nat : \E cut :
              /\ Spelt(cut, runs, word) /\ Len(word) > 1 /\ at < Len(word)
              /\ WordWithout(word, at, Chars) /\ Found(at, cut)
       \/ (\E cut : Spelt(cut, runs, Chars)) /\ Len(delta) = 1 /\ counted > 0

(* A format: the runs spell the text, and the last one begins no later than *)
(* the stretch, or its end once it is formatted                             *)
FormatWalk ==
    \E at \in Nat : \E cut :
        /\ Spelt(cut, runs, Chars) /\ Len(runs) > 0
        /\ Change.n > 0 /\ at + Change.n <= Len(text) /\ text[at + Change.n].bold
        /\ \/ Found(at, cut) /\ cut[Len(runs) - 1] <= at
           \/ Len(delta) = 1 /\ counted >= Change.n /\ cut[Len(runs) - 1] <= at + Change.n

TextFollows ==
    ~rough =>
        /\ ~failed
        /\ delta = <<>> \/ delta[1].kind \in {"skip", "add", "drop"} => TextStill
        /\ delta # <<>> =>
               /\ Change.kind = "insert" => InsertWalk
               /\ Change.kind = "delete" => DeleteWalk
               /\ Change.kind = "format" => FormatWalk

LEMMA LettersSpell ==
    ASSUME NEW t \in Seq(Letter)
    PROVE  LET word == [k \in 1..Len(t) |-> t[k].c] IN
           /\ word \in Seq(Nat) /\ Len(word) = Len(t)
           /\ \A k \in 1..Len(t) : word[k] = t[k].c /\ t[k].bold \in BOOLEAN
<1>1. Len(t) \in Nat
  OBVIOUS
<1>2. ASSUME NEW k \in 1..Len(t) PROVE t[k].c \in Nat /\ t[k].bold \in BOOLEAN
  <2>1. t[k] \in Letter
    OBVIOUS
  <2>2. t[k].c \in 1..MaxText /\ t[k].bold \in BOOLEAN
    BY <2>1 DEF Letter
  <2> QED
    BY <2>2, PartsAssumption
<1> QED
  BY <1>1, <1>2

LEMMA CharsAre ==
    ASSUME DocTypes
    PROVE  /\ text \in Seq(Letter) /\ Len(text) \in Nat
           /\ Chars \in Seq(Nat) /\ Len(Chars) = Len(text)
           /\ \A k \in 1..Len(text) : Chars[k] = text[k].c /\ text[k].bold \in BOOLEAN
<1>1. text \in Seq(Letter)
  BY DEF DocTypes
<1>2. Len(text) \in Nat
  BY <1>1
<1> QED
  BY <1>1, <1>2, LettersSpell DEF Chars, Document!Characters

LEMMA NextChars ==
    ASSUME text' \in Seq(Letter)
    PROVE  /\ Len(text') \in Nat
           /\ Chars' \in Seq(Nat) /\ Len(Chars') = Len(text')
           /\ \A k \in 1..Len(text') : Chars'[k] = text'[k].c /\ text'[k].bold \in BOOLEAN
<1>1. Len(text') \in Nat
  OBVIOUS
<1>2. Chars' = [k \in 1..Len(text') |-> text'[k].c]
  BY DEF Chars, Document!Characters
<1> QED
  BY <1>1, <1>2, LettersSpell

(* A delta that has been reported leads to its place                        *)
LEMMA FoundAtOnce ==
    ASSUME DocTypes, NEW change \in Changes, NEW at \in Nat, NEW n \in Nat, NEW new \in Seq(Nat),
           Document!Report(Document!Delta(change, at, n, new)),
           NEW cut, Len(runs) > 0, cut[0] = 0, cut[1] \in Nat
    PROVE  /\ Found(at, cut)' /\ Change' = Document!Item(change, n, new)
           /\ Change'.kind = change /\ Change'.n = n /\ Change'.new = new
           /\ delta' # <<>> /\ delta'[1].kind \in Changes \cup {"retain"}
<1>1. change \in ItemKinds /\ Skips(change) = "retain"
  BY DEF ItemKinds, Changes, Skips
<1>2. /\ delta' # <<>>
      /\ at = 0 => Len(delta') = 1 /\ delta'[1] = Document!Item(change, n, new)
      /\ at # 0 => /\ Len(delta') = 2 /\ delta'[1] = Document!Item("retain", at, <<>>)
                   /\ delta'[2] = Document!Item(change, n, new)
      /\ position' = 1 /\ retain' = 0 /\ offset' = 0 /\ counted' = 0 /\ runs' = runs
  BY <1>1, ReportIs
<1>3. Change' = Document!Item(change, n, new)
  BY <1>2 DEF Change
<1>4. /\ Document!Item(change, n, new).kind = change /\ Document!Item(change, n, new).n = n
      /\ Document!Item(change, n, new).new = new
      /\ Document!Item("retain", at, <<>>).kind = "retain"
      /\ Document!Item("retain", at, <<>>).n = at
  BY DEF Document!Item
<1>5. runs \in Seq(TextRun) /\ Len(runs) \in Nat
  BY DEF DocTypes
<1>6. CASE at = 0
  <2>1. position' - 1 = 0 /\ position' <= Len(runs')
    BY <1>2, <1>5
  <2>2. offset' = cut[position' - 1] /\ offset' <= at /\ at <= cut[position']
    BY <1>2, <1>6, <2>1
  <2>3. Found(at, cut)'
    BY <1>2, <1>6, <2>1, <2>2 DEF Found
  <2> QED
    BY <1>2, <1>3, <1>4, <1>6, <2>3
<1>7. CASE at # 0
  <2>1. at > 0
    BY <1>7
  <2>2. Found(at, cut)'
    BY <1>2, <1>4, <1>7, <2>1 DEF Found
  <2> QED
    BY <1>2, <1>3, <1>4, <1>7, <2>2
<1> QED
  BY <1>6, <1>7

LEMMA InsertTextFollows ==
    ASSUME DocTypes, TextStill, NEW at \in 0..Len(text), NEW n \in 1..MaxText,
           Document!InsertText(at, n)
    PROVE  InsertWalk' /\ Change'.kind = "insert"
<1> DEFINE new == NewCharacters(n)
           letters == NewLetters(at, n)
<1>1. /\ new \in Seq(Nat) /\ Len(new) = n /\ n \in Nat /\ at \in Nat
      /\ letters \in Seq(Letter) /\ Len(letters) = n
      /\ text' = Document!With(text, at, letters) /\ text' \in Seq(Letter)
      /\ Document!Report(Document!Delta("insert", at, n, new))
  BY InsertTextIs
<1>2. n >= 1 /\ at <= Len(text)
  BY <1>1, CharsAre, PartsAssumption
<1>3. \A k \in 1..n : letters[k].c = new[k] /\ letters[k].bold = (at > 0 /\ text[at].bold)
  BY DEF NewLetters
<1> HIDE DEF new, letters
<1>4. /\ text \in Seq(Letter) /\ Len(text) \in Nat
      /\ Chars \in Seq(Nat) /\ Len(Chars) = Len(text)
      /\ \A k \in 1..Len(text) : Chars[k] = text[k].c
  BY CharsAre
<1>5. /\ Len(text') = Len(text) + n
      /\ \A k \in 1..at : text'[k] = text[k]
      /\ \A k \in 1..n : text'[at + k] = letters[k]
      /\ \A k \in (at + 1)..Len(text) : text'[k + n] = text[k]
  <2> DEFINE t == Document!With(text, at, letters)
  <2>1. /\ Len(t) = Len(text) + Len(letters)
        /\ \A k \in 1..at : t[k] = text[k]
        /\ \A k \in 1..Len(letters) : t[at + k] = letters[k]
        /\ \A k \in (at + 1)..Len(text) : t[k + Len(letters)] = text[k]
    BY <1>1, <1>4, LettersWith
  <2> QED
    BY <1>1, <2>1
<1>6. /\ Chars' \in Seq(Nat) /\ Len(Chars') = Len(text')
      /\ \A k \in 1..Len(text') : Chars'[k] = text'[k].c
  BY <1>1, NextChars
<1>7. WordWith(Chars, at, new, Chars')
  <2>1. ASSUME NEW k \in 1..at PROVE Chars'[k] = Chars[k]
    <3>1. k \in 1..Len(text) /\ k \in 1..Len(text')
      BY <1>1, <1>2, <1>4, <1>5
    <3> QED
      BY <1>4, <1>5, <1>6, <3>1
  <2>2. ASSUME NEW k \in 1..n PROVE Chars'[at + k] = new[k]
    <3>1. at + k \in 1..Len(text')
      BY <1>1, <1>2, <1>4, <1>5
    <3> QED
      BY <1>3, <1>5, <1>6, <3>1
  <2>3. ASSUME NEW k \in (at + 1)..Len(text) PROVE Chars'[k + n] = Chars[k]
    <3>1. k \in 1..Len(text) /\ k + n \in 1..Len(text')
      BY <1>1, <1>2, <1>4, <1>5
    <3> QED
      BY <1>4, <1>5, <1>6, <3>1
  <2> QED
    BY <1>1, <1>4, <1>5, <1>6, <2>1, <2>2, <2>3 DEF WordWith
<1>8. PICK cut : /\ Spelt(cut, runs, Chars) /\ Len(runs) > 0
                 /\ Len(runs) > 1 => Marked(cut[Len(runs) - 1])
  BY DEF TextStill
<1>9. runs \in Seq(TextRun) /\ Len(runs) \in Nat
  BY DEF DocTypes
<1>10. /\ \A k \in 0..Len(runs) : cut[k] \in Nat /\ cut[k] <= Len(Chars)
       /\ cut[0] = 0
  BY <1>4, <1>8, <1>9, SpeltIs
<1>11. "insert" \in Changes /\ cut[1] \in Nat
  BY <1>8, <1>9, <1>10 DEF Changes
<1>12. /\ Found(at, cut)' /\ Change'.kind = "insert" /\ Change'.n = n /\ Change'.new = new
  BY <1>1, <1>8, <1>10, <1>11, FoundAtOnce
<1>13. runs' = runs
  BY <1>1 DEF Document!Report
<1>14. ASSUME NEW last \in Nat, Marked(last)
       PROVE  Marked(IF at <= last THEN last + n ELSE last)'
  <2>1. PICK q \in 1..Len(text) : text[q].bold /\ last <= q
    BY <1>14 DEF Marked
  <2>2. CASE q <= at
    <3>1. CASE at <= last
      <4>1. q = at /\ q = last /\ at > 0
        BY <1>1, <2>1, <2>2, <3>1
      <4>2. letters[n].bold
        <5>1. at > 0 /\ text[at].bold
          BY <2>1, <4>1
        <5>2. letters[n].bold = (at > 0 /\ text[at].bold)
          BY <1>1, <1>2, <1>3
        <5> QED
          BY <5>1, <5>2, Zenon
      <4>3. at + n \in 1..Len(text') /\ n \in 1..n /\ last + n <= at + n
        BY <1>1, <1>2, <1>4, <1>5, <4>1
      <4>4. text'[at + n].bold
        BY <1>5, <4>2, <4>3
      <4> QED
        BY <3>1, <4>3, <4>4 DEF Marked
    <3>2. CASE ~(at <= last)
      <4>1. q \in 1..at /\ q \in 1..Len(text')
        BY <1>1, <1>4, <1>5, <2>1, <2>2
      <4>2. text'[q].bold
        BY <1>5, <2>1, <4>1
      <4> QED
        BY <2>1, <3>2, <4>1, <4>2 DEF Marked
    <3> QED
      BY <3>1, <3>2
  <2>3. CASE ~(q <= at)
    <3>1. /\ q \in (at + 1)..Len(text) /\ q + n \in 1..Len(text')
          /\ (IF at <= last THEN last + n ELSE last) <= q + n
      BY <1>1, <1>4, <1>5, <2>1, <2>3
    <3>2. text'[q + n].bold
      BY <1>5, <2>1, <3>1
    <3> QED
      BY <3>1, <3>2 DEF Marked
  <2> QED
    BY <2>2, <2>3
<1>15. Len(runs') > 1 =>
           Marked(IF at <= cut[Len(runs) - 1] THEN cut[Len(runs) - 1] + Change.n
                  ELSE cut[Len(runs) - 1])'
  <2> SUFFICES ASSUME Len(runs) > 1
               PROVE  Marked(IF at <= cut[Len(runs) - 1] THEN cut[Len(runs) - 1] + Change.n
                             ELSE cut[Len(runs) - 1])'
    BY <1>13
  <2>0. PICK last : last = cut[Len(runs) - 1]
    OBVIOUS
  <2>1. last \in Nat /\ Marked(last)
    BY <1>8, <1>9, <1>10, <2>0
  <2>2. Marked(IF at <= last THEN last + n ELSE last)'
    BY <1>14, <2>1
  <2> QED
    BY <1>12, <1>13, <2>0, <2>2 DEF Marked
<1>16. InsertWalk'
  <2>1. at <= Len(Chars) /\ Len(runs') > 0 /\ Spelt(cut, runs', Chars)
    BY <1>2, <1>4, <1>8, <1>13
  <2>2. WordWith(Chars, at, Change'.new, Chars') /\ Len(Change'.new) = Change'.n
    BY <1>1, <1>7, <1>12
  <2> DEFINE word == Chars
  <2>3. word \in Seq(Nat)
    BY <1>4
  <2> HIDE DEF word
  <2> QED
    BY <1>1, <1>12, <1>15, <2>1, <2>2, <2>3 DEF InsertWalk, word
<1> QED
  BY <1>12, <1>16

LEMMA DeleteTextFollows ==
    ASSUME DocTypes, TextStill, NEW at \in 0..Len(text), NEW n \in 1..(Len(text) - at),
           Document!DeleteText(at, n), ~rough'
    PROVE  DeleteWalk' /\ Change'.kind = "delete"
<1>1. /\ at \in Nat /\ n \in Nat /\ n >= 1 /\ at + n <= Len(text)
      /\ text' = Document!Without(text, at, n) /\ text' \in Seq(Letter)
      /\ rough' = (rough \/ n > 1 \/ Len(text) = 1 \/ \E k \in 1..Len(text) : text[k].bold)
      /\ Document!Report(Document!Delta("delete", at, n, <<>>))
  BY DeleteTextIs
<1>2. /\ text \in Seq(Letter) /\ Len(text) \in Nat
      /\ Chars \in Seq(Nat) /\ Len(Chars) = Len(text)
      /\ \A k \in 1..Len(text) : Chars[k] = text[k].c
  BY CharsAre
<1>3. ~(n > 1) /\ Len(text) # 1 /\ ~(\E k \in 1..Len(text) : text[k].bold)
  BY <1>1, Zenon
<1>4. n = 1 /\ Len(text) > 1 /\ at < Len(text) /\ at + 1 <= Len(text)
  BY <1>1, <1>2, <1>3
<1>5. /\ Len(text') = Len(text) - 1
      /\ \A k \in 1..at : text'[k] = text[k]
      /\ \A k \in (at + 1)..(Len(text) - 1) : text'[k] = text[k + 1]
  <2> DEFINE t == Document!Without(text, at, n)
  <2>1. /\ Len(t) = Len(text) - n
        /\ \A k \in 1..at : t[k] = text[k]
        /\ \A k \in (at + 1)..(Len(text) - n) : t[k] = text[k + n]
    BY <1>1, <1>2, LettersWithout
  <2> QED
    BY <1>1, <1>4, <2>1
<1>6. /\ Chars' \in Seq(Nat) /\ Len(Chars') = Len(text')
      /\ \A k \in 1..Len(text') : Chars'[k] = text'[k].c
  BY <1>1, NextChars
<1>7. WordWithout(Chars, at, Chars')
  <2>1. ASSUME NEW k \in 1..at PROVE Chars'[k] = Chars[k]
    <3>1. k \in 1..Len(text) /\ k \in 1..Len(text')
      BY <1>1, <1>2, <1>4, <1>5
    <3> QED
      BY <1>2, <1>5, <1>6, <3>1
  <2>2. ASSUME NEW k \in (at + 1)..(Len(text) - 1) PROVE Chars'[k] = Chars[k + 1]
    <3>1. k + 1 \in 1..Len(text) /\ k \in 1..Len(text')
      BY <1>1, <1>2, <1>4, <1>5
    <3> QED
      BY <1>2, <1>5, <1>6, <3>1
  <2> QED
    BY <1>2, <1>5, <1>6, <2>1, <2>2 DEF WordWithout
<1>8. PICK cut : /\ Spelt(cut, runs, Chars) /\ Len(runs) > 0
                 /\ Len(runs) > 1 => Marked(cut[Len(runs) - 1])
  BY DEF TextStill
<1>9. runs \in Seq(TextRun) /\ Len(runs) \in Nat
  BY DEF DocTypes
<1>10. Len(runs) = 1
  <2>1. ~Marked(cut[Len(runs) - 1])
    BY <1>3 DEF Marked
  <2>2. ~(Len(runs) > 1) /\ Len(runs) > 0
    BY <1>8, <2>1, Zenon
  <2>3. PICK m \in Nat : m = Len(runs)
    BY <1>9
  <2>4. m = 1
    BY <2>2, <2>3
  <2> QED
    BY <2>3, <2>4
<1>11. cut[0] = 0 /\ cut[1] \in Nat
  BY <1>2, <1>8, <1>9, <1>10, SpeltIs
<1>12. Found(at, cut)' /\ Change'.kind = "delete" /\ Change'.n = n
  <2>1. "delete" \in Changes /\ <<>> \in Seq(Nat)
    BY EmptySeq DEF Changes
  <2> QED
    BY <1>1, <1>8, <1>11, <2>1, FoundAtOnce
<1>13. runs' = runs
  BY <1>1 DEF Document!Report
<1>14. PICK word \in Seq(Nat) : word = Chars
  BY <1>2
<1>15. /\ Spelt(cut, runs', word) /\ Len(word) > 1 /\ at < Len(word)
       /\ WordWithout(word, at, Chars')
  BY <1>2, <1>4, <1>7, <1>8, <1>13, <1>14
<1> QED
  BY <1>1, <1>4, <1>10, <1>12, <1>13, <1>15 DEF DeleteWalk

LEMMA FormatTextFollows ==
    ASSUME DocTypes, TextStill, NEW at \in 0..Len(text), NEW n \in 1..(Len(text) - at),
           Document!FormatText(at, n), ~rough'
    PROVE  FormatWalk' /\ Change'.kind = "format"
<1>1. /\ at \in Nat /\ n \in Nat /\ n >= 1 /\ at + n <= Len(text)
      /\ \A k \in (at + 1)..(at + n) : ~text[k].bold
      /\ text' \in Seq(Letter) /\ Len(text') = Len(text)
      /\ \A k \in 1..Len(text) : text'[k].c = text[k].c
      /\ text'[at + n].bold
      /\ rough' = (rough \/ \E k \in (at + n + 1)..Len(text) : text[k].bold)
      /\ Document!Report(Document!Delta("format", at, n, <<>>))
  BY FormatTextIs
<1>2. /\ text \in Seq(Letter) /\ Len(text) \in Nat
      /\ Chars \in Seq(Nat) /\ Len(Chars) = Len(text)
      /\ \A k \in 1..Len(text) : Chars[k] = text[k].c
  BY CharsAre
<1>3. ~(\E k \in (at + n + 1)..Len(text) : text[k].bold)
  BY <1>1, Zenon
<1>4. Chars' = Chars
  <2>1. /\ Chars' \in Seq(Nat) /\ Len(Chars') = Len(text')
        /\ \A k \in 1..Len(text') : Chars'[k] = text'[k].c
    BY <1>1, NextChars
  <2>2. \A k \in 1..Len(Chars) : Chars'[k] = Chars[k]
    BY <1>1, <1>2, <2>1
  <2> QED
    BY <1>1, <1>2, <2>1, <2>2, SeqEqual
<1>5. PICK cut : /\ Spelt(cut, runs, Chars) /\ Len(runs) > 0
                 /\ Len(runs) > 1 => Marked(cut[Len(runs) - 1])
  BY DEF TextStill
<1>6. runs \in Seq(TextRun) /\ Len(runs) \in Nat /\ Spelt(cut, runs, Chars) /\ Len(runs) > 0
  BY <1>5 DEF DocTypes
<1>7. /\ \A k \in 0..Len(runs) : cut[k] \in Nat
      /\ cut[0] = 0
  BY <1>2, <1>6, SpeltIs
<1>8. cut[1] \in Nat /\ "format" \in Changes /\ <<>> \in Seq(Nat)
  BY <1>6, <1>7, EmptySeq DEF Changes
<1>9. Found(at, cut)' /\ Change'.kind = "format" /\ Change'.n = n
  <2>1. /\ at \in Nat /\ n \in Nat /\ cut[0] = 0
        /\ Document!Report(Document!Delta("format", at, n, <<>>))
    BY <1>1, <1>7
  <2> QED
    BY <1>6, <1>8, <2>1, FoundAtOnce
<1>10. cut[Len(runs) - 1] <= at
  <2>1. CASE Len(runs) = 1
    BY <1>1, <1>7, <2>1
  <2>2. CASE Len(runs) > 1
    <3>1. PICK q \in 1..Len(text) : text[q].bold /\ cut[Len(runs) - 1] <= q
      BY <1>5, <2>2 DEF Marked
    <3>2. q \notin (at + n + 1)..Len(text) /\ q \notin (at + 1)..(at + n)
      BY <1>1, <1>3, <3>1
    <3>3. q <= at
      BY <1>1, <1>2, <3>1, <3>2
    <3>4. cut[Len(runs) - 1] \in Nat
      BY <1>6, <1>7, <2>2
    <3> QED
      BY <1>1, <3>1, <3>3, <3>4
  <2>3. PICK m \in Nat : m = Len(runs)
    BY <1>6
  <2>4. m = 1 \/ m > 1
    BY <1>6, <2>3
  <2> QED
    BY <2>1, <2>2, <2>3, <2>4
<1>11. runs' = runs
  BY <1>1 DEF Document!Report
<1>12. /\ Spelt(cut, runs', Chars') /\ Len(runs') > 0 /\ cut[Len(runs') - 1] <= at
       /\ Change'.n > 0 /\ at + Change'.n <= Len(text') /\ text'[at + Change'.n].bold
  BY <1>1, <1>4, <1>6, <1>9, <1>10, <1>11
<1> QED
  BY <1>1, <1>9, <1>12 DEF FormatWalk

(* The walk goes on to the run of the place                                 *)
LEMMA WalkStep ==
    ASSUME DocTypes, TextStage, Document!Retain \/ Document!Advance
    PROVE  /\ delta # <<>> /\ delta[1].kind = "retain" /\ Len(delta) = 2 /\ delta[2].kind \in Changes
           /\ delta' # <<>> /\ Change' = Change /\ Change = delta[2]
           /\ delta'[1].kind \in Changes \cup {"retain"}
           /\ UNCHANGED <<text, runs, failed, rough, nodes, children>> /\ Chars' = Chars
           /\ Len(delta') = 2 \/ Len(delta') = 1
<1>1. /\ delta # <<>> /\ Document!op.kind = "retain"
      /\ UNCHANGED <<Document!runtime, nodes, runs, failed>>
      /\ UNCHANGED delta \/ delta' = Tail(delta)
  BY DEF Document!Retain, Document!Advance, Document!Applying, Document!NextItem
<1>2. /\ Document!op = delta[1]
      /\ Len(Tail(delta)) = Len(delta) - 1
      /\ \A k \in 1..(Len(delta) - 1) : Tail(delta)[k] = delta[k + 1]
  BY <1>1, OpIs
<1>3. Len(delta) = 2 /\ delta[2].kind \in Changes /\ delta[1].kind = "retain"
  BY <1>1, <1>2 DEF TextStage
<1>4. UNCHANGED <<text, children, rough>>
  BY <1>1 DEF Document!runtime
<1>5. Chars' = Chars
  BY <1>4 DEF Chars, Document!Characters
<1>6. Change = delta[2]
  BY <1>3 DEF Change
<1>7. CASE UNCHANGED delta
  BY <1>1, <1>3, <1>4, <1>5, <1>6, <1>7 DEF Change
<1>8. CASE delta' = Tail(delta)
  <2>1. 1 \in 1..(Len(delta) - 1) /\ 1 + 1 = 2 /\ Len(delta') = 1
    BY <1>2, <1>3, <1>8
  <2>2. delta'[1] = delta[1 + 1]
    BY <1>2, <1>8, <2>1
  <2>3. delta'[1] = delta[2]
    BY <2>1, <2>2, Zenon
  <2>4. delta' # <<>>
    BY <2>1, NotEmpty
  <2>5. Change' = delta'[1]
    BY <2>1 DEF Change
  <2> QED
    BY <1>1, <1>3, <1>4, <1>5, <1>6, <2>1, <2>3, <2>4, <2>5
<1> QED
  BY <1>1, <1>7, <1>8

LEMMA WalkGoesOn ==
    ASSUME DocTypes, TextStage, Document!Retain \/ Document!Advance,
           NEW word \in Seq(Nat), NEW cut, Spelt(cut, runs, word), NEW at \in Nat, at <= Len(word),
           Found(at, cut)
    PROVE  Found(at, cut)'
<1>1. /\ delta # <<>> /\ delta[1].kind = "retain" /\ Len(delta) = 2 /\ runs' = runs
  BY WalkStep
<1>2. /\ delta[1].n = at /\ at > 0
      /\ \/ counted = 0 /\ position = 1 /\ offset = 0 /\ retain = 0
         \/ /\ counted = 1 /\ retain = at /\ position <= Len(runs)
            /\ offset = cut[position - 1] /\ offset < at
  BY <1>1 DEF Found
<1>3. /\ Document!op = delta[1] /\ delta[1].n \in Nat /\ Len(Tail(delta)) = Len(delta) - 1
  BY <1>1, OpIs
<1>4. /\ runs \in Seq(TextRun) /\ Len(runs) \in Nat /\ position \in Nat /\ position >= 1
      /\ offset \in Nat /\ retain \in Int
  BY DEF DocTypes
<1>5. /\ \A k \in 0..Len(runs) : cut[k] \in Nat
      /\ cut[0] = 0 /\ cut[Len(runs)] = Len(word) /\ Len(word) \in Nat
  BY <1>4, SpeltIs
<1>6. CASE Document!Retain
  <2>1. /\ counted = 0 /\ retain' = retain + Document!op.n /\ counted' = 1
        /\ UNCHANGED <<delta, position, offset>>
    BY <1>6 DEF Document!Retain
  <2>2. position = 1 /\ offset = 0 /\ retain' = at
    BY <1>2, <1>3, <1>4, <2>1
  <2>3. Len(runs) > 0
    <3>1. Len(runs) # 0
      BY <1>2, <1>5
    <3> QED
      BY <1>4, <3>1
  <2>4. position' <= Len(runs') /\ offset' = cut[position' - 1] /\ offset' < at
    BY <1>1, <1>2, <1>4, <1>5, <2>1, <2>2, <2>3
  <2> QED
    BY <1>1, <1>2, <2>1, <2>2, <2>4 DEF Found
<1>7. CASE Document!Advance
  <2>1. counted = 1 /\ UNCHANGED retain
    BY <1>7 DEF Document!Advance
  <2>2. /\ retain = at /\ position <= Len(runs) /\ offset = cut[position - 1] /\ offset < at
    BY <1>2, <2>1
  <2>3. /\ Document!here = runs[position].insert /\ position \in 1..Len(runs)
    BY <2>2, HereIs
  <2>4. /\ Len(Document!here) = cut[position] - cut[position - 1]
        /\ cut[position] \in Nat /\ cut[position - 1] \in Nat
    BY <1>4, <1>5, <2>3, SpeltIs
  <2>5. offset + Len(Document!here) = cut[position]
    BY <2>2, <2>4
  <2>6. CASE retain > offset + Len(Document!here)
    <3>1. /\ offset' = offset + Len(Document!here) /\ position' = position + 1
          /\ UNCHANGED <<delta, counted>>
      BY <1>7, <2>6 DEF Document!Advance
    <3>2. offset' = cut[position] /\ offset' < at
      BY <2>2, <2>4, <2>5, <2>6, <3>1
    <3>3. position # Len(runs)
      BY <1>5, <2>2, <2>5, <2>6
    <3>4. position' <= Len(runs') /\ position' - 1 = position
      BY <1>1, <1>4, <2>2, <3>1, <3>3
    <3> QED
      BY <1>1, <1>2, <2>1, <2>2, <3>1, <3>2, <3>4 DEF Found
  <2>7. CASE ~(retain > offset + Len(Document!here))
    <3>1. delta' = Tail(delta) /\ counted' = 0 /\ UNCHANGED <<position, offset>>
      BY <1>7, <2>7 DEF Document!Advance, Document!NextItem
    <3>2. Len(delta') = 1
      BY <1>1, <1>3, <3>1
    <3>3. offset <= at
      BY <1>4, <2>2
    <3>4. at <= cut[position]
      <4> PICK c : c = cut[position]
        OBVIOUS
      <4>1. c \in Nat /\ offset + Len(Document!here) = c
        BY <2>4, <2>5
      <4>2. retain <= c
        BY <1>4, <2>7, <4>1
      <4> QED
        BY <2>2, <4>2
    <3>5. Found(at, cut)'
      <4>1. Len(delta') = 1 /\ retain' = at /\ counted' = 0 /\ position' <= Len(runs')
        BY <1>1, <2>1, <2>2, <3>1, <3>2
      <4>2. offset' = cut[position' - 1] /\ offset' <= at /\ at <= cut[position']
        BY <2>2, <3>1, <3>3, <3>4
      <4> QED
        BY <4>1, <4>2 DEF Found
    <3> QED
      BY <3>5
  <2> QED
    BY <2>6, <2>7
<1> QED
  BY <1>6, <1>7

LEMMA MarkedStays ==
    ASSUME UNCHANGED text, NEW p
    PROVE  Marked(p)' = Marked(p)
  BY DEF Marked

LEMMA MarkedBefore ==
    ASSUME DocTypes, NEW p \in Nat, NEW q \in Nat, p <= q, Marked(q)
    PROVE  Marked(p)
<1>1. Len(text) \in Nat
  BY CharsAre
<1>2. PICK k \in 1..Len(text) : text[k].bold /\ q <= k
  BY DEF Marked
<1>3. p <= k
  BY <1>1, <1>2
<1> QED
  BY <1>2, <1>3 DEF Marked

LEMMA WalkFollows ==
    ASSUME DocTypes, TextStage, TextFollows, Document!Retain \/ Document!Advance
    PROVE  TextFollows'
<1>1. /\ delta # <<>> /\ delta[1].kind = "retain" /\ Len(delta) = 2
      /\ delta' # <<>> /\ Change' = Change /\ Change = delta[2]
      /\ delta'[1].kind \in Changes \cup {"retain"}
      /\ UNCHANGED <<text, runs, failed, rough>> /\ Chars' = Chars
  BY WalkStep
<1>2. delta'[1].kind \notin {"skip", "add", "drop"}
  BY <1>1 DEF Changes
<1> SUFFICES ASSUME ~rough'
             PROVE  /\ ~failed'
                    /\ Change'.kind = "insert" => InsertWalk'
                    /\ Change'.kind = "delete" => DeleteWalk'
                    /\ Change'.kind = "format" => FormatWalk'
  BY <1>1, <1>2 DEF TextFollows
<1>3. /\ ~failed'
      /\ Change.kind = "insert" => InsertWalk
      /\ Change.kind = "delete" => DeleteWalk
      /\ Change.kind = "format" => FormatWalk
  BY <1>1 DEF TextFollows
<1>4. CASE Change.kind = "insert"
  <2>1. PICK word \in Seq(Nat), at \in Nat : \E cut :
            /\ Spelt(cut, runs, word) /\ Len(runs) > 0 /\ at <= Len(word)
            /\ WordWith(word, at, Change.new, Chars) /\ Len(Change.new) = Change.n
            /\ Found(at, cut)
            /\ Len(runs) > 1 =>
                   Marked(IF at <= cut[Len(runs) - 1] THEN cut[Len(runs) - 1] + Change.n
                          ELSE cut[Len(runs) - 1])
    BY <1>3, <1>4 DEF InsertWalk
  <2>2. PICK cut :
            /\ Spelt(cut, runs, word) /\ Len(runs) > 0 /\ at <= Len(word)
            /\ WordWith(word, at, Change.new, Chars) /\ Len(Change.new) = Change.n
            /\ Found(at, cut)
            /\ Len(runs) > 1 =>
                   Marked(IF at <= cut[Len(runs) - 1] THEN cut[Len(runs) - 1] + Change.n
                          ELSE cut[Len(runs) - 1])
    BY <2>1
  <2>3. Found(at, cut)'
    BY <2>2, WalkGoesOn
  <2>4. /\ Spelt(cut, runs', word) /\ Len(runs') > 0 /\ at <= Len(word)
        /\ WordWith(word, at, Change'.new, Chars') /\ Len(Change'.new) = Change'.n
    BY <1>1, <2>2
  <2>5. (Len(runs) > 1 =>
             Marked(IF at <= cut[Len(runs) - 1] THEN cut[Len(runs) - 1] + Change.n
                    ELSE cut[Len(runs) - 1]))'
    BY <1>1, <2>2 DEF Marked
  <2>6. InsertWalk'
    BY <2>3, <2>4, <2>5 DEF InsertWalk
  <2> QED
    BY <1>1, <1>3, <1>4, <2>6
<1>5. CASE Change.kind = "delete"
  <2>1. /\ Len(runs) = 1 /\ Change.n = 1
        /\ \E word \in Seq(Nat), at \in Nat : \E cut :
              /\ Spelt(cut, runs, word) /\ Len(word) > 1 /\ at < Len(word)
              /\ WordWithout(word, at, Chars) /\ Found(at, cut)
    BY <1>1, <1>3, <1>5 DEF DeleteWalk
  <2>2. PICK word \in Seq(Nat), at \in Nat : \E cut :
              /\ Spelt(cut, runs, word) /\ Len(word) > 1 /\ at < Len(word)
              /\ WordWithout(word, at, Chars) /\ Found(at, cut)
    BY <2>1
  <2>3. PICK cut :
              /\ Spelt(cut, runs, word) /\ Len(word) > 1 /\ at < Len(word)
              /\ WordWithout(word, at, Chars) /\ Found(at, cut)
    BY <2>2
  <2>4. at <= Len(word)
    BY <2>3
  <2>5. Found(at, cut)'
    BY <2>3, <2>4, WalkGoesOn
  <2>6. DeleteWalk'
    BY <1>1, <2>1, <2>3, <2>5 DEF DeleteWalk
  <2> QED
    BY <1>1, <1>3, <1>5, <2>6
<1>6. CASE Change.kind = "format"
  <2>1. PICK at \in Nat : \E cut :
            /\ Spelt(cut, runs, Chars) /\ Len(runs) > 0
            /\ Change.n > 0 /\ at + Change.n <= Len(text) /\ text[at + Change.n].bold
            /\ \/ Found(at, cut) /\ cut[Len(runs) - 1] <= at
               \/ Len(delta) = 1 /\ counted >= Change.n /\ cut[Len(runs) - 1] <= at + Change.n
    BY <1>3, <1>6 DEF FormatWalk
  <2>2. PICK cut :
            /\ Spelt(cut, runs, Chars) /\ Len(runs) > 0
            /\ Change.n > 0 /\ at + Change.n <= Len(text) /\ text[at + Change.n].bold
            /\ \/ Found(at, cut) /\ cut[Len(runs) - 1] <= at
               \/ Len(delta) = 1 /\ counted >= Change.n /\ cut[Len(runs) - 1] <= at + Change.n
    BY <2>1
  <2>3. Found(at, cut) /\ cut[Len(runs) - 1] <= at
    BY <1>1, <2>2
  <2>4. at <= Len(Chars) /\ Chars \in Seq(Nat)
    <3>1. delta \in Seq(Items) /\ Len(delta) = 2
      BY <1>1 DEF DocTypes
    <3>2. delta[2] \in Items
      BY <3>1
    <3>3. Change.n \in Nat
      BY <1>1, <3>2 DEF Items
    <3> QED
      BY <2>2, <3>3, CharsAre
  <2> DEFINE word == Chars
  <2>5. word \in Seq(Nat) /\ Spelt(cut, runs, word) /\ at <= Len(word)
    BY <2>2, <2>4
  <2> HIDE DEF word
  <2>6. Found(at, cut)'
    BY <2>3, <2>5, WalkGoesOn
  <2>7. FormatWalk'
    BY <1>1, <2>2, <2>3, <2>6 DEF FormatWalk
  <2> QED
    BY <1>1, <1>3, <1>6, <2>7
<1> QED
  BY <1>1, <1>3, <1>4, <1>5, <1>6

(* A cut of the runs as they are now                                        *)
LEMMA StillGoesOn ==
    ASSUME UNCHANGED text, NEW cut, Spelt(cut, runs', Chars), Len(runs') > 0,
           Len(runs') > 1 => Marked(cut[Len(runs') - 1])
    PROVE  TextStill'
<1>1. Chars' = Chars
  BY DEF Chars, Document!Characters
<1>2. (Len(runs) > 1 => Marked(cut[Len(runs) - 1]))'
  BY DEF Marked
<1> QED
  BY <1>1, <1>2 DEF TextStill

LEMMA StillFollows ==
    ASSUME delta' = <<>>, ~failed', TextStill'
    PROVE  TextFollows'
  BY DEF TextFollows

(* An edit of the text that stands in its run                               *)
LEMMA InsertStands ==
    ASSUME DocTypes, TextStage, TextFollows, ~rough, delta # <<>>, Document!op.kind = "insert"
    PROVE  \E word \in Seq(Nat) : \E cut :
               /\ Spelt(cut, runs, word) /\ position <= Len(runs) /\ Len(runs) > 0
               /\ offset = cut[position - 1] /\ offset <= retain /\ retain <= cut[position]
               /\ retain \in Nat
               /\ WordWith(word, retain, Document!op.new, Chars)
               /\ Len(Document!op.new) = Document!op.n /\ Document!op.new \in Seq(Nat)
               /\ Len(runs) > 1 =>
                      Marked(IF retain <= cut[Len(runs) - 1]
                             THEN cut[Len(runs) - 1] + Document!op.n
                             ELSE cut[Len(runs) - 1])
<1>1. Document!op = delta[1] /\ Len(delta) = 1 /\ Document!op.new \in Seq(Nat)
  BY ChangeStands DEF Changes
<1>2. Change = Document!op
  BY <1>1 DEF Change
<1>3. InsertWalk
  BY <1>2 DEF TextFollows
<1>4. PICK word \in Seq(Nat), at \in Nat : \E cut :
          /\ Spelt(cut, runs, word) /\ Len(runs) > 0 /\ at <= Len(word)
          /\ WordWith(word, at, Change.new, Chars) /\ Len(Change.new) = Change.n
          /\ Found(at, cut)
          /\ Len(runs) > 1 =>
                 Marked(IF at <= cut[Len(runs) - 1] THEN cut[Len(runs) - 1] + Change.n
                        ELSE cut[Len(runs) - 1])
  BY <1>3 DEF InsertWalk
<1>5. PICK cut :
          /\ Spelt(cut, runs, word) /\ Len(runs) > 0 /\ at <= Len(word)
          /\ WordWith(word, at, Change.new, Chars) /\ Len(Change.new) = Change.n
          /\ Found(at, cut)
          /\ Len(runs) > 1 =>
                 Marked(IF at <= cut[Len(runs) - 1] THEN cut[Len(runs) - 1] + Change.n
                        ELSE cut[Len(runs) - 1])
  BY <1>4
<1>6. /\ retain = at /\ position <= Len(runs)
      /\ offset = cut[position - 1] /\ offset <= at /\ at <= cut[position]
  BY <1>1, <1>5 DEF Found
<1> QED
  BY <1>1, <1>2, <1>5, <1>6

LEMMA InsertFollows ==
    ASSUME DocTypes, TextStage, TextFollows, Document!Insert
    PROVE  TextFollows'
<1>1. /\ delta # <<>> /\ Document!op.kind = "insert" /\ delta' = Tail(delta)
      /\ UNCHANGED <<text, rough, failed>>
  BY DEF Document!Insert, Document!Applying, Document!NextItem, Document!runtime
<1>2. Tail(delta) = <<>>
  BY <1>1, ChangeStands DEF Changes
<1> SUFFICES ASSUME ~rough PROVE TextFollows'
  BY <1>1 DEF TextFollows
<1> DEFINE n == Document!op.n
           new == Document!op.new
           m == Len(runs)
<1>3. PICK word \in Seq(Nat) : \E cut :
          /\ Spelt(cut, runs, word) /\ position <= m /\ m > 0
          /\ offset = cut[position - 1] /\ offset <= retain /\ retain <= cut[position]
          /\ retain \in Nat
          /\ WordWith(word, retain, new, Chars)
          /\ Len(new) = n /\ new \in Seq(Nat)
          /\ m > 1 => Marked(IF retain <= cut[m - 1] THEN cut[m - 1] + n ELSE cut[m - 1])
  BY <1>1, InsertStands
<1>4. PICK cut :
          /\ Spelt(cut, runs, word) /\ position <= m /\ m > 0
          /\ offset = cut[position - 1] /\ offset <= retain /\ retain <= cut[position]
          /\ retain \in Nat
          /\ WordWith(word, retain, new, Chars)
          /\ Len(new) = n /\ new \in Seq(Nat)
          /\ m > 1 => Marked(IF retain <= cut[m - 1] THEN cut[m - 1] + n ELSE cut[m - 1])
  BY <1>3
<1>5. runs \in Seq(TextRun) /\ position \in Nat /\ m \in Nat
  BY DEF DocTypes
<1>6. /\ position \in 1..m /\ Document!here = runs[position].insert
      /\ Document!here \in Seq(Nat)
  BY <1>4, HereIs
<1>7. /\ \A k \in 0..m : cut[k] \in Nat
      /\ \A k \in 1..m : Len(runs[k].insert) = cut[k] - cut[k - 1]
  BY <1>4, <1>5, SpeltIs
<1>8. /\ cut[position] \in Nat /\ cut[position - 1] \in Nat
      /\ Len(runs[position].insert) = cut[position] - cut[position - 1]
  BY <1>5, <1>6, <1>7
<1>9. retain - offset <= Len(runs[position].insert)
  BY <1>4, <1>8
<1>10. /\ Document!start = Document!Upto(Document!here, retain - offset)
       /\ Document!end = Document!From(Document!here, retain - offset)
       /\ Document!start \in Seq(Nat) /\ Document!end \in Seq(Nat)
  BY <1>4, <1>9, SplitIs
<1>11. Document!start \o new \o Document!end = Document!With(Document!here, retain - offset, new)
  BY <1>10 DEF Document!With
<1>12. Document!start \o new \o Document!end \in Seq(Nat)
  BY <1>4, <1>10
<1>13. runs' = Document!SetHere(Document!start \o new \o Document!end)
  <2>1. ~(position > Len(runs))
    BY <1>4, <1>5
  <2> QED
    BY <2>1 DEF Document!Insert, Document!Beyond
<1>14. RunWith(runs, position, retain - offset, new, runs')
  <2> DEFINE s == Document!start \o new \o Document!end
             t == Document!SetHere(s)
  <2>1. s \in Seq(Nat) /\ position <= Len(runs)
    BY <1>4, <1>12
  <2> HIDE DEF s
  <2>2. /\ t \in Seq(TextRun) /\ Len(t) = Len(runs)
        /\ \A k \in 1..Len(runs) : k # position => t[k] = runs[k]
        /\ t[position].insert = s
    BY <2>1, SetHereIs
  <2>3. s = Document!With(runs[position].insert, retain - offset, new) /\ runs' = t
    BY <1>6, <1>11, <1>13 DEF s
  <2> QED
    BY <2>2, <2>3 DEF RunWith
<1> DEFINE cut2 == CutWith(cut, m, position, Len(new))
<1>15. Spelt(cut2, runs', Chars)
  <2>1. RunWith(runs, position, retain - cut[position - 1], new, runs')
    BY <1>4, <1>14
  <2>2. cut[position - 1] <= retain
    BY <1>4
  <2> DEFINE word2 == Chars
  <2>3. WordWith(word, retain, new, word2)
    BY <1>4
  <2> HIDE DEF word2, n, new
  <2>4. Spelt(cut2, runs', word2)
    BY <1>4, <1>5, <1>6, <2>1, <2>2, <2>3, SpeltWith
  <2> QED
    BY <2>4 DEF word2
<1>16. Len(runs') = m
  BY <1>14 DEF RunWith
<1>17. m > 1 => Marked(cut2[m - 1])
  <2> SUFFICES ASSUME m > 1 PROVE Marked(cut2[m - 1])
    OBVIOUS
  <2> PICK last : last = cut[m - 1]
    OBVIOUS
  <2>0. m - 1 \in 0..m
    BY <1>5
  <2>1. last \in Nat /\ n \in Nat
    <3>1. last \in Nat
      BY <1>7, <2>0
    <3>2. Len(new) \in Nat
      BY <1>4
    <3> QED
      BY <1>4, <3>1, <3>2
  <2>2. cut2[m - 1] = IF m - 1 < position THEN last ELSE last + n
    BY <1>4, <2>0 DEF CutWith
  <2>3. Marked(IF retain <= last THEN last + n ELSE last)
    BY <1>4
  <2>4. CASE m - 1 < position
    <3>1. last <= last + n /\ last + n \in Nat
      BY <2>1
    <3>2. CASE retain <= last
      <4>1. Marked(last + n)
        BY <2>3, <3>2
      <4>2. Marked(last)
        BY <2>1, <3>1, <4>1, MarkedBefore
      <4> QED
        BY <2>2, <2>4, <4>2
    <3>3. CASE ~(retain <= last)
      BY <2>2, <2>3, <2>4, <3>3
    <3> QED
      BY <3>2, <3>3
  <2>5. CASE ~(m - 1 < position)
    <3>1. cut[position] <= last
      <4>1. position \in 0..m /\ position <= m - 1
        BY <1>5, <1>6, <2>5
      <4> QED
        BY <1>4, <2>0, <4>1 DEF Spelt
    <3>2. retain <= last
      BY <1>4, <1>8, <2>1, <3>1
    <3> QED
      BY <2>2, <2>3, <2>5, <3>2
  <2> QED
    BY <2>4, <2>5
<1>18. Chars' = Chars
  BY <1>1 DEF Chars, Document!Characters
<1>19. TextStill'
  BY <1>1, <1>4, <1>15, <1>16, <1>17, <1>18, StillGoesOn
<1> QED
  BY <1>1, <1>2, <1>19, StillFollows DEF TextFollows

(* A delete that has something to do stands in the one run                  *)
LEMMA DeleteStands ==
    ASSUME DocTypes, TextStage, TextFollows, ~rough, delta # <<>>, Document!op.kind = "delete"
    PROVE  /\ Len(runs) = 1 /\ Document!op.n = 1
           /\ Document!remaining <= 0 => \E cut : Spelt(cut, runs, Chars)
           /\ Document!remaining > 0 =>
                  /\ position = 1 /\ offset = 0 /\ counted = 0 /\ retain \in Nat
                  /\ \E word \in Seq(Nat) :
                         /\ Len(word) > 1 /\ retain < Len(word)
                         /\ WordWithout(word, retain, Chars)
                         /\ Len(runs[1].insert) = Len(word)
                         /\ \A k \in 1..Len(word) : runs[1].insert[k] = word[k]
<1>1. /\ Document!op = delta[1] /\ Len(delta) = 1
      /\ Document!remaining = Document!op.n - counted
  BY ChangeStands DEF Changes
<1>2. Change = Document!op
  BY <1>1 DEF Change
<1>3. DeleteWalk
  BY <1>2 DEF TextFollows
<1>4. /\ runs \in Seq(TextRun) /\ counted \in Nat /\ position \in Nat /\ position >= 1
      /\ offset \in Nat
  BY DEF DocTypes
<1>5. Len(runs) = 1 /\ Document!op.n = 1
  BY <1>2, <1>3 DEF DeleteWalk
<1>6. CASE (\E cut : Spelt(cut, runs, Chars)) /\ Len(delta) = 1 /\ counted > 0
  BY <1>1, <1>4, <1>5, <1>6
<1>7. CASE \E word \in Seq(Nat), at \in Nat : \E cut :
              /\ Spelt(cut, runs, word) /\ Len(word) > 1 /\ at < Len(word)
              /\ WordWithout(word, at, Chars) /\ Found(at, cut)
  <2>1. PICK word \in Seq(Nat), at \in Nat : \E cut :
              /\ Spelt(cut, runs, word) /\ Len(word) > 1 /\ at < Len(word)
              /\ WordWithout(word, at, Chars) /\ Found(at, cut)
    BY <1>7
  <2>2. PICK cut :
              /\ Spelt(cut, runs, word) /\ Len(word) > 1 /\ at < Len(word)
              /\ WordWithout(word, at, Chars) /\ Found(at, cut)
    BY <2>1
  <2>3. /\ retain = at /\ counted = 0 /\ position <= Len(runs)
        /\ offset = cut[position - 1]
    BY <1>1, <2>2 DEF Found
  <2>4. /\ cut[0] = 0 /\ cut[1] = Len(word)
        /\ Len(runs[1].insert) = cut[1] - cut[1 - 1]
        /\ Stretch(runs[1].insert, word, cut[1 - 1]) /\ Len(word) \in Nat
    <3>1. 1 \in 1..Len(runs)
      BY <1>5
    <3>2. /\ cut[0] = 0 /\ cut[Len(runs)] = Len(word)
          /\ \A k \in 1..Len(runs) : /\ Len(runs[k].insert) = cut[k] - cut[k - 1]
                                    /\ Stretch(runs[k].insert, word, cut[k - 1])
      BY <1>4, <2>2, SpeltIs
    <3>3. Len(word) \in Nat
      OBVIOUS
    <3> QED
      BY <1>5, <3>1, <3>2, <3>3
  <2>5. position = 1 /\ 1 - 1 = 0
    BY <1>4, <1>5, <2>3
  <2>6. Len(runs[1].insert) = Len(word) /\ offset = 0
    BY <2>3, <2>4, <2>5
  <2>7. \A k \in 1..Len(word) : runs[1].insert[k] = word[k]
    <3>1. ASSUME NEW k \in 1..Len(word) PROVE runs[1].insert[k] = word[0 + k]
      BY <2>4, <2>5, <2>6 DEF Stretch
    <3>2. \A k \in 1..Len(word) : 0 + k = k
      BY <2>4
    <3> QED
      BY <3>1, <3>2
  <2>8. Document!remaining > 0
    BY <1>1, <1>5, <2>3
  <2>9. ~(Document!remaining <= 0)
    BY <1>1, <1>5, <2>3
  <2> QED
    BY <1>5, <2>2, <2>3, <2>5, <2>6, <2>7, <2>8, <2>9
<1> QED
  BY <1>3, <1>6, <1>7 DEF DeleteWalk

(* A format that has something to do stands in its run                      *)
LEMMA FormatStands ==
    ASSUME DocTypes, TextStage, TextFollows, ~rough, delta # <<>>, Document!op.kind = "format"
    PROVE  \E cut : \E at \in Nat :
               /\ Spelt(cut, runs, Chars) /\ Len(runs) > 0
               /\ Document!op.n > 0 /\ at + Document!op.n <= Len(text)
               /\ text[at + Document!op.n].bold
               /\ Document!remaining <= 0 => cut[Len(runs) - 1] <= at + Document!op.n
               /\ Document!remaining > 0 =>
                      /\ retain = at /\ counted = 0 /\ position <= Len(runs)
                      /\ offset = cut[position - 1] /\ offset <= at /\ at <= cut[position]
                      /\ cut[Len(runs) - 1] <= at
<1>1. /\ Document!op = delta[1] /\ Len(delta) = 1 /\ Document!op.n \in Nat
      /\ Document!remaining = Document!op.n - counted
  BY ChangeStands DEF Changes
<1>2. Change = Document!op
  BY <1>1 DEF Change
<1>3. FormatWalk
  BY <1>2 DEF TextFollows
<1>4. counted \in Nat
  BY DEF DocTypes
<1>5. PICK at \in Nat : \E cut :
          /\ Spelt(cut, runs, Chars) /\ Len(runs) > 0
          /\ Change.n > 0 /\ at + Change.n <= Len(text) /\ text[at + Change.n].bold
          /\ \/ Found(at, cut) /\ cut[Len(runs) - 1] <= at
             \/ Len(delta) = 1 /\ counted >= Change.n /\ cut[Len(runs) - 1] <= at + Change.n
  BY <1>3 DEF FormatWalk
<1>6. PICK cut :
          /\ Spelt(cut, runs, Chars) /\ Len(runs) > 0
          /\ Change.n > 0 /\ at + Change.n <= Len(text) /\ text[at + Change.n].bold
          /\ \/ Found(at, cut) /\ cut[Len(runs) - 1] <= at
             \/ Len(delta) = 1 /\ counted >= Change.n /\ cut[Len(runs) - 1] <= at + Change.n
  BY <1>5
<1>7. CASE Found(at, cut) /\ cut[Len(runs) - 1] <= at
  <2>1. /\ retain = at /\ counted = 0 /\ position <= Len(runs)
        /\ offset = cut[position - 1] /\ offset <= at /\ at <= cut[position]
    BY <1>1, <1>7 DEF Found
  <2>2. ~(Document!remaining <= 0)
    <3>1. Document!op.n > 0
      BY <1>2, <1>6
    <3> QED
      BY <1>1, <2>1, <3>1
  <2> QED
    BY <1>2, <1>6, <1>7, <2>1, <2>2
<1>8. CASE counted >= Change.n /\ cut[Len(runs) - 1] <= at + Change.n
  <2>1. ~(Document!remaining > 0)
    BY <1>1, <1>2, <1>4, <1>8
  <2> QED
    BY <1>2, <1>6, <1>8, <2>1
<1> QED
  BY <1>6, <1>7, <1>8

LEMMA DoneFollows ==
    ASSUME DocTypes, TextStage, TextFollows, Document!Done
    PROVE  TextFollows'
<1>1. /\ delta # <<>> /\ Document!op.kind \in {"delete", "format"} /\ Document!remaining <= 0
      /\ UNCHANGED <<runs, failed>> /\ UNCHANGED <<text, rough>>
  BY DEF Document!Done, Document!runtime
<1>2. delta' = <<>>
  BY EndTyped
<1> SUFFICES ASSUME ~rough PROVE TextFollows'
  BY <1>1 DEF TextFollows
<1>3. ~failed
  BY DEF TextFollows
<1>4. runs \in Seq(TextRun)
  BY DEF DocTypes
<1>5. TextStill'
  <2>1. CASE Document!op.kind = "delete"
    <3>1. Len(runs) = 1
      BY <1>1, <2>1, DeleteStands
    <3>2. PICK cut : Spelt(cut, runs, Chars)
      BY <1>1, <2>1, DeleteStands
    <3>3. Spelt(cut, runs', Chars) /\ Len(runs') > 0 /\ ~(Len(runs') > 1)
      BY <1>1, <3>1, <3>2
    <3> QED
      BY <1>1, <3>3, StillGoesOn
  <2>2. CASE Document!op.kind = "format"
    <3>1. PICK cut : \E at \in Nat :
               /\ Spelt(cut, runs, Chars) /\ Len(runs) > 0
               /\ Document!op.n > 0 /\ at + Document!op.n <= Len(text)
               /\ text[at + Document!op.n].bold
               /\ cut[Len(runs) - 1] <= at + Document!op.n
      BY <1>1, <2>2, FormatStands
    <3>2. PICK at \in Nat :
               /\ Spelt(cut, runs, Chars) /\ Len(runs) > 0
               /\ Document!op.n > 0 /\ at + Document!op.n <= Len(text)
               /\ text[at + Document!op.n].bold
               /\ cut[Len(runs) - 1] <= at + Document!op.n
      BY <3>1
    <3>3. at + Document!op.n \in 1..Len(text)
      <4>1. Document!op.n \in Nat
        BY <1>1, ChangeStands DEF Changes
      <4>2. Document!op.n > 0 /\ at + Document!op.n <= Len(text)
        BY <3>2
      <4>3. Len(text) \in Nat
        BY CharsAre
      <4> QED
        BY <4>1, <4>2, <4>3
    <3>4. Marked(cut[Len(runs) - 1])
      BY <3>2, <3>3 DEF Marked
    <3>5. /\ Spelt(cut, runs', Chars) /\ Len(runs') > 0
          /\ Len(runs') > 1 => Marked(cut[Len(runs') - 1])
      BY <1>1, <3>2, <3>4
    <3> QED
      BY <1>1, <3>5, StillGoesOn
  <2> QED
    BY <1>1, <2>1, <2>2
<1> QED
  BY <1>1, <1>2, <1>3, <1>5, StillFollows

(* The walk does not run out of runs, nor does it take a whole run away     *)
LEMMA FailuresFollow ==
    ASSUME DocTypes, TextStage, TextFollows, Document!OutOfRuns \/ Document!DeleteRun
    PROVE  TextFollows'
<1>1. /\ delta # <<>> /\ Document!Fail
  BY DEF Document!OutOfRuns, Document!DeleteRun, Document!Deleting, Document!Applying
<1>2. UNCHANGED rough
  BY <1>1 DEF Document!Fail, Document!runtime
<1> SUFFICES ASSUME ~rough PROVE FALSE
  BY <1>2 DEF TextFollows
<1>3. Document!op = delta[1]
  BY <1>1, OpIs
<1>4. position \in Nat /\ Len(runs) \in Nat
  BY DEF DocTypes
<1>5. CASE Document!OutOfRuns
  <2>1. /\ position > Len(runs)
        /\ \/ Document!op.kind = "retain" /\ counted = 1
           \/ Document!op.kind \in {"delete", "format"} /\ Document!remaining > 0
    BY <1>5 DEF Document!OutOfRuns, Document!Beyond
  <2>2. ~(position <= Len(runs))
    BY <1>4, <2>1
  <2>3. CASE Document!op.kind = "retain" /\ counted = 1
    <3>1. Len(delta) = 2 /\ delta[2].kind \in Changes
      BY <1>1, <1>3, <2>3 DEF TextStage
    <3>2. Change = delta[2]
      BY <3>1 DEF Change
    <3>3. /\ Change.kind = "insert" => InsertWalk
          /\ Change.kind = "delete" => DeleteWalk
          /\ Change.kind = "format" => FormatWalk
      BY <1>1 DEF TextFollows
    <3>4. InsertWalk \/ DeleteWalk \/ FormatWalk
      BY <3>1, <3>2, <3>3 DEF Changes
    <3>5. PICK at, cut : Found(at, cut)
      BY <3>1, <3>4 DEF InsertWalk, DeleteWalk, FormatWalk
    <3> QED
      BY <2>2, <2>3, <3>1, <3>5 DEF Found
  <2>4. CASE Document!op.kind = "delete" /\ Document!remaining > 0
    <3>1. Len(runs) = 1 /\ position = 1
      BY <1>1, <2>4, DeleteStands
    <3> QED
      BY <2>2, <3>1
  <2>5. CASE Document!op.kind = "format" /\ Document!remaining > 0
    <3>1. position <= Len(runs)
      BY <1>1, <2>5, FormatStands
    <3> QED
      BY <2>2, <3>1
  <2> QED
    BY <2>1, <2>3, <2>4, <2>5
<1>6. CASE Document!DeleteRun
  <2>1. /\ Document!Deleting /\ Document!op.kind = "delete" /\ Document!remaining > 0
        /\ Document!remaining >= Len(Document!here)
    BY <1>6 DEF Document!DeleteRun, Document!Deleting, Document!Applying
  <2>2. Document!here = runs[position].insert /\ Document!remaining = Document!op.n - counted
    BY <2>1, AtChange
  <2>3. /\ position = 1 /\ counted = 0 /\ Document!op.n = 1
        /\ \E word \in Seq(Nat) : Len(word) > 1 /\ Len(runs[1].insert) = Len(word)
    BY <1>1, <2>1, DeleteStands
  <2>4. PICK l \in Nat : l > 1 /\ l = Len(Document!here)
    BY <2>2, <2>3
  <2>5. Document!remaining = 1
    BY <2>2, <2>3
  <2> QED
    BY <2>1, <2>4, <2>5
<1> QED
  BY <1>5, <1>6

(* One run that holds a word spells it                                      *)
LEMMA OneSpelt ==
    ASSUME NEW rs \in Seq(TextRun), Len(rs) = 1, NEW word \in Seq(Nat),
           Len(rs[1].insert) = Len(word), \A k \in 1..Len(word) : rs[1].insert[k] = word[k]
    PROVE  \E cut : Spelt(cut, rs, word)
<1> DEFINE n == Len(word)
           cut == [k \in 0..1 |-> IF k = 0 THEN 0 ELSE n]
<1>1. n \in Nat
  OBVIOUS
<1>2. /\ Len(rs[1].insert) = n /\ \A k \in 1..n : rs[1].insert[k] = word[0 + k]
  <2>1. \A k \in 1..n : 0 + k = k
    BY <1>1
  <2> QED
    BY <2>1
<1> HIDE DEF n
<1>3. cut \in [0..1 -> Nat] /\ cut[0] = 0 /\ cut[1] = n
  BY <1>1
<1>4. \A j, k \in 0..1 : j <= k => cut[j] <= cut[k]
  BY <1>1
<1> HIDE DEF cut
<1>5. ASSUME NEW k \in 1..1
      PROVE  /\ cut[k] = cut[k - 1] + Len(rs[k].insert)
             /\ Stretch(rs[k].insert, word, cut[k - 1])
  <2>1. k = 1 /\ 1 - 1 = 0
    OBVIOUS
  <2>2. cut[1] = cut[0] + Len(rs[1].insert)
    BY <1>1, <1>2, <1>3
  <2>3. Stretch(rs[1].insert, word, cut[0])
    BY <1>2, <1>3 DEF Stretch
  <2> QED
    BY <2>1, <2>2, <2>3
<1>6. Spelt(cut, rs, word)
  BY <1>3, <1>4, <1>5, SpeltHolds DEF n
<1> QED
  BY <1>6

LEMMA NumbersCut ==
    ASSUME NEW s \in Seq(Nat), NEW n \in 0..Len(s)
    PROVE  /\ \A k \in 1..n : Document!Upto(s, n)[k] = s[k]
           /\ \A k \in 1..(Len(s) - n) : Document!From(s, n)[k] = s[n + k]
  BY UptoIs, FromIs

LEMMA NumbersJoin ==
    ASSUME NEW s \in Seq(Nat), NEW t \in Seq(Nat)
    PROVE  /\ s \o t \in Seq(Nat) /\ Len(s \o t) = Len(s) + Len(t)
           /\ \A k \in 1..Len(s) : (s \o t)[k] = s[k]
           /\ \A k \in 1..Len(t) : (s \o t)[Len(s) + k] = t[k]
  BY JoinIs

(* A step of a delete: the one run is what the runtime's text is now        *)
LEMMA DeletesFollow ==
    ASSUME DocTypes, TextStage, TextFollows,
           Document!DeleteEnd \/ Document!DeleteMiddle \/ Document!DeleteFront
    PROVE  TextFollows'
<1>1. Document!Deleting /\ UNCHANGED <<Document!runtime, delta, retain, failed>>
  BY DEF Document!DeleteEnd, Document!DeleteMiddle, Document!DeleteFront
<1>2. /\ delta # <<>> /\ Len(delta) = 1 /\ Document!op = delta[1] /\ Document!op.kind = "delete"
      /\ Document!remaining > 0 /\ Document!remaining = Document!op.n - counted
      /\ Document!here = runs[position].insert /\ Document!here \in Seq(Nat)
      /\ Len(Document!here) \in Nat
  BY <1>1, AtChange DEF Document!Deleting, Document!Applying
<1>3. UNCHANGED <<text, rough>> /\ Chars' = Chars
  BY <1>1 DEF Document!runtime, Chars, Document!Characters
<1> SUFFICES ASSUME ~rough PROVE TextFollows'
  BY <1>3 DEF TextFollows
<1>4. /\ Len(runs) = 1 /\ Document!op.n = 1 /\ position = 1 /\ offset = 0 /\ counted = 0
      /\ retain \in Nat
      /\ \E word \in Seq(Nat) :
             /\ Len(word) > 1 /\ retain < Len(word)
             /\ WordWithout(word, retain, Chars)
             /\ Len(runs[1].insert) = Len(word)
             /\ \A k \in 1..Len(word) : runs[1].insert[k] = word[k]
  BY <1>2, DeleteStands
<1>5. PICK word \in Seq(Nat) :
             /\ Len(word) > 1 /\ retain < Len(word)
             /\ WordWithout(word, retain, Chars)
             /\ Len(runs[1].insert) = Len(word)
             /\ \A k \in 1..Len(word) : runs[1].insert[k] = word[k]
  BY <1>4
<1>6. /\ Len(Document!here) = Len(word) /\ Document!remaining = 1 /\ Len(word) \in Nat
      /\ \A k \in 1..Len(word) : Document!here[k] = word[k]
  BY <1>2, <1>4, <1>5
<1>7. /\ Chars \in Seq(Nat) /\ Len(Chars) = Len(word) - 1
      /\ \A k \in 1..retain : Chars[k] = word[k]
      /\ \A k \in (retain + 1)..(Len(word) - 1) : Chars[k] = word[k + 1]
  BY <1>5 DEF WordWithout
<1>8. ASSUME NEW s \in Seq(Nat), runs' = Document!SetHere(s), Len(s) = Len(word) - 1,
             \A k \in 1..retain : s[k] = word[k],
             \A k \in (retain + 1)..(Len(word) - 1) : s[k] = word[k + 1],
             counted' > 0
      PROVE  TextFollows'
  <2>1. /\ runs' \in Seq(TextRun) /\ Len(runs') = 1 /\ runs'[1].insert = s
    <3> DEFINE t == Document!SetHere(s)
    <3>1. position <= Len(runs)
      BY <1>4
    <3>2. t \in Seq(TextRun) /\ Len(t) = Len(runs) /\ t[position].insert = s
      BY <3>1, SetHereIs
    <3> QED
      BY <1>4, <1>8, <3>2
  <2>2. ASSUME NEW k \in 1..Len(Chars) PROVE s[k] = Chars[k]
    <3>1. k \in 1..retain \/ k \in (retain + 1)..(Len(word) - 1)
      BY <1>4, <1>6, <1>7
    <3> QED
      BY <1>7, <1>8, <3>1
  <2>3. \E cut : Spelt(cut, runs', Chars)
    BY <1>7, <1>8, <2>1, <2>2, OneSpelt
  <2>4. Change = delta[1] /\ Change' = delta[1]
    BY <1>1, <1>2 DEF Change
  <2>5. DeleteWalk'
    BY <1>1, <1>2, <1>3, <1>4, <1>8, <2>1, <2>3, <2>4 DEF DeleteWalk
  <2>6. ~failed' /\ delta' # <<>> /\ delta'[1].kind = "delete"
    BY <1>1, <1>2 DEF TextFollows
  <2> QED
    BY <1>1, <1>2, <2>4, <2>5, <2>6 DEF TextFollows
<1>9. retain <= Len(Document!here) /\ retain - offset = retain
  BY <1>4, <1>5, <1>6
<1> DEFINE own == Document!here
<1>10. own \in Seq(Nat) /\ Len(own) = Len(word)
  BY <1>2, <1>6
<1>11. /\ retain - offset \in 0..Len(own)
       /\ Document!start = Document!Upto(own, retain) /\ Document!end = Document!From(own, retain)
       /\ Document!start \in Seq(Nat) /\ Len(Document!start) = retain
       /\ Document!end \in Seq(Nat) /\ Len(Document!end) = Len(word) - retain
  BY <1>2, <1>4, <1>6, <1>9, SplitIs
<1> HIDE DEF own
<1>12. /\ \A k \in 1..retain : Document!start[k] = word[k]
       /\ \A k \in 1..(Len(word) - retain) : Document!end[k] = word[retain + k]
  <2>1. retain \in 0..Len(own)
    BY <1>4, <1>5, <1>6, <1>10
  <2>2. /\ \A k \in 1..retain : Document!start[k] = own[k]
        /\ \A k \in 1..(Len(own) - retain) : Document!end[k] = own[retain + k]
    BY <1>10, <1>11, <2>1, NumbersCut
  <2>3. \A k \in 1..Len(word) : own[k] = word[k]
    BY <1>6 DEF own
  <2>4. ASSUME NEW k \in 1..retain PROVE Document!start[k] = word[k]
    <3>1. k \in 1..Len(word)
      BY <1>4, <1>5, <1>6
    <3> QED
      BY <2>2, <2>3, <3>1
  <2>5. ASSUME NEW k \in 1..(Len(word) - retain) PROVE Document!end[k] = word[retain + k]
    <3>1. retain + k \in 1..Len(word)
      BY <1>4, <1>5, <1>6
    <3> QED
      BY <1>10, <2>2, <2>3, <3>1
  <2> QED
    BY <2>4, <2>5
<1>13. CASE Document!DeleteEnd
  <2>1. /\ Document!remaining >= Len(Document!end) /\ runs' = Document!SetHere(Document!start)
        /\ counted' = counted + Len(Document!end)
    BY <1>13 DEF Document!DeleteEnd
  <2>2. Len(word) = retain + 1 /\ counted' > 0
    BY <1>4, <1>5, <1>6, <1>11, <2>1
  <2>3. Len(Document!start) = Len(word) - 1 /\ ~\E k \in (retain + 1)..(Len(word) - 1) : TRUE
    BY <1>4, <1>6, <1>11, <2>2
  <2> QED
    BY <1>8, <1>11, <1>12, <2>1, <2>2, <2>3
<1>14. CASE Document!DeleteMiddle
  <2> DEFINE back == Document!From(Document!end, 1)
             left == Document!start \o back
  <2>1. /\ retain > offset /\ runs' = Document!SetHere(left) /\ counted' = counted + Len(left)
        /\ Document!remaining < Len(Document!end)
    BY <1>6, <1>14 DEF Document!DeleteMiddle
  <2>2. 1 \in 0..Len(Document!end)
    BY <1>6, <1>11, <2>1
  <2>3. /\ back \in Seq(Nat) /\ Len(back) = Len(Document!end) - 1
        /\ \A k \in 1..(Len(Document!end) - 1) : back[k] = Document!end[1 + k]
    BY <1>11, <2>2, FromIs
  <2> HIDE DEF back
  <2>4. /\ left \in Seq(Nat) /\ Len(left) = Len(Document!start) + Len(back)
        /\ \A k \in 1..Len(Document!start) : left[k] = Document!start[k]
        /\ \A k \in 1..Len(back) : left[Len(Document!start) + k] = back[k]
    BY <1>11, <2>3, NumbersJoin
  <2> HIDE DEF left
  <2>5. Len(left) = Len(word) - 1 /\ counted' > 0
    BY <1>4, <1>5, <1>6, <1>11, <2>1, <2>3, <2>4
  <2>6. \A k \in 1..retain : left[k] = word[k]
    BY <1>11, <1>12, <2>4
  <2>7. ASSUME NEW k \in (retain + 1)..(Len(word) - 1) PROVE left[k] = word[k + 1]
    <3>1. /\ k - retain \in 1..Len(back) /\ k - retain \in 1..(Len(Document!end) - 1)
          /\ retain + (k - retain) = k /\ 1 + (k - retain) \in 1..(Len(word) - retain)
          /\ retain + (1 + (k - retain)) = k + 1
      <4> PICK w \in Nat : w = Len(word)
        BY <1>6
      <4>1. /\ Len(back) = (w - retain) - 1 /\ Len(Document!end) = w - retain
            /\ retain \in Nat /\ retain < w
        BY <1>4, <1>5, <1>11, <2>3
      <4>2. k \in (retain + 1)..(w - 1)
        OBVIOUS
      <4>3. /\ k - retain \in 1..((w - retain) - 1) /\ 1 + (k - retain) \in 1..(w - retain)
            /\ retain + (k - retain) = k /\ retain + (1 + (k - retain)) = k + 1
        BY <4>1, <4>2
      <4> QED
        BY <4>1, <4>3
    <3>2. left[retain + (k - retain)] = back[k - retain]
      BY <1>11, <2>4, <3>1
    <3>3. back[k - retain] = Document!end[1 + (k - retain)]
      BY <2>3, <3>1
    <3>4. Document!end[1 + (k - retain)] = word[retain + (1 + (k - retain))]
      BY <1>12, <3>1
    <3> QED
      BY <3>1, <3>2, <3>3, <3>4
  <2> QED
    BY <1>8, <2>1, <2>4, <2>5, <2>6, <2>7
<1>15. CASE Document!DeleteFront
  <2> DEFINE back == Document!From(own, 1)
  <2>1. /\ retain <= offset /\ runs' = Document!SetHere(back) /\ counted' = counted + 1
    BY <1>6, <1>15 DEF Document!DeleteFront, own
  <2>2. retain = 0 /\ counted' > 0
    BY <1>4, <2>1
  <2>3. 1 \in 0..Len(own)
    BY <1>5, <1>6, <1>10
  <2>4. /\ back \in Seq(Nat) /\ Len(back) = Len(own) - 1
        /\ \A k \in 1..(Len(own) - 1) : back[k] = own[1 + k]
    BY <1>10, <2>3, FromIs
  <2> HIDE DEF back
  <2>5. ASSUME NEW k \in (retain + 1)..(Len(word) - 1) PROVE back[k] = word[k + 1]
    <3>1. k \in 1..(Len(own) - 1) /\ 1 + k = k + 1 /\ k + 1 \in 1..Len(word)
      BY <1>6, <1>10, <2>2
    <3> QED
      BY <1>6, <2>4, <3>1 DEF own
  <2>6. \A k \in 1..retain : back[k] = word[k]
    BY <2>2
  <2> QED
    BY <1>8, <1>10, <2>1, <2>2, <2>4, <2>5, <2>6
<1> QED
  BY <1>13, <1>14, <1>15

(* A format keeps its word: what it leaves is either done or found again    *)
LEMMA FormatGoesOn ==
    ASSUME DocTypes, UNCHANGED <<text, delta, rough, failed>>, TextFollows, ~rough,
           Len(delta) = 1, delta[1].kind = "format", NEW cut, NEW at \in Nat,
           Spelt(cut, runs', Chars), Len(runs') > 0,
           delta[1].n > 0, at + delta[1].n <= Len(text), text[at + delta[1].n].bold,
           \/ Found(at, cut)' /\ cut[Len(runs') - 1] <= at
           \/ counted' >= delta[1].n /\ cut[Len(runs') - 1] <= at + delta[1].n
    PROVE  TextFollows'
<1>1. Change' = delta[1] /\ Chars' = Chars
  BY DEF Change, Chars, Document!Characters
<1>2. FormatWalk'
  BY <1>1 DEF FormatWalk
<1>3. delta' # <<>> /\ ~failed'
  <2>1. Len(delta') > 0
    OBVIOUS
  <2> QED
    BY <2>1, NotEmpty DEF TextFollows
<1> QED
  BY <1>1, <1>2, <1>3 DEF TextFollows

LEMMA FormatsFollow ==
    ASSUME DocTypes, TextStage, TextFollows,
           \/ Document!FormatEnd \/ Document!FormatMiddle
           \/ Document!FormatRun \/ Document!FormatFront
    PROVE  TextFollows'
<1>1. Document!Formatting /\ UNCHANGED <<Document!runtime, delta, nodes, retain, failed>>
  BY DEF Document!FormatEnd, Document!FormatMiddle, Document!FormatRun, Document!FormatFront
<1>2. /\ delta # <<>> /\ Len(delta) = 1 /\ Document!op = delta[1] /\ Document!op.kind = "format"
      /\ Document!remaining > 0 /\ Document!remaining = Document!op.n - counted
      /\ Document!here = runs[position].insert /\ position \in 1..Len(runs)
      /\ Document!op.n \in Nat
  BY <1>1, AtChange DEF Document!Formatting, Document!Applying
<1>3. UNCHANGED <<text, rough>>
  BY <1>1 DEF Document!runtime
<1> SUFFICES ASSUME ~rough PROVE TextFollows'
  BY <1>3 DEF TextFollows
<1> DEFINE n == Document!op.n
           word == Chars
           m == Len(runs)
<1>4. PICK cut : \E at \in Nat :
               /\ Spelt(cut, runs, Chars) /\ Len(runs) > 0
               /\ n > 0 /\ at + n <= Len(text)
               /\ text[at + n].bold
               /\ Document!remaining <= 0 => cut[Len(runs) - 1] <= at + n
               /\ Document!remaining > 0 =>
                      /\ retain = at /\ counted = 0 /\ position <= Len(runs)
                      /\ offset = cut[position - 1] /\ offset <= at /\ at <= cut[position]
                      /\ cut[Len(runs) - 1] <= at
  BY <1>2, FormatStands
<1>5. PICK at \in Nat :
               /\ Spelt(cut, runs, Chars) /\ Len(runs) > 0
               /\ n > 0 /\ at + n <= Len(text)
               /\ text[at + n].bold
               /\ Document!remaining > 0 =>
                      /\ retain = at /\ counted = 0 /\ position <= Len(runs)
                      /\ offset = cut[position - 1] /\ offset <= at /\ at <= cut[position]
                      /\ cut[Len(runs) - 1] <= at
  BY <1>4
<1>6. /\ runs \in Seq(TextRun) /\ m \in Nat /\ position \in 1..m
      /\ position \in Nat /\ position >= 1 /\ offset \in Nat
  BY <1>2 DEF DocTypes
<1>7. /\ retain = at /\ counted = 0 /\ offset <= at /\ at <= cut[position]
      /\ offset = cut[position - 1] /\ cut[m - 1] <= at
      /\ n > 0 /\ at + n <= Len(text)
  BY <1>2, <1>5, Zenon
<1>8. Spelt(cut, runs, word) /\ word \in Seq(Nat) /\ Len(word) = Len(text) /\ Len(text) \in Nat
  BY <1>5, CharsAre
<1> HIDE DEF word
<1>9. /\ \A k \in 0..m : cut[k] \in Nat /\ cut[k] <= Len(word)
      /\ cut[m] = Len(word)
      /\ \A k \in 1..m : Len(runs[k].insert) = cut[k] - cut[k - 1]
  BY <1>6, <1>8, SpeltIs
<1>10. \A j, k \in 0..m : j <= k => cut[j] <= cut[k]
  BY <1>8 DEF Spelt
<1>11. PICK high : high = cut[position]
  OBVIOUS
<1>12. /\ high \in Nat /\ at <= high /\ n \in Nat /\ n > 0 /\ offset <= at /\ at \in Nat
       /\ offset \in Nat /\ Len(Document!here) = high - offset
       /\ retain = at /\ counted = 0
  <2>1. position \in 0..m
    BY <1>6
  <2>2. at \in Nat
    BY <1>5
  <2>3. high \in Nat /\ at <= high
    BY <1>7, <1>9, <1>11, <2>1
  <2>4. Len(Document!here) = high - offset
    BY <1>2, <1>6, <1>7, <1>9, <1>11
  <2>5. n \in Nat /\ n > 0 /\ offset <= at /\ offset \in Nat /\ retain = at /\ counted = 0
    BY <1>2, <1>6, <1>7
  <2> QED
    BY <2>2, <2>3, <2>4, <2>5
(* the run of the place is the last, or ends at the place                   *)
<1>13. position = m => at + n <= high
  BY <1>7, <1>8, <1>9, <1>11
<1> HIDE DEF n
<1>14. position # m => /\ position \in 1..(m - 1) /\ high = at
                       /\ cut[position + 1] \in Nat /\ at <= cut[position + 1]
  <2> SUFFICES ASSUME position # m
               PROVE  /\ position \in 1..(m - 1) /\ high = at
                      /\ cut[position + 1] \in Nat /\ at <= cut[position + 1]
    OBVIOUS
  <2>1. /\ position \in 0..m /\ position + 1 \in 0..m /\ m - 1 \in 0..m
        /\ position <= m - 1 /\ position <= position + 1 /\ position \in 1..(m - 1)
    BY <1>6
  <2>2. /\ cut[position] <= cut[m - 1] /\ cut[position] <= cut[position + 1]
        /\ cut[m - 1] \in Nat /\ cut[position + 1] \in Nat
    BY <1>9, <1>10, <2>1
  <2>3. high <= at
    <3> PICK l : l = cut[m - 1]
      OBVIOUS
    <3>1. l \in Nat /\ high <= l /\ l <= at
      BY <1>7, <1>11, <2>2
    <3> QED
      BY <1>12, <3>1
  <2>4. high = at
    BY <1>12, <2>3
  <2> QED
    BY <1>11, <2>1, <2>2, <2>4
<1>15. ASSUME NEW c, Spelt(c, runs', word), Len(runs') > 0,
              \/ Found(at, c)' /\ c[Len(runs') - 1] <= at
              \/ counted' >= n /\ c[Len(runs') - 1] <= at + n
       PROVE  TextFollows'
  <2>1. /\ UNCHANGED <<text, delta, rough, failed>> /\ delta[1].n = n /\ delta[1].kind = "format"
        /\ Spelt(c, runs', Chars)
    BY <1>1, <1>2, <1>3, <1>15 DEF word, n
  <2> QED
    BY <1>2, <1>5, <1>15, <2>1, FormatGoesOn DEF n
(* how the cut is split                                                     *)
<1>16. ASSUME NEW c, c = CutSplit(cut, m, position, at)
       PROVE  /\ \A k \in 0..(m + 1) : /\ k = position => c[k] = at
                                       /\ k > position => c[k] = cut[k - 1]
  BY <1>6, <1>16 DEF CutSplit
<1>17. retain > offset => /\ Len(Document!end) = high - at
                          /\ Len(Document!start) = at - offset
  <2> SUFFICES ASSUME retain > offset
               PROVE  Len(Document!end) = high - at /\ Len(Document!start) = at - offset
    OBVIOUS
  <2>1. position <= Len(runs) /\ offset <= retain /\ retain - offset <= Len(runs[position].insert)
    <3>1. Len(runs[position].insert) = high - offset
      BY <1>2, <1>12
    <3>2. retain - offset <= high - offset /\ offset <= retain
      BY <1>12
    <3> QED
      BY <1>6, <3>1, <3>2
  <2>2. /\ Len(Document!end) = Len(Document!here) - (retain - offset)
        /\ Len(Document!start) = retain - offset
    BY <2>1, SplitIs
  <2> QED
    BY <1>12, <2>2
<1>18. /\ Document!remaining = n
       /\ cut[position - 1] <= at /\ at <= cut[position] /\ retain - offset = at - cut[position - 1]
  <2>1. Document!remaining = n
    <3>1. Document!op.n \in Nat /\ counted = 0
      BY <1>2, <1>12
    <3> QED
      BY <1>2, <3>1 DEF n
  <2>2. cut[position - 1] = offset /\ cut[position] = high /\ retain = at
    BY <1>7, <1>11
  <2>3. offset <= at /\ at <= high
    BY <1>12
  <2> QED
    BY <2>1, <2>2, <2>3
<1>19. CASE Document!FormatEnd
  <2>1. /\ retain > offset /\ n >= Len(Document!end) /\ counted' = counted + Len(Document!end)
        /\ position' = position + 2 /\ offset' = offset + Len(Document!here)
    BY <1>18, <1>19 DEF Document!FormatEnd
  <2>2. counted' = high - at /\ offset' = high
    BY <1>12, <1>17, <2>1
  <2>3. RunSplit(runs, position, at - cut[position - 1], runs')
    BY <1>18, <1>19, FormatEndIs
  <2> PICK c : c = CutSplit(cut, m, position, at)
    OBVIOUS
  <2>4. Spelt(c, runs', word)
    BY <1>6, <1>8, <1>18, <2>3, SpeltSplit
  <2>5. Len(runs') = m + 1 /\ Len(runs') > 0 /\ Len(runs') - 1 = m
    BY <1>6, <2>3 DEF RunSplit
  <2>6. CASE position = m
    <3>1. c[m] = at
      BY <1>6, <1>16, <2>6
    <3>2. counted' >= n /\ c[Len(runs') - 1] <= at + n
      BY <1>12, <1>13, <2>2, <2>5, <2>6, <3>1
    <3> QED
      BY <1>15, <2>4, <2>5, <3>2
  <2>7. CASE position # m
    <3>1. /\ position + 1 \in 0..(m + 1) /\ position + 2 \in 0..(m + 1) /\ m \in 0..(m + 1)
          /\ m > position /\ (position + 1) - 1 = position /\ (position + 2) - 1 = position + 1
      BY <1>6, <1>14, <2>7
    <3>2. /\ c[position + 1] = cut[position] /\ c[position + 2] = cut[position + 1]
          /\ c[m] = cut[m - 1]
      BY <1>6, <1>16, <3>1
    <3>3. /\ counted' = 0 /\ retain' = at /\ Len(delta') = 1
      BY <1>1, <1>2, <1>7, <1>12, <1>14, <2>2, <2>7
    <3>4. /\ position' <= Len(runs') /\ position' - 1 = position + 1
      BY <1>6, <2>1, <2>5, <3>1
    <3>5. offset' = c[position' - 1] /\ offset' <= at /\ at <= c[position']
      <4>1. position' - 1 = position + 1 /\ position' = position + 2
        BY <2>1, <3>4
      <4>2. c[position + 1] = at /\ offset' = at /\ at <= c[position + 2]
        BY <1>11, <1>14, <2>2, <2>7, <3>2
      <4> QED
        BY <1>12, <4>1, <4>2
    <3>6. Found(at, c)'
      BY <3>3, <3>4, <3>5 DEF Found
    <3>7. c[Len(runs') - 1] <= at
      BY <1>7, <2>5, <3>2
    <3> QED
      BY <1>15, <2>4, <2>5, <3>6, <3>7
  <2> QED
    BY <2>6, <2>7
<1>20. CASE Document!FormatMiddle
  <2>1. /\ retain > offset /\ n < Len(Document!end) /\ counted' = counted + n
    BY <1>18, <1>20 DEF Document!FormatMiddle
  <2>2. position = m /\ counted' = n
    BY <1>7, <1>12, <1>14, <1>17, <2>1
  <2>3. PICK rs \in Seq(TextRun) : /\ RunSplit(runs, position, retain - offset, rs)
                                   /\ RunSplit(rs, position + 1, n, runs')
    BY <1>18, <1>20, FormatMiddleIs
  <2> PICK c : c = CutSplit(cut, m, position, at)
    OBVIOUS
  <2>4. Spelt(c, rs, word)
    BY <1>6, <1>8, <1>18, <2>3, SpeltSplit
  <2>5. Len(rs) = m + 1 /\ position + 1 \in 1..Len(rs)
    BY <1>6, <2>3 DEF RunSplit
  <2>6. c[position] = at /\ c[position + 1] = high
    <3>1. /\ position \in 0..(m + 1) /\ position + 1 \in 0..(m + 1) /\ position + 1 > position
          /\ (position + 1) - 1 = position
      BY <1>6
    <3> QED
      BY <1>11, <1>16, <3>1
  <2>7. /\ (position + 1) - 1 = position /\ (at + n) - c[(position + 1) - 1] = n
        /\ c[(position + 1) - 1] <= at + n /\ at + n <= c[position + 1] /\ at + n \in Nat
    BY <1>6, <1>12, <1>13, <2>2, <2>6
  <2> PICK d : d = CutSplit(c, Len(rs), position + 1, at + n)
    OBVIOUS
  <2>8. Spelt(d, runs', word)
    BY <1>8, <2>3, <2>4, <2>5, <2>7, SpeltSplit
  <2>9. Len(runs') > 0 /\ Len(runs') - 1 = position + 1
    <3>1. Len(runs') = Len(rs) + 1
      BY <2>3 DEF RunSplit
    <3> QED
      BY <1>6, <2>2, <2>5, <3>1
  <2>10. d[position + 1] = at + n
    BY <1>6, <2>5 DEF CutSplit
  <2>11. counted' >= n /\ d[Len(runs') - 1] <= at + n
    <3>1. d[Len(runs') - 1] = at + n
      BY <2>9, <2>10
    <3> QED
      BY <1>12, <2>2, <3>1
  <2> QED
    BY <1>15, <2>8, <2>9, <2>11
<1>21. CASE Document!FormatRun
  <2>1. /\ retain <= offset /\ counted' = counted + Len(Document!here)
        /\ position' = position + 1 /\ offset' = offset + Len(Document!here)
    BY <1>21 DEF Document!FormatRun
  <2>2. at = offset /\ counted' = high - at /\ offset' = high
    BY <1>12, <2>1
  <2>3. /\ runs' \in Seq(TextRun) /\ Len(runs') = m
        /\ \A k \in 1..m : runs'[k].insert = runs[k].insert
    BY <1>21, FormatRunIs
  <2>4. Spelt(cut, runs', word) /\ Len(runs') > 0
    BY <1>5, <1>6, <1>8, <2>3, SpeltAgain
  <2>5. CASE position = m
    <3>1. counted' >= n
      BY <1>12, <1>13, <2>2, <2>5
    <3>2. cut[Len(runs') - 1] = offset
      BY <1>7, <2>3, <2>5
    <3>3. cut[Len(runs') - 1] <= at + n
      BY <1>12, <3>2
    <3> QED
      BY <1>15, <2>4, <3>1, <3>3
  <2>6. CASE position # m
    <3>1. counted' = 0 /\ retain' = at /\ Len(delta') = 1
      BY <1>1, <1>2, <1>7, <1>12, <1>14, <2>2, <2>6
    <3>2. position' <= Len(runs') /\ position' - 1 = position
      BY <1>6, <1>14, <2>1, <2>3, <2>6
    <3>3. offset' = cut[position' - 1] /\ offset' <= at /\ at <= cut[position']
      BY <1>11, <1>12, <1>14, <2>1, <2>2, <2>6, <3>2
    <3>4. Found(at, cut)'
      BY <3>1, <3>2, <3>3 DEF Found
    <3>5. cut[Len(runs') - 1] <= at
      BY <1>7, <2>3
    <3> QED
      BY <1>15, <2>4, <3>4, <3>5
  <2> QED
    BY <2>5, <2>6
<1>22. CASE Document!FormatFront
  <2>1. retain <= offset /\ n < Len(Document!here) /\ counted' = n
    BY <1>18, <1>22 DEF Document!FormatFront, n
  <2>2. at = offset
    BY <1>12, <2>1
  <2>3. position = m
    <3> SUFFICES ASSUME position # m PROVE FALSE
      OBVIOUS
    <3>1. Len(Document!here) = 0
      BY <1>12, <1>14, <2>2
    <3> QED
      BY <1>12, <2>1, <3>1
  <2>4. RunSplit(runs, position, n, runs')
    BY <1>18, <1>22, <2>3, FormatFrontIs
  <2>5. /\ (at + n) - cut[position - 1] = n /\ at + n \in Nat
        /\ cut[position - 1] <= at + n /\ at + n <= cut[position]
    <3>1. cut[position - 1] = at /\ cut[position] = high /\ at + n <= high
      BY <1>7, <1>11, <1>13, <2>2, <2>3
    <3> QED
      BY <1>12, <3>1
  <2> PICK c : c = CutSplit(cut, m, position, at + n)
    OBVIOUS
  <2>6. Spelt(c, runs', word)
    BY <1>6, <1>8, <2>4, <2>5, SpeltSplit
  <2>7. Len(runs') > 0 /\ Len(runs') - 1 = position
    <3>1. Len(runs') = m + 1
      BY <2>4 DEF RunSplit
    <3> QED
      BY <1>6, <2>3, <3>1
  <2>8. c[position] = at + n
    BY <1>6 DEF CutSplit
  <2>9. counted' >= n /\ c[Len(runs') - 1] <= at + n
    BY <1>12, <2>1, <2>5, <2>7, <2>8
  <2> QED
    BY <1>15, <2>6, <2>7, <2>9
<1> QED
  BY <1>19, <1>20, <1>21, <1>22

-----------------------------------------------------------------------------
(* The text while children come and go, and when it is edited               *)
LEMMA TextRests ==
    ASSUME UNCHANGED <<text, runs, failed>>, TextFollows, ~rough, TextStill,
           delta' = <<>> \/ Change'.kind \notin Changes
    PROVE  TextFollows'
<1>1. Chars' = Chars
  BY DEF Chars, Document!Characters
<1>2. TextStill'
  BY <1>1 DEF TextStill, Marked
<1>3. ~failed'
  BY DEF TextFollows
<1> QED
  BY <1>2, <1>3 DEF TextFollows, Changes

LEMMA ChildStepsText ==
    ASSUME DocTypes, ChildrenFollow, TextFollows,
           Document!Skip \/ Document!Add \/ Document!Drop
    PROVE  TextFollows'
<1>1. /\ delta # <<>> /\ Document!op.kind \in {"skip", "add", "drop"} /\ delta' = Tail(delta)
      /\ UNCHANGED <<text, rough, runs, failed>>
  BY DEF Document!Skip, Document!Add, Document!Drop, Document!Applying, Document!NextItem,
         Document!runtime
<1>2. /\ Document!op = delta[1] /\ Len(delta) \in Nat /\ Len(Tail(delta)) = Len(delta) - 1
      /\ \A k \in 1..(Len(delta) - 1) : Tail(delta)[k] = delta[k + 1]
      /\ Len(delta) = 1 => Tail(delta) = <<>>
  BY <1>1, OpIs
<1> SUFFICES ASSUME ~rough PROVE TextFollows'
  BY <1>1 DEF TextFollows
<1>3. TextStill
  BY <1>1, <1>2 DEF TextFollows
<1>4. CASE Document!op.kind = "skip"
  <2>1. ChildChange(2, delta[1].n)
    BY <1>1, <1>2, <1>4 DEF ChildrenFollow
  <2>2. Len(delta) = 2 /\ delta[2].kind \in {"add", "drop"}
    BY <2>1 DEF ChildChange, Addition
  <2>3. 1 \in 1..(Len(delta) - 1) /\ 1 + 1 = 2 /\ Len(delta') = 1
    BY <1>1, <1>2, <2>2
  <2>4. delta'[1] = delta[1 + 1]
    BY <1>1, <1>2, <2>3
  <2>5. delta'[1] = delta[2]
    BY <2>3, <2>4, Zenon
  <2>6. Change' = delta'[1]
    BY <2>3 DEF Change
  <2>7. Change'.kind \notin Changes
    BY <2>2, <2>5, <2>6 DEF Changes
  <2> QED
    BY <1>1, <1>3, <2>7, TextRests
<1>5. CASE Document!op.kind \in {"add", "drop"}
  <2>1. ChildChange(1, retain)
    BY <1>1, <1>2, <1>5 DEF ChildrenFollow
  <2>2. Len(delta) = 1
    BY <2>1 DEF ChildChange
  <2>3. delta' = <<>>
    BY <1>1, <1>2, <2>2
  <2> QED
    BY <1>1, <1>3, <2>3, TextRests
<1> QED
  BY <1>1, <1>4, <1>5

LEMMA ChildEditsText ==
    ASSUME DocTypes, TextFollows, delta = <<>>, NEW at \in Nat,
           Document!InsertChild(at) \/ Document!DeleteChild(at) \/ Document!ReplaceChild(at)
    PROVE  TextFollows'
<1>1. CASE Document!ReplaceChild(at)
  BY <1>1 DEF Document!ReplaceChild, TextFollows
<1>2. ASSUME NEW change \in {"add", "drop"}, NEW new \in Seq(Nat),
             Document!Report(Document!Delta(change, at, 1, new)), UNCHANGED <<text, rough>>
      PROVE  TextFollows'
  <2> SUFFICES ASSUME ~rough PROVE TextFollows'
    BY <1>2 DEF TextFollows
  <2>1. change \in ItemKinds /\ 1 \in Nat
    BY DEF ItemKinds
  <2>2. /\ at = 0 => Len(delta') = 1 /\ delta'[1] = Document!Item(change, 1, new)
        /\ at # 0 => Len(delta') = 2 /\ delta'[2] = Document!Item(change, 1, new)
        /\ UNCHANGED <<runs, failed>>
    BY <1>2, <2>1, ReportIs
  <2>3. Change' = Document!Item(change, 1, new)
    BY <2>2 DEF Change
  <2>4. Change'.kind \notin Changes
    BY <2>3 DEF Document!Item, Changes
  <2>5. TextStill
    BY DEF TextFollows
  <2> QED
    BY <1>2, <2>2, <2>4, <2>5, TextRests
<1>3. CASE Document!InsertChild(at)
  <2> DEFINE new == <<childrenMade + 1>>
  <2>1. Document!Report(Document!Delta("add", at, 1, new)) /\ UNCHANGED <<text, rough>>
    BY <1>3 DEF Document!InsertChild
  <2>2. new \in Seq(Nat)
    BY DEF DocTypes
  <2> HIDE DEF new
  <2> QED
    BY <1>2, <2>1, <2>2
<1>4. CASE Document!DeleteChild(at)
  <2>1. Document!Report(Document!Delta("drop", at, 1, <<>>)) /\ UNCHANGED <<text, rough>>
    BY <1>4 DEF Document!DeleteChild
  <2>2. <<>> \in Seq(Nat)
    BY EmptySeq
  <2> QED
    BY <1>2, <2>1, <2>2
<1> QED
  BY <1>1, <1>3, <1>4

(* The invariant.  The deltas that are under way lead from the user's copy  *)
(* to the runtime's: a report has its types and its place, the children     *)
(* that are left to add and to drop make the runtime's out of the user's,   *)
(* and the runs spell the word that the walk over the text has come to.     *)
DocInv == DocTypes /\ TextStage /\ ChildrenFollow /\ TextFollows

(* An edit of the text                                                      *)
LEMMA TextEdit ==
    ASSUME DocInv, delta = <<>>, text' \in Seq(Letter), textMade' \in 0..MaxText, rough' \in BOOLEAN,
           UNCHANGED <<children, childrenMade>>, rough => rough',
           NEW change \in Changes, NEW at \in Nat, NEW n \in Nat, NEW new \in Seq(Nat),
           Document!Report(Document!Delta(change, at, n, new)),
           (~rough') => /\ Change'.kind = change
                        /\ change = "insert" => InsertWalk'
                        /\ change = "delete" => DeleteWalk'
                        /\ change = "format" => FormatWalk'
    PROVE  DocInv'
<1>1. DocTypes' /\ TextStage'
  BY EditTyped DEF DocInv
<1>2. /\ delta' # <<>> /\ delta'[1].kind \in Changes \cup {"retain"}
      /\ UNCHANGED <<nodes, failed>>
  <2>1. change \in ItemKinds /\ Skips(change) = "retain"
    BY DEF ItemKinds, Changes, Skips
  <2>2. /\ at = 0 => delta'[1] = Document!Item(change, n, new)
        /\ at # 0 => delta'[1] = Document!Item("retain", at, <<>>)
        /\ delta' # <<>> /\ UNCHANGED <<nodes, failed>>
    BY <2>1, ReportIs DEF DocInv
  <2> QED
    BY <2>2 DEF Document!Item
<1>3. ChildrenFollow'
  BY <1>2, TextStepsChildren DEF DocInv
<1>4. TextFollows'
  <2>1. delta'[1].kind \notin {"skip", "add", "drop"}
    BY <1>2 DEF Changes
  <2> SUFFICES ASSUME ~rough' PROVE TextFollows'
    BY DEF TextFollows
  <2>2. ~failed'
    BY <1>2 DEF DocInv, TextFollows
  <2> QED
    BY <1>2, <2>1, <2>2 DEF TextFollows
<1> QED
  BY <1>1, <1>3, <1>4 DEF DocInv

LEMMA TextEdits ==
    ASSUME DocInv, delta = <<>>, NEW at \in 0..Len(text)
    PROVE  /\ \A n \in 1..MaxText : Document!InsertText(at, n) => DocInv'
           /\ \A n \in 1..(Len(text) - at) : Document!DeleteText(at, n) => DocInv'
           /\ \A n \in 1..(Len(text) - at) : Document!FormatText(at, n) => DocInv'
<1>1. /\ DocTypes /\ TextFollows /\ textMade \in 0..MaxText /\ rough \in BOOLEAN
      /\ ~rough => TextStill
  BY DEF DocInv, DocTypes, TextFollows
<1>2. <<>> \in Seq(Nat) /\ {"insert", "delete", "format"} \subseteq Changes
  BY EmptySeq DEF Changes
<1>3. ASSUME NEW n \in 1..MaxText, Document!InsertText(at, n) PROVE DocInv'
  <2>1. /\ NewCharacters(n) \in Seq(Nat) /\ n \in Nat /\ at \in Nat
        /\ text' \in Seq(Letter) /\ textMade' \in 0..MaxText
        /\ Document!Report(Document!Delta("insert", at, n, NewCharacters(n)))
        /\ UNCHANGED <<children, childrenMade, rough>>
    BY <1>1, <1>3, InsertTextIs
  <2>2. (~rough') => InsertWalk' /\ Change'.kind = "insert"
    BY <1>1, <1>3, <2>1, InsertTextFollows
  <2> QED
    BY <1>1, <1>2, <2>1, <2>2, TextEdit
<1>4. ASSUME NEW n \in 1..(Len(text) - at), Document!DeleteText(at, n) PROVE DocInv'
  <2>1. /\ n \in Nat /\ at \in Nat /\ text' \in Seq(Letter)
        /\ Document!Report(Document!Delta("delete", at, n, <<>>))
        /\ UNCHANGED <<children, textMade, childrenMade>>
        /\ rough' \in BOOLEAN /\ (rough => rough')
    BY <1>1, <1>4, DeleteTextIs
  <2>2. (~rough') => DeleteWalk' /\ Change'.kind = "delete"
    BY <1>1, <1>4, <2>1, DeleteTextFollows
  <2> QED
    BY <1>1, <1>2, <2>1, <2>2, TextEdit
<1>5. ASSUME NEW n \in 1..(Len(text) - at), Document!FormatText(at, n) PROVE DocInv'
  <2>1. /\ n \in Nat /\ at \in Nat /\ text' \in Seq(Letter)
        /\ Document!Report(Document!Delta("format", at, n, <<>>))
        /\ UNCHANGED <<children, textMade, childrenMade>>
        /\ rough' \in BOOLEAN /\ (rough => rough')
    BY <1>1, <1>5, FormatTextIs
  <2>2. (~rough') => FormatWalk' /\ Change'.kind = "format"
    BY <1>1, <1>5, <2>1, FormatTextFollows
  <2> QED
    BY <1>1, <1>2, <2>1, <2>2, TextEdit
<1> QED
  BY <1>3, <1>4, <1>5

LEMMA EmptyText ==
    ASSUME NEW r, r = <<[insert |-> <<>>, bold |-> FALSE]>>
    PROVE  /\ r \in Seq(TextRun) /\ Len(r) = 1 /\ r[1].insert = <<>> /\ Len(r[1].insert) = 0
<1> DEFINE one == [insert |-> <<>>, bold |-> FALSE]
<1>1. <<>> \in Seq(Nat) /\ Len(<<>>) = 0
  BY EmptySeq
<1>2. one \in TextRun /\ one.insert = <<>>
  BY <1>1 DEF TextRun
<1> HIDE DEF one
<1>3. r = <<one>>
  BY DEF one
<1>4. r \in Seq(TextRun) /\ Len(r) = 1 /\ r[1] = one
  BY <1>2, <1>3, OneRun
<1> QED
  BY <1>1, <1>2, <1>4

LEMMA DocInit ==
    ASSUME Document!Init
    PROVE  DocInv
<1>1. /\ text = <<>> /\ children = <<>> /\ textMade = 0 /\ childrenMade = 0
      /\ delta = <<>> /\ runs = <<[insert |-> <<>>, bold |-> FALSE]>> /\ nodes = <<>>
      /\ position = 1 /\ retain = 0 /\ offset = 0 /\ counted = 0 /\ failed = FALSE
      /\ rough = FALSE
  BY DEF Document!Init
<1>2. runs \in Seq(TextRun) /\ Len(runs) = 1 /\ Len(runs[1].insert) = 0
  BY <1>1, EmptyText
<1>3. DocTypes
  <2>1. /\ text \in Seq(Letter) /\ children \in Seq(Nat) /\ delta \in Seq(Items)
        /\ nodes \in Seq(Nat)
    BY <1>1, EmptySeq
  <2>2. \A k \in 1..Len(nodes) : FALSE
    BY <1>1, EmptySeq
  <2>3. position \in 1..(Len(runs) + 1) /\ textMade \in 0..MaxText
    BY <1>1, <1>2, PartsAssumption
  <2> QED
    <3>1. childrenMade \in Nat /\ retain \in Int /\ offset \in Nat /\ counted \in Nat
      BY <1>1
    <3>2. failed \in BOOLEAN /\ rough \in BOOLEAN
      BY <1>1
    <3>3. Known(nodes)
      BY <2>2 DEF Known
    <3> QED
      BY <1>2, <2>1, <2>3, <3>1, <3>2, <3>3 DEF DocTypes
<1>4. TextStage /\ ChildrenFollow
  BY <1>1 DEF TextStage, ChildrenFollow, ChildrenSame
<1>5. Chars \in Seq(Nat) /\ Len(Chars) = 0
  <2>1. Len(text) = 0
    BY <1>1, EmptySeq
  <2> QED
    BY <1>3, <2>1, CharsAre
<1>6. \E cut : Spelt(cut, runs, Chars)
  <2>1. \A k \in 1..Len(Chars) : runs[1].insert[k] = Chars[k]
    BY <1>5
  <2> QED
    BY <1>2, <1>5, <2>1, OneSpelt
<1>7. TextStill
  BY <1>2, <1>6 DEF TextStill
<1>8. TextFollows
  BY <1>1, <1>7 DEF TextFollows
<1> QED
  BY <1>3, <1>4, <1>8 DEF DocInv

(* A step of the walk over the text                                         *)
LEMMA WalkSteps ==
    ASSUME DocInv,
           \/ Document!Retain \/ Document!Advance \/ Document!Insert \/ Document!Done
           \/ Document!OutOfRuns
           \/ Document!DeleteEnd \/ Document!DeleteMiddle \/ Document!DeleteRun
           \/ Document!DeleteFront
           \/ Document!FormatEnd \/ Document!FormatMiddle \/ Document!FormatRun
           \/ Document!FormatFront
    PROVE  DocInv'
<1>1. DocTypes /\ TextStage /\ TextFollows /\ ChildrenFollow
  BY DEF DocInv
<1>2. /\ delta # <<>> /\ UNCHANGED <<children, nodes>> /\ (rough => rough')
      /\ Document!op.kind \in Changes \cup {"retain"}
  <2>1. ASSUME Document!Deleting \/ Document!Formatting
        PROVE  delta # <<>> /\ Document!op.kind \in Changes \cup {"retain"}
    BY <2>1 DEF Document!Deleting, Document!Formatting, Document!Applying, Changes
  <2>2. ASSUME UNCHANGED <<Document!runtime, nodes>>
        PROVE  UNCHANGED <<children, nodes>> /\ (rough => rough')
    BY <2>2 DEF Document!runtime
  <2>3. CASE Document!Retain \/ Document!Advance
    <3>1. /\ delta # <<>> /\ Document!op.kind = "retain" /\ UNCHANGED <<Document!runtime, nodes>>
      BY <2>3 DEF Document!Retain, Document!Advance, Document!Applying
    <3> QED
      BY <2>2, <3>1
  <2>4. CASE Document!Insert
    <3>1. /\ delta # <<>> /\ Document!op.kind = "insert" /\ UNCHANGED <<Document!runtime, nodes>>
      BY <2>4 DEF Document!Insert, Document!Applying
    <3> QED
      BY <2>2, <3>1 DEF Changes
  <2>5. CASE Document!Done
    <3>1. /\ delta # <<>> /\ Document!op.kind \in {"delete", "format"}
          /\ UNCHANGED <<Document!runtime, nodes>>
      BY <2>5 DEF Document!Done
    <3> QED
      BY <2>2, <3>1 DEF Changes
  <2>6. CASE Document!OutOfRuns
    <3>1. /\ delta # <<>> /\ Document!op.kind \in {"retain", "delete", "format"} /\ Document!Fail
      BY <2>6 DEF Document!OutOfRuns
    <3>2. UNCHANGED <<Document!runtime, nodes>>
      BY <3>1 DEF Document!Fail
    <3> QED
      BY <2>2, <3>1, <3>2 DEF Changes
  <2>7. CASE Document!DeleteEnd \/ Document!DeleteMiddle \/ Document!DeleteFront
    <3>1. Document!Deleting /\ UNCHANGED <<Document!runtime, nodes>>
      BY <2>7 DEF Document!DeleteEnd, Document!DeleteMiddle, Document!DeleteFront
    <3> QED
      BY <2>1, <2>2, <3>1
  <2>8. CASE Document!DeleteRun
    <3>1. Document!Deleting /\ UNCHANGED <<Document!runtime, nodes>>
      BY <2>8 DEF Document!DeleteRun, Document!Fail
    <3> QED
      BY <2>1, <2>2, <3>1
  <2>9. CASE \/ Document!FormatEnd \/ Document!FormatMiddle \/ Document!FormatRun
             \/ Document!FormatFront
    <3>1. Document!Formatting /\ UNCHANGED <<Document!runtime, nodes>>
      BY <2>9 DEF Document!FormatEnd, Document!FormatMiddle, Document!FormatRun,
                  Document!FormatFront
    <3> QED
      BY <2>1, <2>2, <3>1
  <2> QED
    BY <2>3, <2>4, <2>5, <2>6, <2>7, <2>8, <2>9
<1>3. delta[1].kind \in Changes \cup {"retain"}
  BY <1>1, <1>2, OpIs
<1>4. ASSUME DocTypes', TextStage', TextFollows',
             delta' = <<>> \/ delta'[1].kind \in Changes \cup {"retain"}
      PROVE  DocInv'
  <2>1. ChildrenFollow'
    BY <1>1, <1>2, <1>3, <1>4, TextStepsChildren
  <2> QED
    BY <1>4, <2>1 DEF DocInv
<1>5. CASE Document!Retain \/ Document!Advance
  <2>1. delta'[1].kind \in Changes \cup {"retain"}
    BY <1>1, <1>5, WalkStep
  <2>2. DocTypes' /\ TextStage' /\ TextFollows'
    BY <1>1, <1>5, WalkTyped, WalkFollows
  <2> QED
    BY <1>4, <2>1, <2>2
<1>6. CASE Document!Insert
  <2>1. Document!op.kind = "insert" /\ delta' = Tail(delta)
    BY <1>6 DEF Document!Insert, Document!Applying, Document!NextItem
  <2>2. delta' = <<>>
    BY <1>1, <1>2, <2>1, ChangeStands DEF Changes
  <2>3. DocTypes' /\ TextStage' /\ TextFollows'
    BY <1>1, <1>6, InsertTyped, InsertFollows
  <2> QED
    BY <1>4, <2>2, <2>3
<1>7. CASE Document!Done
  BY <1>1, <1>4, <1>7, EndTyped, DoneFollows
<1>8. CASE Document!OutOfRuns \/ Document!DeleteRun
  BY <1>1, <1>4, <1>8, FailuresTyped, FailuresFollow
<1>9. CASE Document!DeleteEnd \/ Document!DeleteMiddle \/ Document!DeleteFront
  <2>1. UNCHANGED delta
    BY <1>9 DEF Document!DeleteEnd, Document!DeleteMiddle, Document!DeleteFront
  <2>2. DocTypes' /\ TextStage' /\ TextFollows'
    BY <1>1, <1>9, DeletesTyped, DeletesFollow
  <2> QED
    BY <1>3, <1>4, <2>1, <2>2
<1>10. CASE \/ Document!FormatEnd \/ Document!FormatMiddle
            \/ Document!FormatRun \/ Document!FormatFront
  <2>1. UNCHANGED delta
    BY <1>10 DEF Document!FormatEnd, Document!FormatMiddle, Document!FormatRun,
                 Document!FormatFront
  <2>2. DocTypes' /\ TextStage' /\ TextFollows'
    BY <1>1, <1>10, FormatsTyped, FormatsFollow
  <2> QED
    BY <1>3, <1>4, <2>1, <2>2
<1> QED
  BY <1>5, <1>6, <1>7, <1>8, <1>9, <1>10

LEMMA DocNext ==
    ASSUME DocInv, [Document!Next]_(Document!vars)
    PROVE  DocInv'
<1>1. DocTypes /\ TextStage /\ TextFollows /\ ChildrenFollow
  BY DEF DocInv
<1>2. CASE Document!Edit
  <2>1. delta = <<>>
    BY <1>2 DEF Document!Edit
  <2>2. CASE \E at \in 0..Len(text) : \E n \in 1..MaxText : Document!InsertText(at, n)
    BY <2>1, <2>2, TextEdits
  <2>3. CASE \E at \in 0..Len(text) : \E n \in 1..(Len(text) - at) : Document!DeleteText(at, n)
    BY <2>1, <2>3, TextEdits
  <2>4. CASE \E at \in 0..Len(text) : \E n \in 1..(Len(text) - at) : Document!FormatText(at, n)
    BY <2>1, <2>4, TextEdits
  <2>5. CASE \E at \in 0..Len(children) : Document!InsertChild(at)
    <3>1. PICK at \in 0..Len(children) : Document!InsertChild(at)
      BY <2>5
    <3>2. at \in Nat
      BY <3>1 DEF DocTypes
    <3>3. TextFollows'
      BY <1>1, <2>1, <3>1, <3>2, ChildEditsText
    <3> QED
      BY <1>1, <2>1, <3>1, <3>3, InsertChildSteps DEF DocInv
  <2>6. CASE \E at \in 0..(Len(children) - 1) :
                 Document!DeleteChild(at) \/ Document!ReplaceChild(at)
    <3>1. PICK at \in 0..(Len(children) - 1) :
              Document!DeleteChild(at) \/ Document!ReplaceChild(at)
      BY <2>6
    <3>2. at \in Nat
      BY <3>1 DEF DocTypes
    <3>3. TextFollows'
      BY <1>1, <2>1, <3>1, <3>2, ChildEditsText
    <3>4. DocTypes' /\ TextStage' /\ ChildrenFollow'
      BY <1>1, <2>1, <3>1, DeleteChildSteps, ReplaceChildSteps
    <3> QED
      BY <3>3, <3>4 DEF DocInv
  <2> QED
    BY <1>2, <2>2, <2>3, <2>4, <2>5, <2>6 DEF Document!Edit
<1>3. CASE Document!Skip \/ Document!Add \/ Document!Drop
  <2>1. TextFollows'
    BY <1>1, <1>3, ChildStepsText
  <2>2. DocTypes' /\ TextStage' /\ ChildrenFollow'
    BY <1>1, <1>3, SkipSteps, AddSteps, DropSteps
  <2> QED
    BY <2>1, <2>2 DEF DocInv
<1>4. CASE \/ Document!Retain \/ Document!Advance \/ Document!Insert \/ Document!Done
           \/ Document!OutOfRuns
           \/ Document!DeleteEnd \/ Document!DeleteMiddle \/ Document!DeleteRun
           \/ Document!DeleteFront
           \/ Document!FormatEnd \/ Document!FormatMiddle \/ Document!FormatRun
           \/ Document!FormatFront
  BY <1>4, WalkSteps
<1>5. CASE UNCHANGED Document!vars
  <2>1. UNCHANGED <<text, children, textMade, childrenMade, delta, runs, nodes, position, retain,
                    offset, counted, failed, rough>>
    BY <1>5 DEF Document!vars
  <2>2. DocTypes'
    BY <1>1, <2>1 DEF DocTypes, Known
  <2>3. TextStage'
    BY <1>1, <2>1 DEF TextStage
  <2>4. ChildrenFollow'
    BY <1>1, <2>1 DEF ChildrenFollow, ChildrenSame, ChildChange, Addition, Known
  <2>5. TextFollows'
    <3>1. Chars' = Chars /\ Change' = Change
      BY <2>1 DEF Chars, Document!Characters, Change
    <3>2. \A p : Marked(p)' = Marked(p)
      BY <2>1 DEF Marked
    <3>3. \A at, cut : Found(at, cut)' = Found(at, cut)
      BY <2>1 DEF Found
    <3>4. TextStill => TextStill'
      BY <2>1, <3>1, <3>2 DEF TextStill, Marked
    <3>5. InsertWalk => InsertWalk'
      BY <2>1, <3>1 DEF InsertWalk, Marked, Found
    <3>6. DeleteWalk => DeleteWalk'
      BY <2>1, <3>1 DEF DeleteWalk, Found
    <3>7. FormatWalk => FormatWalk'
      BY <2>1, <3>1 DEF FormatWalk, Found
    <3> QED
      BY <1>1, <2>1, <3>1, <3>4, <3>5, <3>6, <3>7 DEF TextFollows
  <2> QED
    BY <2>2, <2>3, <2>4, <2>5 DEF DocInv
<1> QED
  BY <1>2, <1>3, <1>4, <1>5 DEF Document!Next, Document!Apply

(* The variables have their types (the runtime's text and children, the     *)
(* user's runs and nodes, and the walk of Document.receive_changes).        *)
THEOREM DocTypeCorrect == Document!Spec => []Document!TypeOK
<1>1. DocInv => Document!TypeOK
  <2> SUFFICES ASSUME DocInv PROVE Document!TypeOK
    OBVIOUS
  <2>1. DocTypes
    BY DEF DocInv
  <2>2. \A k \in 1..Len(text) : text[k].c \in 1..MaxText /\ text[k].bold \in BOOLEAN
    <3>1. \A k \in 1..Len(text) : text[k] \in Letter
      BY <2>1 DEF DocTypes
    <3> QED
      BY <3>1 DEF Letter
  <2>3. \A k \in 1..Len(runs) : runs[k].bold \in BOOLEAN
    <3>1. \A k \in 1..Len(runs) : runs[k] \in TextRun
      BY <2>1 DEF DocTypes
    <3> QED
      BY <3>1 DEF TextRun
  <2>4. {nodes[k] : k \in 1..Len(nodes)} \subseteq 1..childrenMade
    BY <2>1 DEF DocTypes, Known
  <2> QED
    BY <2>1, <2>2, <2>3, <2>4 DEF DocTypes, Document!TypeOK
<1> QED
  BY <1>1, DocInit, DocNext, PTL DEF Document!Spec

(* Whatever is inserted anywhere, deleted a character at a time before any  *)
(* formatting, or formatted from the left to the right, and whichever       *)
(* children come and go one at a time: receive_changes walks every delta to *)
(* its end without an exception, and then the user's text and children are  *)
(* the runtime's.                                                           *)
THEOREM CopyFollows == Document!Spec => []Document!CopyAgrees
<1>1. DocInv => Document!CopyAgrees
  <2> SUFFICES ASSUME DocInv, ~rough
               PROVE  /\ ~failed /\ Document!TextAgrees
                      /\ delta = <<>> => nodes = children
    BY DEF Document!CopyAgrees
  <2>1. ~failed
    BY DEF DocInv, TextFollows
  <2>2. delta = <<>> => nodes = children
    BY DEF DocInv, ChildrenFollow, ChildrenSame
  <2>3. ASSUME delta = <<>> PROVE Document!Spells(runs, Chars)
    <3>1. PICK cut : Spelt(cut, runs, Chars)
      BY <2>3 DEF DocInv, TextFollows, TextStill
    <3>2. runs \in Seq(TextRun) /\ Chars \in Seq(Nat)
      BY CharsAre DEF DocInv, DocTypes
    <3> DEFINE word == Chars
    <3>3. Spelt(cut, runs, word) /\ word \in Seq(Nat)
      BY <3>1, <3>2
    <3> HIDE DEF word
    <3>4. \A k \in 0..Len(runs) : cut[k] \in Nat /\ cut[k] <= Len(word)
      BY <3>2, <3>3, SpeltIs
    <3>5. cut \in [0..Len(runs) -> Nat] /\ Document!CutAt(cut, runs, word) /\ Len(word) \in Nat
      BY <3>3 DEF Spelt
    <3>6. cut \in [0..Len(runs) -> 0..Len(word)]
      BY <3>4, <3>5
    <3> QED
      BY <3>5, <3>6 DEF Document!Spells, word
  <2>4. Document!TextAgrees
    BY <2>3 DEF Document!TextAgrees, Chars
  <2> QED
    BY <2>1, <2>2, <2>4
<1> QED
  BY <1>1, DocInit, DocNext, PTL DEF Document!Spec

-----------------------------------------------------------------------------
(* The parts in MCParts: what one of them does there it does by itself, and *)
(* what holds of it holds there.                                            *)

LEMMA HostPart == PartsSpec => Host!Spec
<1>1. PartsInit => Host!Init
  BY DEF PartsInit
<1>2. [PartsNext]_allVars => [Host!Next]_(Host!vars)
  BY DEF PartsNext, allVars, hostVars, Host!vars
<1> QED
  BY <1>1, <1>2, PTL DEF PartsSpec, Host!Spec

LEMMA RequestPart == PartsSpec => Requests!Spec
<1>1. PartsInit => Requests!Init
  BY DEF PartsInit
<1>2. [PartsNext]_allVars => [Requests!Next]_(Requests!vars)
  BY DEF PartsNext, allVars, requestVars, Requests!vars
<1> QED
  BY <1>1, <1>2, PTL DEF PartsSpec, Requests!Spec

LEMMA TransferPart == PartsSpec => Transfer!Spec
<1>1. PartsInit => Transfer!Init
  BY DEF PartsInit
<1>2. [PartsNext]_allVars => [Transfer!Next]_(Transfer!vars)
  BY DEF PartsNext, allVars, transferVars, Transfer!vars
<1> QED
  BY <1>1, <1>2, PTL DEF PartsSpec, Transfer!Spec

LEMMA RestPart == PartsSpec => Rest!Spec
<1>1. PartsInit => Rest!Init
  BY DEF PartsInit
<1>2. [PartsNext]_allVars => [Rest!Next]_(Rest!vars)
  BY DEF PartsNext, allVars, restVars, Rest!vars
<1> QED
  BY <1>1, <1>2, PTL DEF PartsSpec, Rest!Spec

LEMMA FolderPart == PartsSpec => Folder!Spec
<1>1. PartsInit => Folder!Init
  BY DEF PartsInit
<1>2. [PartsNext]_allVars => [Folder!Next]_(Folder!vars)
  BY DEF PartsNext, allVars, folderVars, Folder!vars
<1> QED
  BY <1>1, <1>2, PTL DEF PartsSpec, Folder!Spec

LEMMA DocumentPart == PartsSpec => Document!Spec
<1>1. PartsInit => Document!Init
  BY DEF PartsInit
<1>2. [PartsNext]_allVars => [Document!Next]_(Document!vars)
  BY DEF PartsNext, allVars, documentVars, Document!vars
<1> QED
  BY <1>1, <1>2, PTL DEF PartsSpec, Document!Spec

(* What a method of the REST client returns or raises is what the server    *)
(* answered, and a list that is returned whole has every entry that stood   *)
(* while it was read, once.                                                 *)
THEOREM RestTells == PartsSpec => []RestTellsAll
<1>1. Rest!TypeOK /\ Rest!OutcomeTells /\ Rest!PagesWhole => RestTellsAll
  BY DEF RestTellsAll
<1> QED
  BY <1>1, RestPart, RestTypeCorrect, OutcomesTell, PagesAreWhole, PTL

(* What the files client tells is so, whoever else uses it and whatever the *)
(* files service answers: the endpoint is looked for once, listings come to *)
(* an end, and those of an honest server are whole.                         *)
THEOREM FilesAreTold == PartsSpec => []FilesTold
<1>1. Folder!TypeOK /\ Folder!DiscoveredOnce /\ Folder!ListingEnds => FilesTold
  BY DEF FilesTold
<1> QED
  BY <1>1, FolderPart, FolderTypeCorrect, EndpointFoundOnce, ListingsAreWhole, PTL

(* In a room the copy a user works on follows the runtime's document, where *)
(* the edits are of the kinds that CopyFollows is about.                    *)
THEOREM CopiesAgree == PartsSpec => []CopyAgrees
<1>1. Document!TypeOK /\ Document!CopyAgrees => CopyAgrees
  BY DEF CopyAgrees
<1> QED
  BY <1>1, DocumentPart, DocTypeCorrect, CopyFollows, PTL

(* A host that has stopped is out of every room, but for the calls it       *)
(* answered after their path had stopped, and those a stop that raised left *)
(* behind before the last start (ServiceHost.start and stop).               *)
THEOREM HostIsEmpty == PartsSpec => []StoppedIsEmpty
<1>1. Host!TypeOK /\ Host!StoppedIsEmpty => StoppedIsEmpty
  BY DEF StoppedIsEmpty
<1> QED
  BY <1>1, HostPart, HostTypeCorrect, StopsEmpty, PTL

(* However a call of a toolkit client ends, no query of it stays open on a  *)
(* server that can be told, and what it raises is of the one kind.          *)
THEOREM RequestsAreSettled == PartsSpec => []QueriesClosed
<1>1. Requests!TypeOK /\ Requests!QueriesClosed /\ Requests!OneKindOfError => QueriesClosed
  BY DEF QueriesClosed
<1> QED
  BY <1>1, RequestPart, RequestTypeCorrect, NoQueryLeftOpen, ErrorsAreOfOneKind, PTL

(* What backup() and restore() report as done has moved whole, and a source *)
(* that raised is never stored.                                             *)
THEOREM TransfersAreWhole == PartsSpec => []TransferredWhole
<1>1. Transfer!TypeOK /\ Transfer!TransferredWhole /\ Transfer!AbortIsNoEnd
          => TransferredWhole
  BY DEF TransferredWhole
<1> QED
  BY <1>1, TransferPart, TransferTypeCorrect, MovedWhole, SourceErrorIsNoEnd, PTL

=============================================================================
