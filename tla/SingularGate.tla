----------------------------- MODULE SingularGate -----------------------------
(* What may be touched by whom: the manifest of a repository                    *)
(* (internal/manifest), the classifier that routes every resource to a          *)
(* mechanism, the substrate's routing of the resources a boundary asks for      *)
(* (internal/substrate), and the gate before resources with real effects        *)
(* (internal/singular), whose supervised grants are leases of the ledger.  The  *)
(* daemon reads the manifest as it starts; the grants outlive it.               *)
EXTENDS Naturals, Sequences, FiniteSetsExt, Functions

CONSTANTS
  Manifests,    \* what mad-trellis.json may declare
  Deep,         \* the pattern segment **; any other is the set of names it matches
  PathNames,    \* paths, each a sequence of segments
  Named,        \* names of external resources
  Spelled,      \* for each path that starts with "external:", what follows it
  Requests,     \* lists of resources a provision may ask for
  ReservedEnv,  \* environment names that may not be given: malformed, critical or taken
  Agents,       \* sessions
  GrantTtl      \* how long a grant lasts

Segmented(s) == s \in Seq(Range(s))

ASSUME GateAssumption ==
  /\ GrantTtl \in Nat \ {0} /\ DOMAIN Spelled \subseteq PathNames /\ Range(Spelled) \subseteq Named
  /\ \A p \in PathNames : Segmented(p)
  /\ \A m \in Manifests : /\ DOMAIN m = {"paths", "resources", "grants"}
                          /\ \A k \in 0..2 : \A g \in m.paths[k] : Segmented(g)
  /\ \A reqs \in Requests : \A i \in DOMAIN reqs :
       reqs[i].domain = "path" => reqs[i].ref \in PathNames

VARIABLES
  file,       \* the manifest in the repository: a declaration, "absent" or "malformed"
  policy,     \* what the daemon runs on
  answer,     \* the last answer to a classify.route or a provision
  grants,     \* the ledger's rows for singular resources: holder, time left
  refetching, \* per session: the resource whose grant it turned out to hold itself
  told        \* per session and resource: how long it may count on its grant

gateVars == <<file, policy, answer, grants, refetching, told>>

NoPolicy == [is |-> "not running"]
NoAnswer == [is |-> "none"]
NotAgent == "none"
Nothing == "none"
AbsentFile == [is |-> "absent"]
MalformedFile == [is |-> "malformed"]
ManifestFiles == Manifests \cup {AbsentFile, MalformedFile}
Ungranted == [holder |-> NotAgent, left |-> 0]

-----------------------------------------------------------------------------
(* Patterns.                                                                    *)

\* Fault: ** stands for at least one segment.
MatchSegsDeep(pat, name) ==
  LET m[i \in 1..(Len(pat) + 1)] == [j \in 1..(Len(name) + 1) |->
        IF i > Len(pat) THEN j > Len(name)
        ELSE IF pat[i] = Deep
             THEN \E k \in (j + 1)..(Len(name) + 1) : i = Len(pat) \/ m[i + 1][k]
             ELSE j <= Len(name) /\ name[j] \in pat[i] /\ m[i + 1][j + 1]]
  IN m[1][1]

\* m[i][j]: the pattern from its i-th segment on matches the path from its j-th on.
MatchSegs(pat, name) ==
  LET m[i \in 1..(Len(pat) + 1)] == [j \in 1..(Len(name) + 1) |->
        IF i > Len(pat) THEN j > Len(name)
        ELSE IF pat[i] = Deep
             THEN i = Len(pat) \/ \E k \in j..(Len(name) + 1) : m[i + 1][k]
             ELSE j <= Len(name) /\ name[j] \in pat[i] /\ m[i + 1][j + 1]]
  IN m[1][1]

MatchAny(globs, path) == \E g \in globs : MatchSegs(g, path)

-----------------------------------------------------------------------------
(* The manifest.                                                                *)

\* Kinds, by strictness.
Forkable == 0
Convergent == 1
Singular == 2
Kinds == {Forkable, Convergent, Singular}

DefaultManifest ==
  [paths |-> [k \in Kinds |-> {}], resources |-> [k \in Kinds |-> {}], grants |-> <<>>]

\* A later grant for the same resource replaces an earlier one.
GrantsOf(list) ==
  [r \in {list[i].resource : i \in DOMAIN list} |->
     list[Max({i \in DOMAIN list : list[i].resource = r})]]

ManifestFromRaw(raw) == [raw EXCEPT !.grants = GrantsOf(raw.grants)]

-----------------------------------------------------------------------------
(* The classifier.                                                              *)

Refs == [domain : {"path"}, name : PathNames] \cup [domain : {"external"}, name : Named]
          \cup {[domain |-> "trunk", name |-> <<>>], [domain |-> "unknown", name |-> <<>>]}

Classify(m, ref) ==
  CASE ref.domain = "trunk" -> Convergent
    [] ref.domain = "path" -> IF MatchAny(m.paths[Singular], ref.name) THEN Singular
                              ELSE IF MatchAny(m.paths[Convergent], ref.name) THEN Convergent
                              ELSE Forkable
    [] ref.domain = "external" -> LET decls == {k \in Kinds : ref.name \in m.resources[k]}
                                  IN IF decls = {} THEN Singular ELSE Max(decls)
    [] OTHER -> Singular

TrunkLeaseKey == <<"trunk">>
NoLeaseKey == <<>>
ConvergentExternalKey(name) == <<"convergent", "external:", name>>
ConvergentPathKey(path) ==
  IF path \in DOMAIN Spelled THEN ConvergentExternalKey(Spelled[path]) ELSE <<"convergent", path>>

RouteHandler(m, ref) ==
  LET k == Classify(m, ref)
  IN [ref |-> ref, kind |-> k,
      key |-> IF k # Convergent THEN NoLeaseKey
              ELSE CASE ref.domain = "trunk" -> TrunkLeaseKey
                     [] ref.domain = "path" -> ConvergentPathKey(ref.name)
                     [] OTHER -> ConvergentExternalKey(ref.name)]

\* What a display makes of a key.
PathFromConvergentKey(key) ==
  IF Len(key) = 2 /\ key[1] = "convergent" THEN {key[2]} ELSE {}
ExternalFromConvergentKey(key) == IF Len(key) = 3 THEN {key[3]} ELSE {}
DescribeLeaseKey(key) ==
  CASE PathFromConvergentKey(key) # {} -> <<"path", PathFromConvergentKey(key)>>
    [] ExternalFromConvergentKey(key) # {} -> <<"external", ExternalFromConvergentKey(key)>>
    [] key = TrunkLeaseKey -> <<"trunk", {}>>
    [] OTHER -> <<"key", {key}>>

-----------------------------------------------------------------------------
(* The resources of a boundary.                                                 *)

\* An environment name derived from a reference carries a hash of it.
ResourceEnvName(r) == IF r.name = <<>> THEN <<"derived", r.ref>> ELSE r.name

ResourceRef(r) == [domain |-> r.domain, name |-> r.ref]

Isolated(m, reqs) == {i \in DOMAIN reqs : Classify(m, ResourceRef(reqs[i])) = Forkable}

\* Nothing is overwritten: neither what the substrate sets nor an earlier resource.
ValidEnvNames(m, reqs) ==
  /\ \A i \in Isolated(m, reqs) : ResourceEnvName(reqs[i]) \notin ReservedEnv
  /\ \A i, j \in Isolated(m, reqs) :
       i # j => ResourceEnvName(reqs[i]) # ResourceEnvName(reqs[j])

RouteResources(m, reqs) ==
  [ok |-> ValidEnvNames(m, reqs),
   env |-> {<<ResourceEnvName(reqs[i]), ResourceRef(reqs[i])>> : i \in Isolated(m, reqs)},
   deferred |-> {ResourceRef(reqs[i]) : i \in DOMAIN reqs \ Isolated(m, reqs)}]

-----------------------------------------------------------------------------
(* The gate.                                                                    *)

\* The mode of a declared grant; any other word is a denial.
NormalizeMode(mode) == IF mode \in {"mock", "proxy", "supervised"} THEN mode ELSE "deny"

Resolve(m, r) ==
  IF Classify(m, [domain |-> "external", name |-> r]) # Singular \/ r \notin DOMAIN m.grants
  THEN "deny"
  ELSE LET g == m.grants[r]
       IN IF NormalizeMode(g.mode) = "supervised" /\ ~g.endpoint THEN "deny"
          ELSE NormalizeMode(g.mode)

\* Who does not have a grant to ask for is denied, or sent elsewhere, and nothing changes.
\* The ledger grants what nobody holds; what the session turns out to hold it renews next.
Request(s, r) ==
  /\ policy # NoPolicy /\ refetching[s] = Nothing
  /\ Resolve(policy, r) = "supervised"
  /\ \/ /\ grants[r].left = 0
        /\ grants' = [grants EXCEPT ![r] = [holder |-> s, left |-> GrantTtl]]
        /\ told' = [told EXCEPT ![s][r] = GrantTtl]
        /\ UNCHANGED refetching
     \/ /\ grants[r].left > 0 /\ grants[r].holder = s
        /\ refetching' = [refetching EXCEPT ![s] = r]
        /\ UNCHANGED <<grants, told>>
  /\ UNCHANGED <<file, policy, answer>>

\* Fault: that the session held the grant a moment ago is enough.
RequestRenewsAnyway(s) ==
  /\ policy # NoPolicy /\ refetching[s] # Nothing
  /\ refetching' = [refetching EXCEPT ![s] = Nothing]
  /\ LET r == refetching[s]
     IN /\ told' = [told EXCEPT ![s][r] = GrantTtl]
        /\ grants' = IF grants[r].holder = s /\ grants[r].left > 0
                     THEN [grants EXCEPT ![r].left = GrantTtl] ELSE grants
  /\ UNCHANGED <<file, policy, answer>>

RequestRenews(s) ==
  /\ policy # NoPolicy /\ refetching[s] # Nothing
  /\ refetching' = [refetching EXCEPT ![s] = Nothing]
  /\ LET r == refetching[s]
     IN IF grants[r].holder = s /\ grants[r].left > 0
        THEN /\ grants' = [grants EXCEPT ![r].left = GrantTtl]
             /\ told' = [told EXCEPT ![s][r] = GrantTtl]
        ELSE UNCHANGED <<grants, told>>
  /\ UNCHANGED <<file, policy, answer>>

\* A renewal asks neither the classifier nor the manifest.
RenewGrant(s, r) ==
  /\ policy # NoPolicy /\ refetching[s] = Nothing
  /\ grants[r].holder = s /\ grants[r].left > 0
  /\ grants' = [grants EXCEPT ![r].left = GrantTtl]
  /\ told' = [told EXCEPT ![s][r] = GrantTtl]
  /\ UNCHANGED <<file, policy, answer, refetching>>

ReleaseSupervised(s, r) ==
  /\ policy # NoPolicy /\ refetching[s] = Nothing
  /\ grants[r].holder = s
  /\ grants' = [grants EXCEPT ![r] = Ungranted]
  /\ told' = [told EXCEPT ![s][r] = 0]
  /\ UNCHANGED <<file, policy, answer, refetching>>

-----------------------------------------------------------------------------
(* The daemon and the repository.                                               *)

\* Anybody may edit the manifest; the daemon does not look again.
EditManifest(f) ==
  /\ f # file /\ file' = f
  /\ UNCHANGED <<policy, answer, grants, refetching, told>>

\* A broken manifest keeps the daemon from starting.
LoadManifest ==
  /\ policy = NoPolicy /\ file # MalformedFile
  /\ policy' = ManifestFromRaw(IF file = AbsentFile THEN DefaultManifest ELSE file)
  /\ UNCHANGED <<file, answer, grants, refetching, told>>

DaemonEnds ==
  /\ policy # NoPolicy
  /\ policy' = NoPolicy /\ answer' = NoAnswer /\ refetching' = [s \in Agents |-> Nothing]
  /\ UNCHANGED <<file, grants, told>>

ClassifyRoute(ref) ==
  /\ policy # NoPolicy
  /\ answer' = RouteHandler(policy, ref)
  /\ UNCHANGED <<file, policy, grants, refetching, told>>

ProvisionResources(reqs) ==
  /\ policy # NoPolicy
  /\ answer' = RouteResources(policy, reqs)
  /\ UNCHANGED <<file, policy, grants, refetching, told>>

GrantsAge ==
  /\ \E r \in Named : grants[r].left > 0
  /\ grants' = [r \in Named |-> [grants[r] EXCEPT !.left = IF @ = 0 THEN 0 ELSE @ - 1]]
  /\ told' = [s \in Agents |-> [r \in Named |-> IF told[s][r] = 0 THEN 0 ELSE told[s][r] - 1]]
  /\ UNCHANGED <<file, policy, answer, refetching>>

GateInit ==
  /\ file \in ManifestFiles
  /\ policy = NoPolicy /\ answer = NoAnswer
  /\ grants = [r \in Named |-> Ungranted]
  /\ refetching = [s \in Agents |-> Nothing]
  /\ told = [s \in Agents |-> [r \in Named |-> 0]]

GateNext ==
  \/ \E f \in ManifestFiles : EditManifest(f)
  \/ LoadManifest \/ DaemonEnds \/ GrantsAge
  \/ \E ref \in Refs : ClassifyRoute(ref)
  \/ \E reqs \in Requests : ProvisionResources(reqs)
  \/ \E s \in Agents, r \in Named : Request(s, r) \/ RenewGrant(s, r) \/ ReleaseSupervised(s, r)
  \/ \E s \in Agents : RequestRenews(s)

-----------------------------------------------------------------------------

GateTypeOK ==
  /\ file \in ManifestFiles
  /\ policy \in {NoPolicy} \cup {ManifestFromRaw(m) : m \in Manifests \cup {DefaultManifest}}
  /\ grants \in [Named -> [holder : Agents \cup {NotAgent}, left : 0..GrantTtl]]
  /\ refetching \in [Agents -> Named \cup {Nothing}]
  /\ told \in [Agents -> [Named -> 0..GrantTtl]]

\* Who was told of a supervised grant, less than its time ago, has it, so that no two sessions
\* count on one resource: also across renewals that race an expiry and a daemon that restarts
\* with another manifest (Gate.Request, Renew).
GrantsExclusive ==
  \A s \in Agents, r \in Named :
    told[s][r] > 0 => grants[r].holder = s /\ grants[r].left >= told[s][r]

\* What a pattern matches, without the search: a way to cut the path into the segments'
\* matches.
Matched(pat, name) ==
  \E cut \in [0..Len(pat) -> 0..Len(name)] :
    /\ cut[0] = 0 /\ cut[Len(pat)] = Len(name)
    /\ \A i \in 1..Len(pat) :
         IF pat[i] = Deep THEN cut[i - 1] <= cut[i]
         ELSE cut[i] = cut[i - 1] + 1 /\ name[cut[i]] \in pat[i]

Declared(m, ref, k) ==
  CASE ref.domain = "path" -> \E g \in m.paths[k] : Matched(g, ref.name)
    [] ref.domain = "external" -> ref.name \in m.resources[k]
    [] OTHER -> ref.domain = "trunk" /\ k = Convergent

StrictestKind(m, ref) ==
  LET declared == {k \in Kinds : Declared(m, ref, k)}
  IN IF declared # {} THEN Max(declared)
     ELSE IF ref.domain = "path" THEN Forkable ELSE Singular

RightRoute(m, a) ==
  /\ a.kind = StrictestKind(m, a.ref)
  /\ a.kind = Convergent /\ ~(a.ref.domain = "path" /\ a.ref.name \in DOMAIN Spelled) =>
       DescribeLeaseKey(a.key) =
         <<a.ref.domain, IF a.ref.domain = "trunk" THEN {} ELSE {a.ref.name}>>

RightResources(m, a) ==
  /\ \A e \in a.env : StrictestKind(m, e[2]) = Forkable
  /\ \A ref \in a.deferred : StrictestKind(m, ref) # Forkable
  /\ a.ok => \A e, f \in a.env : e[1] = f[1] => e = f

\* What is answered of a resource is the strictest kind that is declared of it, and where
\* nothing is, a path may be copied and anything else is singular; two resources have one
\* lease only where a path is spelled like an external one, and a key shows whose it is
\* (Classify, Route, and the substrate's use of them).
ClassifiedUpward ==
  answer # NoAnswer =>
    IF "ref" \in DOMAIN answer THEN RightRoute(policy, answer) ELSE RightResources(policy, answer)
===============================================================================
