--------------------------- MODULE DispatchProofs ---------------------------
(***************************************************************************)
(* Theorems about Dispatch, for all configuration files, requests, weights *)
(* and names.                                                              *)
(***************************************************************************)
EXTENDS Dispatch, DataProofs, FiniteSetTheorems

-----------------------------------------------------------------------------
(* LoadConfig.                                                             *)

\* The configuration is loaded.
Configured ==
    /\ Valid(file)
    /\ providers = [name \in DOMAIN file.providers |-> Loaded(file.providers[name])]

LEMMA TrimmedType ==
    ASSUME NEW path \in Seq(STRING), NEW query
    PROVE  Trimmed(path, query) \in Seq(STRING)
<1>1. PICK n \in Nat : n = Len(path)
  OBVIOUS
<1>2. PICK T : T = {k \in 0 .. n : \A i \in k + 1 .. n : path[i] = "/"}
  OBVIOUS
<1>3. T \subseteq Nat /\ T # {}
  <2>1. n \in T
    BY <1>1, <1>2
  <2> QED
    BY <1>1, <1>2, <2>1
<1>4. PICK k \in T : \A m \in T : k <= m
  BY ONLY <1>3, LeastElement
<1>5. k = 0 \/ path[k] # "/"
  <2> SUFFICES ASSUME k # 0, path[k] = "/" PROVE FALSE
    OBVIOUS
  <2>1. k - 1 \in 0 .. n
    BY <1>2
  <2>2. ASSUME NEW i \in (k - 1) + 1 .. n PROVE path[i] = "/"
    <3>1. i = k \/ i \in k + 1 .. n
      BY <1>2
    <3> QED
      BY <1>2, <3>1
  <2>3. k - 1 \in T
    BY <1>2, <2>1, <2>2
  <2> QED
    BY <1>2, <1>4, <2>3
<1>6. PICK f : f = CHOOSE m \in 0 .. Len(path) :
                     /\ m = 0 \/ path[m] # "/"
                     /\ \A i \in m + 1 .. Len(path) : path[i] = "/"
  OBVIOUS
<1>7. f \in 0 .. Len(path)
  <2>1. /\ k \in 0 .. Len(path)
        /\ k = 0 \/ path[k] # "/"
        /\ \A i \in k + 1 .. Len(path) : path[i] = "/"
    BY <1>1, <1>2, <1>5
  <2> QED
    BY <1>6, <2>1, Zenon
<1>8. SubSeq(path, 1, f) \in Seq(STRING)
  BY <1>7
<1> QED
  BY <1>6, <1>8 DEF Trimmed

LEMMA LoadedProviders ==
    ASSUME file \in Files, Configured
    PROVE  /\ IsFiniteSet(DOMAIN providers)
           /\ DOMAIN providers \subseteq {Names[i] : i \in 1 .. Len(Names)}
           /\ \A name \in DOMAIN providers :
                 /\ providers[name] = Loaded(file.providers[name])
                 /\ name \in DOMAIN file.providers
                 /\ providers[name].capabilities \in (SUBSET Protocols) \ {{}}
                 /\ Weight(name) \in 0 .. MaxInt
                 /\ providers[name].base \in Seq(STRING)
<1>1. DOMAIN providers = DOMAIN file.providers
  BY DEF Configured
<1>2. DOMAIN providers \subseteq {Names[i] : i \in 1 .. Len(Names)}
  BY <1>1 DEF Configured, Valid, ValidProvider
<1>3. IsFiniteSet(DOMAIN providers)
  <2>1. IsFiniteSet(1 .. Len(Names))
    <3>1. Len(Names) \in Nat
      BY DispatchAssumption
    <3> QED
      BY <3>1, FS_Interval
  <2>2. PICK D, N : D = {Names[i] : i \in 1 .. Len(Names)} /\ N = [i \in 1 .. Len(Names) |-> Names[i]]
    OBVIOUS
  <2>3. N \in Surjection(1 .. Len(Names), D)
    BY <2>2 DEF Surjection
  <2>4. IsFiniteSet(D)
    BY <2>1, <2>3, FS_Surjection
  <2>5. DOMAIN providers \in SUBSET D
    BY <1>2, <2>2
  <2> QED
    BY <2>4, <2>5, FS_Subset
<1>4. ASSUME NEW name \in DOMAIN providers
      PROVE  /\ providers[name] = Loaded(file.providers[name])
             /\ name \in DOMAIN file.providers
             /\ providers[name].capabilities \in (SUBSET Protocols) \ {{}}
             /\ Weight(name) \in 0 .. MaxInt
             /\ providers[name].base \in Seq(STRING)
  <2>1. name \in DOMAIN file.providers /\ providers[name] = Loaded(file.providers[name])
    BY <1>1 DEF Configured
  <2>2. /\ file.providers[name].path \in Seq(STRING)
        /\ file.providers[name].weight \in -(MaxInt + 1) .. MaxInt
    BY <2>1, FilesAssumption
  <2>3. /\ file.providers[name].weight >= 0
        /\ file.providers[name].capabilities \subseteq Protocols
    BY <2>1 DEF Configured, Valid, ValidProvider
  <2>4. Weight(name) \in 0 .. MaxInt
    BY <2>1, <2>2, <2>3, DispatchAssumption DEF Weight, Loaded
  <2>5. providers[name].capabilities \in (SUBSET Protocols) \ {{}}
    BY <2>1, <2>3 DEF Loaded, Protocols
  <2>6. providers[name].base \in Seq(STRING)
    BY <2>1, <2>2, TrimmedType DEF Loaded
  <2> QED
    BY <2>1, <2>4, <2>5, <2>6
<1> QED
  BY <1>2, <1>3, <1>4
-----------------------------------------------------------------------------
(* The order of the active providers.                                      *)

Active == {name \in DOMAIN providers : Weight(name) > 0}

LEMMA SortedProperties ==
    ASSUME NEW S, IsFiniteSet(S), NEW s \in Sorted(S)
    PROVE  /\ s \in Seq(S)
           /\ Len(s) = Cardinality(S)
           /\ {s[i] : i \in 1 .. Len(s)} = S
           /\ \A i, j \in 1 .. Len(s) : i < j => s[i] # s[j] /\ ~Before(s[j], s[i])
<1>1. PICK c : c = Cardinality(S) /\ c \in Nat
  BY FS_CardinalityType
<1>2. /\ s \in [1 .. c -> S]
      /\ \A i, j \in 1 .. c : i < j => s[i] # s[j] /\ ~Before(s[j], s[i])
  BY <1>1 DEF Sorted
<1>3. s \in Seq(S) /\ Len(s) = c
  BY <1>1, <1>2
<1>4. s \in Injection(1 .. c, S)
  <2>1. ASSUME NEW i \in 1 .. c, NEW j \in 1 .. c, s[i] = s[j] PROVE i = j
    <3>1. i \in Int /\ j \in Int /\ (i < j \/ j < i \/ i = j)
      BY <1>1
    <3> QED
      BY <1>2, <2>1, <3>1
  <2> QED
    BY <1>2, <2>1 DEF Injection, IsInjective
<1>5. s \in Surjection(1 .. c, S)
  <2>1. Cardinality(1 .. c) = Cardinality(S)
    BY <1>1, FS_Interval
  <2> QED
    BY <1>4, <2>1, FS_Injection
<1>6. {s[i] : i \in 1 .. c} = S
  BY <1>2, <1>5 DEF Surjection
<1> QED
  BY <1>1, <1>2, <1>3, <1>6

\* a comes before b in the order of the active providers.
InOrder == {p \in Active \X Active : p[1] # p[2] /\ ~Before(p[2], p[1])}

\* The active providers that speak a protocol.
Capable(protocol) == {name \in Active : protocol = None \/ HasCapability(name, protocol)}

\* A sequence of names has each name of V, in the order of the relation R.
Lists(s, V, R) ==
    /\ s \in Seq(Active)
    /\ {s[i] : i \in 1 .. Len(s)} = V
    /\ \A i, j \in 1 .. Len(s) : i < j => <<s[i], s[j]>> \in R

LEMMA SelectionLists ==
    ASSUME NEW s, NEW V, NEW R, NEW S, Lists(s, V, R)
    PROVE  Lists(Selected(s, S), S \cap V, R)
<1>1. PICK T : T = Active
  OBVIOUS
<1>2. s \in Seq(T) /\ \A i, j \in 1 .. Len(s) : i < j => <<s[i], s[j]>> \in R
  BY <1>1 DEF Lists
<1>3. \A k, l \in 1 .. Len(Selected(s, S)) :
         k < l => <<Selected(s, S)[k], Selected(s, S)[l]>> \in R
  BY ONLY <1>2, SelectedOrder
<1>4. /\ Selected(s, S) \in Seq(T)
      /\ {Selected(s, S)[k] : k \in 1 .. Len(Selected(s, S))} = S \cap {s[i] : i \in 1 .. Len(s)}
  BY ONLY <1>2, SelectedMembers
<1> QED
  BY <1>1, <1>3, <1>4 DEF Lists

LEMMA CapableOfProperties ==
    ASSUME IsFiniteSet(DOMAIN providers), active \in Sorted(Active), NEW protocol
    PROVE  Lists(CapableOf(protocol), Capable(protocol), InOrder)
<1>1. IsFiniteSet(Active)
  BY FS_Subset DEF Active
<1>2. /\ active \in Seq(Active)
      /\ {active[i] : i \in 1 .. Len(active)} = Active
      /\ \A i, j \in 1 .. Len(active) : i < j => active[i] # active[j] /\ ~Before(active[j], active[i])
  BY <1>1, SortedProperties
<1>3. Lists(active, Active, InOrder)
  BY <1>2 DEF InOrder, Lists
<1>4. PICK S : S = {p \in DOMAIN providers : protocol = None \/ HasCapability(p, protocol)}
  OBVIOUS
<1>5. S \cap Active = Capable(protocol)
  BY <1>4 DEF Capable, Active
<1>6. CapableOf(protocol) = Selected(active, S)
  BY <1>4 DEF CapableOf
<1> QED
  BY <1>3, <1>5, <1>6, SelectionLists, Zenon

LEMMA OthersProperties ==
    ASSUME IsFiniteSet(DOMAIN providers), active \in Sorted(Active), NEW r, NEW primary
    PROVE  Lists(Others(r, primary), Capable(Protocol(r.path)) \ {primary}, InOrder)
<1>1. Lists(CapableOf(Protocol(r.path)), Capable(Protocol(r.path)), InOrder)
  BY CapableOfProperties
<1>2. PICK S : S = DOMAIN providers \ {primary}
  OBVIOUS
<1>3. S \cap Capable(Protocol(r.path)) = Capable(Protocol(r.path)) \ {primary}
  BY <1>2 DEF Capable, Active
<1>4. Others(r, primary) = Selected(CapableOf(Protocol(r.path)), S)
  BY <1>2 DEF Others, Candidates
<1> QED
  BY <1>1, <1>3, <1>4, SelectionLists, Zenon

\* The weighted choice takes one of the candidates.
LEMMA PickMember ==
    ASSUME NEW T, NEW candidates \in Seq(T), candidates # <<>>, NEW pick
    PROVE  \E i \in 1 .. Len(candidates) : Pick(candidates, pick) = candidates[i]
<1>1. Len(candidates) \in 1 .. Len(candidates)
  <2>1. Len(candidates) \in Nat /\ Len(candidates) # 0
    OBVIOUS
  <2> QED
    BY <2>1
<1>2. PICK covering : covering = {i \in 1 .. Len(candidates) : pick < Upto(candidates)[i]}
  OBVIOUS
<1>3. CASE covering = {}
  BY <1>1, <1>2, <1>3 DEF Pick
<1>4. CASE covering # {}
  <2>1. covering \subseteq Nat
    BY <1>2
  <2>2. PICK f : f = CHOOSE i \in covering : \A j \in covering : i <= j
    OBVIOUS
  <2>3. f \in covering
    <3>1. \E i \in covering : \A j \in covering : i <= j
      BY ONLY <1>4, <2>1, LeastElement
    <3> QED
      BY <2>2, <3>1, Zenon
  <2>4. Pick(candidates, pick) = candidates[f]
    BY <1>2, <1>4, <2>2 DEF Pick
  <2> QED
    BY <1>2, <2>3, <2>4
<1> QED
  BY <1>3, <1>4
-----------------------------------------------------------------------------
(* Sums of weights.                                                        *)

LEMMA UptoValues ==
    ASSUME NEW T, NEW s, s \in Seq(T), \A t \in T : Weight(t) \in Nat
    PROVE  /\ Upto(s) \in [0 .. Len(s) -> Nat]
           /\ Upto(s)[0] = 0
           /\ \A i \in 1 .. Len(s) : Upto(s)[i] = Upto(s)[i - 1] + Weight(s[i])
<1>1. PICK n \in Nat : n = Len(s)
  OBVIOUS
<1>2. PICK X : X = Nat
  OBVIOUS
<1>3. PICK G : G = [i \in 1 .. n |-> [q \in X |-> q + Weight(s[i])]]
  OBVIOUS
<1>4. ASSUME NEW i \in 1 .. n, NEW q \in X PROVE q + Weight(s[i]) \in X
  <2>1. Weight(s[i]) \in Nat
    BY <1>1
  <2> QED
    BY <1>2, <2>1
<1>5. G \in [1 .. n -> [X -> X]]
  BY <1>3, <1>4
<1>6. PICK F \in [0 .. n -> X] :
          /\ F[0] = 0
          /\ \A i \in 1 .. n : F[i] = G[i][F[i - 1]]
  <2>1. n \in Nat /\ 0 \in X
    BY <1>2
  <2> QED
    BY ONLY <2>1, <1>5, LoopHasValues
<1>7. ASSUME NEW i \in 1 .. n PROVE G[i][F[i - 1]] = F[i - 1] + Weight(s[i])
  <2>1. i - 1 \in 0 .. n
    OBVIOUS
  <2>2. F[i - 1] \in X
    BY <2>1
  <2> QED
    BY <1>3, <2>2
<1>8. F = [i \in 0 .. n |-> IF i = 0 THEN 0 ELSE F[i - 1] + Weight(s[i])]
  <2>1. ASSUME NEW i \in 0 .. n
        PROVE  F[i] = IF i = 0 THEN 0 ELSE F[i - 1] + Weight(s[i])
    <3>1. CASE i = 0
      BY <3>1, <1>6
    <3>2. CASE i # 0
      <4>1. i \in 1 .. n
        BY <3>2
      <4> QED
        BY <3>2, <4>1, <1>6, <1>7
    <3> QED
      BY <3>1, <3>2
  <2> QED
    BY <2>1
<1>9. PICK H : H = Upto(s)
  OBVIOUS
<1>10. H = [i \in 0 .. n |-> IF i = 0 THEN 0 ELSE H[i - 1] + Weight(s[i])]
  BY <1>1, <1>8, <1>9 DEF Upto
<1>11. H[0] = 0 /\ \A i \in 1 .. n : H[i] = H[i - 1] + Weight(s[i])
  <2>1. 0 \in 0 .. n /\ \A i \in 1 .. n : i \in 0 .. n /\ i # 0
    OBVIOUS
  <2> QED
    BY <2>1, <1>10, Zenon
<1>12. H \in [0 .. n -> X]
  <2>1. DOMAIN H = 0 .. n /\ H = [i \in DOMAIN H |-> H[i]]
    BY <1>10
  <2>2. H[0] \in X
    BY <1>2, <1>11
  <2>3. \A i \in 1 .. n : H[i - 1] \in X => H[i] \in X
    BY <1>4, <1>11
  <2> QED
    BY ONLY <2>1, <2>2, <2>3, n \in Nat, LoopStaysInside
<1> QED
  BY <1>1, <1>2, <1>9, <1>11, <1>12

LEMMA TotalWeightType ==
    ASSUME NEW T, NEW s, s \in Seq(T), \A t \in T : Weight(t) \in Nat
    PROVE  /\ Sum(s) \in Nat
           /\ TotalWeight(s) \in Int
           /\ Sum(s) <= MaxInt => TotalWeight(s) = Sum(s)
<1>1. Sum(s) \in Nat
  <2>1. Upto(s) \in [0 .. Len(s) -> Nat]
    BY UptoValues
  <2>2. Len(s) \in 0 .. Len(s)
    OBVIOUS
  <2> QED
    BY <2>1, <2>2 DEF Sum
<1>2. PICK m, k : m = MaxInt + 1 /\ k = Sum(s) /\ m \in Nat /\ k \in Nat /\ m > 0
  <2>1. MaxInt + 1 \in Nat /\ MaxInt + 1 > 0
    BY DispatchAssumption
  <2> QED
    BY <1>1, <2>1, Zenon
<1>3. TotalWeight(s) = ((k + m) % (2 * m)) - m
  <2>1. k + MaxInt + 1 = k + m
    BY <1>2, DispatchAssumption
  <2> QED
    BY <1>2, <2>1 DEF TotalWeight
<1>4. (k + m) % (2 * m) \in Int
  <2>1. k + m \in Int /\ 2 * m \in Int /\ 2 * m > 0
    BY <1>2
  <2> QED
    BY <2>1
<1>5. CASE k <= MaxInt
  <2>1. k + m \in Nat /\ 2 * m \in Nat /\ k + m < 2 * m
    BY <1>2, <1>5, DispatchAssumption
  <2>2. (k + m) % (2 * m) = k + m
    BY ONLY <2>1
  <2> QED
    BY <1>1, <1>2, <1>3, <2>2
<1>6. CASE ~(k <= MaxInt)
  BY <1>1, <1>2, <1>3, <1>4, <1>6
<1> QED
  BY <1>5, <1>6

LEMMA ActiveWeights ==
    ASSUME file \in Files, Configured
    PROVE  \A name \in Active : Weight(name) \in Nat /\ Weight(name) > 0
BY LoadedProviders, DispatchAssumption DEF Active
-----------------------------------------------------------------------------
(* The inductive invariant.                                                *)

\* The attempts for a request without pin: the weighted choice, and then the others
\* in their order.
Attempted ==
    \E primary \in Capable(Protocol(request.path)) :
        /\ attempts \in Seq({Forward(request, name) : name \in DOMAIN providers})
        /\ Len(attempts) \in 1 .. Len(Others(request, primary)) + 1
        /\ attempts[1] = Forward(request, primary)
        /\ \A i \in 2 .. Len(attempts) :
              attempts[i] = Forward(request, Others(request, primary)[i - 1])
        /\ Len(attempts) > 1 => Protocol(request.path) # None

\* What may have become of the request.
Served ==
    \/ /\ answer = 401
       /\ attempts = <<>>
    \/ /\ answer = 400
       /\ attempts = <<>>
       /\ Pinned(request.path)
       /\ Unresolved(request) \/ Incapable(request)
    \/ /\ answer = 503
       /\ attempts = <<>>
       /\ ~Pinned(request.path)
       /\ CapableOf(Protocol(request.path)) = <<>>
    \/ /\ answer = None
       /\ Pinned(request.path) /\ ~Unresolved(request) /\ ~Incapable(request)
       /\ attempts = <<Forward(request, PinOf(request.path))>>
    \/ /\ answer = None
       /\ ~Pinned(request.path)
       /\ Attempted

\* NewGateway has seen to the active providers.
Ordered == Configured /\ active \in Sorted(Active)

DispatchInv ==
    /\ file \in Files
    /\ phase \in {"loading", "loaded", "refused", "serving"}
    /\ providers = <<>> \/ Configured
    /\ active = <<>> \/ Ordered
    /\ phase \in {"loading", "loaded"} => active = <<>>
    /\ phase = "loaded" => Configured
    /\ phase = "serving" => Ordered /\ active # <<>> /\ TotalWeight(active) > 0
    /\ phase = "refused" /\ Valid(file) =>
          Ordered /\ (active = <<>> \/ TotalWeight(active) <= 0)
    /\ phase # "serving" => request = None
    /\ request = None => answer = None /\ attempts = <<>>
    /\ request # None => request \in Requests /\ Served

\* The configuration does not change any more.
LEMMA Frame ==
    ASSUME UNCHANGED <<file, providers>>
    PROVE  /\ Valid(file)' = Valid(file)
           /\ Configured' = Configured
           /\ Sorted(Active)' = Sorted(Active)
           /\ \A s : TotalWeight(s)' = TotalWeight(s)
           /\ \A r : Unresolved(r)' = Unresolved(r)
           /\ \A r : Incapable(r)' = Incapable(r)
           /\ \A protocol : Capable(protocol)' = Capable(protocol)
           /\ \A r, name : Forward(r, name)' = Forward(r, name)
<1>1. Valid(file)' = Valid(file)
  BY DEF Valid, ValidProvider
<1>2. Configured' = Configured
  BY DEF Configured, Loaded, Valid, ValidProvider
<1>3. Sorted(Active)' = Sorted(Active)
  BY DEF Sorted, Active, Weight, Before
<1>4. \A s : TotalWeight(s)' = TotalWeight(s)
  BY DEF TotalWeight, Sum, Upto, Weight
<1>5. \A r : Unresolved(r)' = Unresolved(r)
  BY DEF Unresolved
<1>6. \A r : Incapable(r)' = Incapable(r)
  BY DEF Incapable, HasCapability
<1>7. \A protocol : Capable(protocol)' = Capable(protocol)
  BY DEF Capable, Active, Weight, HasCapability
<1>8. \A r, name : Forward(r, name)' = Forward(r, name)
  BY DEF Forward, ProviderHeaders, CopiedHeaders, IsProviderHeader, Token
<1> QED
  BY <1>1, <1>2, <1>3, <1>4, <1>5, <1>6, <1>7, <1>8

LEMMA FrameActive ==
    ASSUME UNCHANGED <<file, providers, active>>
    PROVE  /\ Ordered' = Ordered
           /\ \A protocol : CapableOf(protocol)' = CapableOf(protocol)
           /\ \A r, name : Others(r, name)' = Others(r, name)
<1>1. Ordered' = Ordered
  BY Frame DEF Ordered
<1>2. \A protocol : CapableOf(protocol)' = CapableOf(protocol)
  BY DEF CapableOf, HasCapability
<1>3. \A r, name : Others(r, name)' = Others(r, name)
  BY DEF Others, Candidates, CapableOf, HasCapability
<1> QED
  BY <1>1, <1>2, <1>3

LEMMA LoadConfigKeeps ==
    ASSUME DispatchInv, LoadConfig
    PROVE  DispatchInv'
<1>1. /\ file' = file /\ active = <<>> /\ active' = <<>> /\ file \in Files
      /\ request = None /\ request' = None
      /\ answer' = None /\ attempts' = <<>>
  BY DEF DispatchInv, LoadConfig
<1>2. Valid(file)' = Valid(file)
  BY <1>1 DEF Valid, ValidProvider
<1>3. CASE Valid(file)
  <2>1. phase' = "loaded"
    BY <1>3 DEF LoadConfig
  <2>2. Configured'
    BY <1>1, <1>2, <1>3 DEF LoadConfig, Configured, Loaded
  <2> QED
    BY <1>1, <2>1, <2>2 DEF DispatchInv
<1>4. CASE ~Valid(file)
  <2>1. phase' = "refused" /\ providers' = providers
    BY <1>4 DEF LoadConfig
  <2>2. Configured' = Configured
    BY <1>1, <2>1, Frame
  <2> QED
    BY <1>1, <1>2, <1>4, <2>1, <2>2 DEF DispatchInv
<1> QED
  BY <1>3, <1>4

LEMMA NewGatewayKeeps ==
    ASSUME DispatchInv, NewGateway
    PROVE  DispatchInv'
<1>1. /\ file' = file /\ providers' = providers /\ file \in Files
      /\ request = None /\ request' = None
      /\ answer' = None /\ attempts' = <<>>
      /\ Configured
  BY DEF DispatchInv, NewGateway
<1>2. PICK s \in Sorted(Active) :
         /\ active' = s
         /\ phase' = IF s = <<>> \/ TotalWeight(s) <= 0 THEN "refused" ELSE "serving"
  BY DEF NewGateway, Active
<1>3. Ordered'
  BY <1>1, <1>2, Frame DEF Ordered
<1>4. TotalWeight(active)' = TotalWeight(s)
  BY <1>1, <1>2, Frame
<1>5. Configured'
  BY <1>3 DEF Ordered
<1>6. s = <<>> \/ TotalWeight(s) <= 0 \/ TotalWeight(s) > 0
  <2>1. IsFiniteSet(Active)
    BY <1>1, LoadedProviders, FS_Subset DEF Active
  <2>2. s \in Seq(Active)
    BY <2>1, SortedProperties
  <2>3. TotalWeight(s) \in Int
    BY <1>1, <2>2, ActiveWeights, TotalWeightType
  <2> QED
    BY <2>3
<1> QED
  BY <1>1, <1>2, <1>3, <1>4, <1>5, <1>6 DEF DispatchInv

LEMMA ServeAPIHTTPKeeps ==
    ASSUME DispatchInv, NEW r \in Requests, ServeAPIHTTP(r)
    PROVE  DispatchInv'
<1>1. /\ UNCHANGED <<file, phase, providers, active>>
      /\ phase = "serving" /\ request' = r
      /\ file \in Files /\ Ordered /\ active # <<>> /\ TotalWeight(active) > 0
      /\ answer = None /\ attempts = <<>>
      /\ None \notin {400, 401, 503} /\ r # None
  BY DispatchAssumption DEF DispatchInv, ServeAPIHTTP
<1>2. Configured /\ active \in Sorted(Active) /\ IsFiniteSet(DOMAIN providers)
  BY <1>1, LoadedProviders DEF Ordered
<1>3. Served'
  <2>1. CASE ~Authorized(r) /\ Answers(r, 401)
    BY <1>1, <2>1 DEF Answers, Served
  <2>2. CASE Unresolved(r) /\ Answers(r, 400)
    <3>1. answer' = 400 /\ attempts' = <<>> /\ Pinned(request'.path)
      BY <1>1, <2>2 DEF Answers, Unresolved
    <3>2. Unresolved(request)'
      BY <1>1, <2>2, Frame
    <3> QED
      BY <1>1, <2>2, <3>1, <3>2 DEF Served, Unresolved
  <2>3. CASE Pinned(r.path) /\ ~Unresolved(r) /\ Incapable(r) /\ Answers(r, 400)
    <3>1. Incapable(request)'
      BY <1>1, <2>3, Frame
    <3> QED
      BY <1>1, <2>3, <3>1 DEF Served, Answers
  <2>4. CASE Pinned(r.path) /\ ~Unresolved(r) /\ ~Incapable(r) /\ Sends(r, PinOf(r.path))
    <3>1. ~Incapable(request)' /\ ~Unresolved(request)'
      BY <1>1, <2>4, Frame
    <3>2. Forward(request, PinOf(request.path))' = Forward(r, PinOf(r.path))
      BY <1>1, Frame
    <3> QED
      BY <1>1, <2>4, <3>1, <3>2 DEF Served, Sends
  <2>5. CASE ~Pinned(r.path) /\ CapableOf(Protocol(r.path)) = <<>> /\ Answers(r, 503)
    <3>1. CapableOf(Protocol(request.path))' = <<>>
      BY <1>1, <2>5, FrameActive
    <3> QED
      BY <1>1, <2>5, <3>1 DEF Served, Answers
  <2>6. ASSUME ~Pinned(r.path), CapableOf(Protocol(r.path)) # <<>>,
               NEW pick, Sends(r, Pick(CapableOf(Protocol(r.path)), pick))
        PROVE  Served'
    <3>1. PICK candidates, name : /\ candidates = CapableOf(Protocol(r.path))
                                  /\ name = Pick(candidates, pick)
      OBVIOUS
    <3>2. Lists(candidates, Capable(Protocol(r.path)), InOrder)
      BY <1>2, <3>1, CapableOfProperties
    <3>3. name \in Capable(Protocol(r.path))
      <4>1. \E i \in 1 .. Len(candidates) : name = candidates[i]
        BY <2>6, <3>1, <3>2, PickMember DEF Lists
      <4> QED
        BY <3>2, <4>1 DEF Lists
    <3>4. name \in Capable(Protocol(request.path))'
      BY <1>1, <3>3, Frame
    <3>5. Forward(request, name)' = Forward(r, name) /\ attempts' = <<Forward(r, name)>>
      BY <1>1, <2>6, <3>1, Frame DEF Sends
    <3>6. Others(request, name)' = Others(r, name) /\ Len(Others(r, name)) \in Nat
      <4>1. Others(request, name)' = Others(r, name)
        BY <1>1, FrameActive
      <4> QED
        BY <1>2, <4>1, OthersProperties DEF Lists
    <3>7. Attempted'
      <4>1. PICK S : S = {Forward(request, n)' : n \in DOMAIN providers'}
        OBVIOUS
      <4>2. Forward(r, name) \in S
        BY <1>1, <3>3, <3>5, <4>1 DEF Capable, Active
      <4>3. attempts' \in Seq(S) /\ Len(attempts') = 1 /\ attempts'[1] = Forward(request, name)'
        BY <3>5, <4>2
      <4>4. Len(attempts') \in 1 .. Len(Others(request, name)') + 1
        BY <3>6, <4>3
      <4> QED
        BY <3>4, <4>1, <4>3, <4>4, SMTT(30) DEF Attempted
    <3> QED
      BY <1>1, <2>6, <3>7 DEF Served, Sends
  <2> QED
    BY <2>1, <2>2, <2>3, <2>4, <2>5, <2>6 DEF ServeAPIHTTP, Dispatched
<1>4. Ordered' /\ TotalWeight(active)' > 0
  BY <1>1, Frame, FrameActive
<1>5. Configured'
  BY <1>4 DEF Ordered
<1> QED
  BY <1>1, <1>3, <1>4, <1>5 DEF DispatchInv

LEMMA FailoverKeeps ==
    ASSUME DispatchInv, Failover
    PROVE  DispatchInv'
<1>1. /\ UNCHANGED <<file, phase, providers, active, request, answer>>
      /\ attempts # <<>> /\ ~Pinned(request.path) /\ Protocol(request.path) # None
      /\ file \in Files
  BY DEF DispatchInv, Failover
<1>2. request # None /\ request \in Requests /\ phase = "serving" /\ Ordered
  BY <1>1 DEF DispatchInv
<1>3. answer = None /\ Attempted
  BY <1>1, <1>2 DEF DispatchInv, Served
<1>4. PICK primary \in Capable(Protocol(request.path)) :
        /\ attempts \in Seq({Forward(request, name) : name \in DOMAIN providers})
        /\ Len(attempts) \in 1 .. Len(Others(request, primary)) + 1
        /\ attempts[1] = Forward(request, primary)
        /\ \A i \in 2 .. Len(attempts) :
              attempts[i] = Forward(request, Others(request, primary)[i - 1])
  BY <1>3 DEF Attempted
<1>5. PICK others, n : others = Others(request, primary) /\ n = Len(attempts)
  OBVIOUS
<1>6. others = Others(request, attempts[1].provider)
  <2>1. attempts[1].provider = primary
    BY <1>4 DEF Forward
  <2> QED
    BY <1>5, <2>1
<1>7. n <= Len(others) /\ attempts' = Append(attempts, Forward(request, others[n]))
  BY <1>5, <1>6 DEF Failover
<1>8. /\ others \in Seq(Active) /\ Len(others) \in Nat
      /\ n \in Nat /\ n >= 1
  <2>1. IsFiniteSet(DOMAIN providers) /\ active \in Sorted(Active)
    BY <1>1, <1>2, LoadedProviders DEF Ordered
  <2>2. others \in Seq(Active)
    BY <1>5, <2>1, OthersProperties DEF Lists
  <2> QED
    BY <1>4, <1>5, <2>2
<1>9. others[n] \in Active /\ Active \subseteq DOMAIN providers
  BY <1>7, <1>8 DEF Active
<1>10. PICK S : S = {Forward(request, name) : name \in DOMAIN providers}
  OBVIOUS
<1>11. Forward(request, others[n]) \in S
  BY <1>9, <1>10
<1>12. /\ attempts' \in Seq(S) /\ Len(attempts') = n + 1
       /\ \A i \in 1 .. n : attempts'[i] = attempts[i]
       /\ attempts'[n + 1] = Forward(request, others[n])
  <2>1. attempts \in Seq(S)
    BY <1>4, <1>10
  <2> QED
    BY <1>5, <1>7, <1>11, <2>1, AppendProperties
<1>13. /\ S = {Forward(request, name)' : name \in DOMAIN providers'}
       /\ primary \in Capable(Protocol(request.path))'
       /\ Others(request, primary)' = others
       /\ \A name : Forward(request, name)' = Forward(request, name)
  <2>1. \A name : Forward(request, name)' = Forward(request, name)
    BY <1>1, Frame
  <2>2. primary \in Capable(Protocol(request.path))'
    BY <1>1, Frame
  <2>3. Others(request, primary)' = others
    BY <1>1, <1>5, FrameActive
  <2> QED
    BY <1>1, <1>10, <2>1, <2>2, <2>3
<1>14. Attempted'
  <2>1. Len(attempts') \in 1 .. Len(others) + 1
    BY <1>7, <1>8, <1>12
  <2>2. attempts'[1] = Forward(request, primary)
    BY <1>4, <1>8, <1>12
  <2>3. ASSUME NEW i \in 2 .. Len(attempts')
        PROVE  attempts'[i] = Forward(request, others[i - 1])
    <3>1. CASE i = n + 1
      <4>1. i - 1 = n
        BY <1>8, <3>1
      <4> QED
        BY <1>12, <3>1, <4>1
    <3>2. CASE i # n + 1
      <4>1. i \in 2 .. n /\ i \in 1 .. n
        BY <1>8, <1>12, <3>2
      <4> QED
        BY <1>4, <1>5, <1>12, <4>1
    <3> QED
      BY <3>1, <3>2
  <2> QED
    BY <1>1, <1>12, <1>13, <2>1, <2>2, <2>3 DEF Attempted
<1>15. Served'
  BY <1>1, <1>3, <1>14 DEF Served
<1>16. Ordered' /\ TotalWeight(active)' = TotalWeight(active)
  BY <1>1, <1>2, Frame, FrameActive
<1>17. Configured'
  BY <1>16 DEF Ordered
<1> QED
  BY <1>1, <1>2, <1>15, <1>16, <1>17 DEF DispatchInv

LEMMA StutterKeeps ==
    ASSUME DispatchInv, UNCHANGED vars
    PROVE  DispatchInv'
<1>1. UNCHANGED <<file, phase, providers, active, request, answer, attempts>>
  BY DEF vars
<1>2. /\ Configured' = Configured /\ Ordered' = Ordered /\ Valid(file)' = Valid(file)
      /\ TotalWeight(active)' = TotalWeight(active)
  BY <1>1, Frame, FrameActive
<1>3. Attempted => Attempted'
  <2> SUFFICES ASSUME Attempted PROVE Attempted'
    OBVIOUS
  <2>1. Capable(Protocol(request.path))' = Capable(Protocol(request.path))
    BY <1>1, Frame
  <2>2. \A name : Forward(request, name)' = Forward(request, name)
    BY <1>1, Frame
  <2>3. \A name : Others(request, name)' = Others(request, name)
    BY <1>1, FrameActive
  <2>4. {Forward(request, name)' : name \in DOMAIN providers'}
           = {Forward(request, name) : name \in DOMAIN providers}
    BY <1>1, <2>2
  <2>5. PICK primary \in Capable(Protocol(request.path)) :
          /\ attempts \in Seq({Forward(request, name) : name \in DOMAIN providers})
          /\ Len(attempts) \in 1 .. Len(Others(request, primary)) + 1
          /\ attempts[1] = Forward(request, primary)
          /\ \A i \in 2 .. Len(attempts) :
                attempts[i] = Forward(request, Others(request, primary)[i - 1])
          /\ Len(attempts) > 1 => Protocol(request.path) # None
    BY DEF Attempted
  <2>6. primary \in Capable(Protocol(request.path))'
    BY <2>1
  <2>7. attempts' \in Seq({Forward(request, name)' : name \in DOMAIN providers'})
    BY <1>1, <2>4, <2>5
  <2>8. Others(request, primary)' = Others(request, primary)
    BY <2>3
  <2>9. attempts'[1] = Forward(request, primary)'
    BY <1>1, <2>2, <2>5
  <2>10. \A i \in 2 .. Len(attempts) :
            attempts'[i] = Forward(request, Others(request, primary)[i - 1])'
    <3>1. ASSUME NEW i \in 2 .. Len(attempts)
          PROVE  attempts'[i] = Forward(request, Others(request, primary)[i - 1])'
      <4>1. attempts'[i] = Forward(request, Others(request, primary)[i - 1])
        BY <1>1, <2>5
      <4> QED
        BY <2>2, <2>8, <4>1
    <3> QED
      BY <3>1
  <2> QED
    BY <1>1, <2>5, <2>6, <2>7, <2>8, <2>9, <2>10 DEF Attempted
<1>4. Served => Served'
  <2>1. /\ Unresolved(request)' = Unresolved(request)
        /\ Incapable(request)' = Incapable(request)
        /\ CapableOf(Protocol(request.path))' = CapableOf(Protocol(request.path))
        /\ Forward(request, PinOf(request.path))' = Forward(request, PinOf(request.path))
    BY <1>1, Frame, FrameActive
  <2> QED
    BY <1>1, <1>3, <2>1 DEF Served
<1> QED
  BY <1>1, <1>2, <1>4 DEF DispatchInv

\* DispatchInv holds in every reachable state: what the gateway routes by is what
\* LoadConfig and NewGateway made of the file, and the attempts are the chosen
\* provider and then the others that speak the protocol, in their order.
THEOREM DispatchInvariance == Spec => []DispatchInv
<1>1. Init => DispatchInv
  BY DEF Init, DispatchInv
<1>2. DispatchInv /\ [Next]_vars => DispatchInv'
  <2> SUFFICES ASSUME DispatchInv, [Next]_vars PROVE DispatchInv'
    OBVIOUS
  <2>1. CASE LoadConfig
    BY <2>1, LoadConfigKeeps
  <2>2. CASE NewGateway
    BY <2>2, NewGatewayKeeps
  <2>3. ASSUME NEW r \in Requests, ServeAPIHTTP(r) PROVE DispatchInv'
    BY <2>3, ServeAPIHTTPKeeps
  <2>4. CASE Failover
    BY <2>4, FailoverKeeps
  <2>5. CASE UNCHANGED vars
    BY <2>5, StutterKeeps
  <2> QED
    BY <2>1, <2>2, <2>3, <2>4, <2>5 DEF Next
<1> QED
  BY <1>1, <1>2, PTL DEF Spec
-----------------------------------------------------------------------------
(* What follows.                                                           *)

LEMMA ForwardProvider ==
    ASSUME NEW r, NEW name
    PROVE  Forward(r, name).provider = name
BY DEF Forward

\* Whom an attempt goes to.
LEMMA AttemptTarget ==
    ASSUME DispatchInv, NEW i \in 1 .. Len(attempts)
    PROVE  /\ Ordered /\ phase = "serving" /\ request \in Requests /\ answer = None
           /\ \E name \in DOMAIN providers :
                 /\ attempts[i] = Forward(request, name)
                 /\ Pinned(request.path) => /\ Len(attempts) = 1
                                            /\ name = PinOf(request.path)
                                            /\ ~Incapable(request)
                 /\ ~Pinned(request.path) => name \in Capable(Protocol(request.path))
<1>1. attempts # <<>>
  <2>1. Len(<<>>) = 0
    OBVIOUS
  <2> QED
    BY <2>1
<1>2. /\ Ordered /\ phase = "serving" /\ request \in Requests /\ Served
      /\ file \in Files
  BY <1>1 DEF DispatchInv
<1>3. answer = None
  BY <1>1, <1>2 DEF Served
<1>4. CASE Pinned(request.path)
  <2>1. /\ attempts = <<Forward(request, PinOf(request.path))>>
        /\ ~Unresolved(request) /\ ~Incapable(request)
    BY <1>1, <1>2, <1>4 DEF Served
  <2>2. PinOf(request.path) \in DOMAIN providers
    BY <1>4, <2>1 DEF Unresolved
  <2>3. Len(attempts) = 1 /\ attempts[i] = Forward(request, PinOf(request.path))
    BY <2>1
  <2> QED
    BY <1>2, <1>3, <1>4, <2>1, <2>2, <2>3
<1>5. CASE ~Pinned(request.path)
  <2>1. Attempted
    BY <1>1, <1>2, <1>5 DEF Served
  <2>2. PICK primary \in Capable(Protocol(request.path)) :
          /\ Len(attempts) \in 1 .. Len(Others(request, primary)) + 1
          /\ attempts[1] = Forward(request, primary)
          /\ \A k \in 2 .. Len(attempts) :
                attempts[k] = Forward(request, Others(request, primary)[k - 1])
    BY <2>1 DEF Attempted
  <2>3. PICK others : others = Others(request, primary)
    OBVIOUS
  <2>4. Lists(others, Capable(Protocol(request.path)) \ {primary}, InOrder)
    <3>1. IsFiniteSet(DOMAIN providers) /\ active \in Sorted(Active)
      BY <1>2, LoadedProviders DEF Ordered
    <3> QED
      BY <2>3, <3>1, OthersProperties
  <2>5. \A name \in Capable(Protocol(request.path)) : name \in DOMAIN providers
    BY DEF Capable, Active
  <2>6. CASE i = 1
    BY <1>2, <1>3, <1>5, <2>2, <2>5, <2>6
  <2>7. CASE i # 1
    <3>1. i \in 2 .. Len(attempts) /\ i - 1 \in 1 .. Len(others)
      BY <2>2, <2>3, <2>4, <2>7 DEF Lists
    <3>2. others[i - 1] \in Capable(Protocol(request.path))
      BY <2>4, <3>1 DEF Lists
    <3> QED
      BY <1>2, <1>3, <1>5, <2>2, <2>3, <2>5, <3>1, <3>2
  <2> QED
    BY <2>6, <2>7
<1> QED
  BY <1>4, <1>5

\* Every variable keeps its type: a provider has a capability and a weight that is
\* an int, and attempts go to providers that exist.
THEOREM DispatchTypeCorrect == Spec => []TypeOK
<1>1. DispatchInv => TypeOK
  <2> SUFFICES ASSUME DispatchInv PROVE TypeOK
    OBVIOUS
  <2>1. ASSUME NEW name \in DOMAIN providers
        PROVE  /\ providers[name].capabilities \in (SUBSET Protocols) \ {{}}
               /\ Weight(name) \in 0 .. MaxInt
    <3>1. Configured /\ file \in Files
      BY DEF DispatchInv
    <3> QED
      BY <3>1, LoadedProviders
  <2>2. {active[i] : i \in 1 .. Len(active)} \subseteq DOMAIN providers
    <3>1. CASE active = <<>>
      BY <3>1
    <3>2. CASE Ordered
      <4>1. IsFiniteSet(Active) /\ active \in Sorted(Active)
        BY <3>2, LoadedProviders, FS_Subset DEF DispatchInv, Ordered, Active
      <4>2. {active[i] : i \in 1 .. Len(active)} = Active
        BY <4>1, SortedProperties
      <4> QED
        BY <4>2 DEF Active
    <3> QED
      BY <3>1, <3>2 DEF DispatchInv
  <2>3. ASSUME NEW i \in 1 .. Len(attempts) PROVE attempts[i].provider \in DOMAIN providers
    <3>1. PICK name \in DOMAIN providers : attempts[i] = Forward(request, name)
      BY AttemptTarget
    <3> QED
      BY <3>1, ForwardProvider
  <2>4. request \in Requests \cup {None} /\ answer \in {None, 400, 401, 503}
    BY DEF DispatchInv, Served
  <2>5. request # None <=> (answer # None \/ attempts # <<>>)
    <3>1. CASE request = None
      BY <3>1 DEF DispatchInv
    <3>2. CASE request # None
      <4>1. answer \in {400, 401, 503} \/ attempts # <<>>
        <5>1. Attempted => attempts # <<>>
          <6>1. Attempted => Len(attempts) \in Nat /\ Len(attempts) # 0
            BY DEF Attempted
          <6>2. Len(<<>>) = 0
            OBVIOUS
          <6> QED
            BY <6>1, <6>2
        <5>2. attempts = <<Forward(request, PinOf(request.path))>> => attempts # <<>>
          <6>1. /\ Len(<<Forward(request, PinOf(request.path))>>) = 1
                /\ Len(<<>>) = 0
            OBVIOUS
          <6> QED
            BY <6>1
        <5>3. Served
          BY <3>2 DEF DispatchInv
        <5> QED
          BY <5>1, <5>2, <5>3 DEF Served
      <4> QED
        BY <3>2, <4>1, DispatchAssumption
    <3> QED
      BY <3>1, <3>2
  <2> QED
    BY <2>1, <2>2, <2>3, <2>4, <2>5 DEF TypeOK, DispatchInv
<1> QED
  BY <1>1, DispatchInvariance, PTL

\* The place of a name in the order of the names.
LEMMA Positions ==
    ASSUME NEW a \in {Names[i] : i \in 1 .. Len(Names)}
    PROVE  Position(a) \in 1 .. Len(Names) /\ Names[Position(a)] = a
BY DEF Position

\* After the first one the attempts go down the weights, equal weights by name,
\* and leave out no provider that is heavier and speaks the protocol: for every
\* table of providers, and however the map of Go was ordered.
THEOREM HeaviestAttemptsFirst == Spec => []HeaviestFirst
<1>1. DispatchInv => HeaviestFirst
  <2> SUFFICES ASSUME DispatchInv, NEW i \in 2 .. Len(attempts), NEW name \in DOMAIN providers,
                      \A j \in 1 .. i - 1 : attempts[j].provider # name,
                      name # attempts[i].provider,
                      HasCapability(name, Protocol(request.path)),
                      ~(Weight(name) < Weight(attempts[i].provider))
               PROVE  /\ Weight(name) = Weight(attempts[i].provider)
                      /\ Position(name) > Position(attempts[i].provider)
    BY DEF HeaviestFirst
  <2>1. i \in 1 .. Len(attempts)
    OBVIOUS
  <2>2. /\ Ordered /\ phase = "serving" /\ request \in Requests /\ Served /\ file \in Files
        /\ ~Pinned(request.path)
    <3>1. Len(attempts) # 1
      OBVIOUS
    <3>2. Ordered /\ phase = "serving" /\ request \in Requests /\ ~Pinned(request.path)
      BY <2>1, <3>1, AttemptTarget
    <3>3. request # None
      BY <3>2, DispatchAssumption
    <3> QED
      BY <3>2, <3>3 DEF DispatchInv
  <2>3. Attempted
    <3>1. Len(<<>>) = 0
      OBVIOUS
    <3>2. attempts # <<>>
      BY <2>1, <3>1
    <3> QED
      BY <2>2, <3>2 DEF Served
  <2>4. PICK primary \in Capable(Protocol(request.path)) :
          /\ Len(attempts) \in 1 .. Len(Others(request, primary)) + 1
          /\ attempts[1] = Forward(request, primary)
          /\ \A k \in 2 .. Len(attempts) :
                attempts[k] = Forward(request, Others(request, primary)[k - 1])
    BY <2>3 DEF Attempted
  <2>5. PICK others, a : others = Others(request, primary) /\ a = others[i - 1]
    OBVIOUS
  <2>6. Lists(others, Capable(Protocol(request.path)) \ {primary}, InOrder)
    <3>1. IsFiniteSet(DOMAIN providers) /\ active \in Sorted(Active)
      BY <2>2, LoadedProviders DEF Ordered
    <3> QED
      BY <2>5, <3>1, OthersProperties
  <2>7. i - 1 \in 1 .. Len(others) /\ Len(others) \in Nat /\ i \in Nat
    BY <2>4, <2>5, <2>6 DEF Lists
  <2>8. attempts[i].provider = a /\ a \in Active
    <3>1. attempts[i] = Forward(request, a)
      BY <2>4, <2>5
    <3>2. a \in Active
      BY <2>5, <2>6, <2>7 DEF Lists
    <3> QED
      BY <3>1, <3>2, ForwardProvider
  <2>9. Weight(a) \in Nat /\ Weight(a) > 0 /\ Weight(name) \in Nat
    BY <2>2, <2>8, ActiveWeights, LoadedProviders, DispatchAssumption DEF Ordered
  <2>10. name \in Capable(Protocol(request.path)) \ {primary}
    <3>1. name \in Active
      BY <2>8, <2>9 DEF Active
    <3>2. name # primary
      <4>1. attempts[1].provider = primary /\ 1 \in 1 .. i - 1
        BY <2>4, ForwardProvider
      <4> QED
        BY <4>1
    <3> QED
      BY <3>1, <3>2 DEF Capable
  <2>11. PICK k \in 1 .. Len(others) : others[k] = name
    BY <2>6, <2>10 DEF Lists
  <2>12. i - 1 < k
    <3>1. CASE k < i - 1
      <4>1. k + 1 \in 2 .. Len(attempts) /\ (k + 1) - 1 = k /\ k + 1 \in 1 .. i - 1
        BY <2>4, <2>5, <2>7, <3>1
      <4>2. attempts[k + 1].provider = name
        <5>1. attempts[k + 1] = Forward(request, name)
        BY <2>4, <2>5, <2>11, <4>1
      <5> QED
        BY <5>1, ForwardProvider
      <4> QED
        BY <4>1, <4>2
    <3>2. CASE k = i - 1
      BY <2>5, <2>8, <2>11, <3>2
    <3> QED
      BY <2>7, <3>1, <3>2
  <2>13. ~Before(name, a)
    <3>1. <<others[i - 1], others[k]>> \in InOrder
      BY <2>6, <2>7, <2>12 DEF Lists
    <3> QED
      BY <2>5, <2>11, <3>1 DEF InOrder
  <2>14. Weight(name) = Weight(a) /\ ~(Position(name) < Position(a))
    BY <2>8, <2>9, <2>13 DEF Before
  <2>15. Position(name) # Position(a) /\ Position(name) \in Int /\ Position(a) \in Int
    <3>1. /\ name \in {Names[j] : j \in 1 .. Len(Names)}
          /\ a \in {Names[j] : j \in 1 .. Len(Names)}
      BY <2>2, <2>8, LoadedProviders DEF Ordered, Active
    <3> QED
      BY <2>8, <3>1, Positions
  <2> QED
    BY <2>8, <2>14, <2>15
<1> QED
  BY <1>1, DispatchInvariance, PTL
-----------------------------------------------------------------------------
(* Headers.                                                                *)

\* Header values that differ.
LEMMA HeaderValues ==
    ASSUME NEW a, NEW b, NEW c
    PROVE  /\ <<a>> = <<b>> => a = b
           /\ <<a, b>> = <<a, c>> => b = c
           /\ <<a, b>> # <<c>> /\ <<a>> # <<b, c>> /\ <<a>> # <<>>
           /\ Len(<<a>>) = 1 /\ <<a>>[1] = a
<1>1. /\ Len(<<a>>) = 1 /\ Len(<<a, b>>) = 2 /\ Len(<<c>>) = 1 /\ Len(<<b, c>>) = 2
      /\ Len(<<>>) = 0
  OBVIOUS
<1>2. /\ <<a>>[1] = a /\ <<b>>[1] = b
      /\ <<a, b>>[2] = b /\ <<a, c>>[2] = c
  OBVIOUS
<1> QED
  BY <1>1, <1>2

\* What the providers and the gateway itself have for credentials.
LEMMA Secrets ==
    ASSUME file \in Files, Configured, NEW name \in DOMAIN providers, file.auth.enable
    PROVE  /\ Token = file.auth.token /\ Token # "2023-06-01"
           /\ providers[name].apiKey # Token
           /\ \A h \in DOMAIN providers[name].headers : providers[name].headers[h] # Token
<1>1. Token # "" /\ Token = file.auth.token
  BY DEF Configured, Valid, Token, Expand
<1>2. PICK p : p = file.providers[name]
  OBVIOUS
<1>3. /\ providers[name] = Loaded(p)
      /\ name \in DOMAIN file.providers
  BY <1>2, LoadedProviders
<1>4. /\ providers[name].apiKey = Expand(p.apiKey)
      /\ providers[name].headers = [h \in DOMAIN p.headers |-> Expand(p.headers[h])]
  BY <1>3 DEF Loaded
<1>5. /\ file.auth.token # "2023-06-01"
      /\ p.apiKey # file.auth.token
      /\ \A h \in DOMAIN p.headers : p.headers[h] # file.auth.token
  BY <1>2, <1>3, FilesAssumption
<1> QED
  BY <1>1, <1>4, <1>5, ZenonT(60) DEF Expand

\* The provider has a key.
Keyed(p) == p.apiKey # ""

\* copyRequestHeaders: the token is not among what is copied.
LEMMA CopiedProperties ==
    ASSUME file \in Files, Configured, NEW name \in DOMAIN providers, NEW r \in Requests,
           NEW p, p = providers[name], NEW c, c = CopiedHeaders(r.headers, p)
    PROVE  /\ \A h \in DOMAIN c : h \in DOMAIN r.headers /\ c[h] = r.headers[h]
           /\ \A h \in DOMAIN c : Keyed(p) => h \notin Credentials
           /\ file.auth.enable =>
                 /\ "Authorization" \notin DOMAIN c
                 /\ \A h \in DOMAIN c : /\ ~AnyValue(c[h], <<Token>>)
                                        /\ ~AnyValue(c[h], <<"Bearer", Token>>)
           /\ ~file.auth.enable /\ ~Keyed(p) =>
                 \A h \in Credentials \ DOMAIN p.headers : h \in DOMAIN r.headers => h \in DOMAIN c
           /\ file.auth.enable /\ ~Keyed(p) /\ "X-Api-Key" \notin DOMAIN p.headers =>
                 \/ "X-Api-Key" \in DOMAIN r.headers => "X-Api-Key" \in DOMAIN c
                 \/ AnyValue(r.headers["X-Api-Key"], <<Token>>)
<1>1. PICK D : D = {h \in DOMAIN r.headers :
                      /\ h \notin HopByHop \cup {"Accept-Encoding", "Content-Length"}
                      /\ ~IsProviderHeader(h, r.headers[h], p)}
  OBVIOUS
<1>2. c = [h \in D |-> r.headers[h]]
  BY <1>1 DEF CopiedHeaders
<1>3. \A h \in DOMAIN c : h \in DOMAIN r.headers /\ c[h] = r.headers[h]
  BY <1>1, <1>2
<1>4. \A h \in DOMAIN c : Keyed(p) => h \notin Credentials
  BY <1>1, <1>2 DEF Keyed, IsProviderHeader
<1>5. ASSUME file.auth.enable
      PROVE  /\ "Authorization" \notin DOMAIN c
             /\ \A h \in DOMAIN c : /\ ~AnyValue(c[h], <<Token>>)
                                    /\ ~AnyValue(c[h], <<"Bearer", Token>>)
  <2>1. "Authorization" \notin DOMAIN c
    BY <1>1, <1>2, <1>5 DEF Keyed, IsProviderHeader
  <2>2. ASSUME NEW h \in DOMAIN c
        PROVE  ~AnyValue(c[h], <<Token>>) /\ ~AnyValue(c[h], <<"Bearer", Token>>)
    <3>1. Token = file.auth.token
      BY <1>5, Secrets
    <3>2. h \in DOMAIN r.headers /\ c[h] = r.headers[h] /\ h # "Authorization"
      BY <1>3, <2>1
    <3>3. \A i \in 1 .. Len(r.headers[h]) :
             /\ r.headers[h][i] = <<Token>> => h \in {"Authorization", "X-Api-Key"}
             /\ r.headers[h][i] = <<"Bearer", Token>> => h = "Authorization"
      BY <1>5, <3>1, <3>2, RequestsAssumption
    <3>4. ~(h = "X-Api-Key" /\ AnyValue(r.headers[h], <<Token>>))
      BY <1>1, <1>2, <1>5 DEF Keyed, IsProviderHeader
    <3> QED
      BY <3>2, <3>3, <3>4 DEF AnyValue
  <2> QED
    BY <2>1, <2>2
<1>6. ASSUME ~file.auth.enable, ~Keyed(p),
             NEW h \in Credentials \ DOMAIN p.headers, h \in DOMAIN r.headers
      PROVE  h \in DOMAIN c
  BY <1>1, <1>2, <1>6 DEF Keyed, IsProviderHeader, Credentials, HopByHop
<1>7. ASSUME file.auth.enable, ~Keyed(p), "X-Api-Key" \notin DOMAIN p.headers,
             "X-Api-Key" \in DOMAIN r.headers, ~AnyValue(r.headers["X-Api-Key"], <<Token>>)
      PROVE  "X-Api-Key" \in DOMAIN c
  BY <1>1, <1>2, <1>7 DEF Keyed, IsProviderHeader, HopByHop
<1> QED
  BY <1>3, <1>4, <1>5, <1>6, <1>7

\* The headers of the protocol, before those that are configured for the provider.
ProtocolHeaders(c, p, path) ==
    CASE Protocol(path) = OpenAI -> OpenAIHeaders(c, p)
      [] Protocol(path) = Anthropic -> AnthropicHeaders(c, p)
      [] OTHER -> OtherHeaders(c, p, path)

\* Where a header of the protocol comes from: it was copied, or is the provider's key
\* or the version.
Origin(s, c, p, h) ==
    \/ h \in DOMAIN c /\ s[h] = c[h]
    \/ /\ Keyed(p) /\ h \in Credentials
       /\ s[h] \in {<<<<p.apiKey>>>>, <<<<"Bearer", p.apiKey>>>>}
    \/ h = "Anthropic-Version" /\ s[h] = <<<<"2023-06-01">>>>

Sourced(s, c, p) == \A h \in DOMAIN s : Origin(s, c, p, h)

LEMMA VersionProperties ==
    ASSUME NEW c, NEW s, s = WithVersion(c)
    PROVE  /\ DOMAIN c \subseteq DOMAIN s
           /\ DOMAIN s \subseteq DOMAIN c \cup {"Anthropic-Version"}
           /\ \A h \in DOMAIN s : \/ h \in DOMAIN c /\ s[h] = c[h]
                                  \/ h = "Anthropic-Version" /\ s[h] = <<<<"2023-06-01">>>>
           /\ "Anthropic-Version" \in DOMAIN s /\ First(s, "Anthropic-Version") # <<>>
<1>1. CASE First(c, "Anthropic-Version") # <<>>
  BY <1>1 DEF WithVersion, First, Present
<1>2. CASE First(c, "Anthropic-Version") = <<>>
  <2>1. s = Set(c, "Anthropic-Version", <<"2023-06-01">>)
    BY <1>2 DEF WithVersion
  <2>2. /\ DOMAIN s = DOMAIN c \cup {"Anthropic-Version"}
        /\ s["Anthropic-Version"] = <<<<"2023-06-01">>>>
        /\ \A k \in DOMAIN c : k # "Anthropic-Version" => s[k] = c[k]
    <3>1. PICK v, h : v = <<"2023-06-01">> /\ h = "Anthropic-Version" /\ s = Set(c, h, v)
      BY <2>1
    <3>2. /\ DOMAIN s = DOMAIN c \cup {h}
          /\ s[h] = <<v>>
          /\ \A k \in DOMAIN c : k # h => s[k] = c[k]
      BY <3>1 DEF Set
    <3> QED
      BY <3>1, <3>2
  <2>3. First(s, "Anthropic-Version") = <<"2023-06-01">>
    BY <2>2, HeaderValues DEF First, Present
  <2>4. <<"2023-06-01">> # <<>>
    BY HeaderValues
  <2> QED
    BY <2>2, <2>3, <2>4
<1> QED
  BY <1>1, <1>2

\* A header that is set to a value: the others stay.
LEMMA SetOrigins ==
    ASSUME NEW s, NEW c, NEW p, NEW h, NEW v, NEW t, t = Set(s, h, v),
           Keyed(p), h \in Credentials, v = <<p.apiKey>> \/ v = <<"Bearer", p.apiKey>>,
           Sourced(s, c, p)
    PROVE  /\ h \in DOMAIN t
           /\ DOMAIN t = DOMAIN s \cup {h}
           /\ Sourced(t, c, p)
<1>1. /\ DOMAIN t = DOMAIN s \cup {h}
      /\ t[h] = <<v>>
      /\ \A k \in DOMAIN s : k # h => t[k] = s[k]
  BY DEF Set
<1>2. ASSUME NEW k \in DOMAIN t PROVE Origin(t, c, p, k)
  <2>1. CASE k = h
    BY <1>1, <2>1 DEF Sourced, Origin
  <2>2. CASE k # h
    BY <1>1, <2>2 DEF Sourced, Origin
  <2> QED
    BY <2>1, <2>2
<1>3. Sourced(t, c, p)
  BY <1>2 DEF Sourced
<1> QED
  BY <1>1, <1>3

LEMMA VersionOrigins ==
    ASSUME NEW s, NEW c, NEW p, NEW t, t = WithVersion(s),
           Sourced(s, c, p)
    PROVE  /\ Sourced(t, c, p)
           /\ \A h \in Credentials : h \in DOMAIN t <=> h \in DOMAIN s
           /\ \A h \in DOMAIN s \cap Credentials : t[h] = s[h]
           /\ "Anthropic-Version" \in DOMAIN t /\ First(t, "Anthropic-Version") # <<>>
<1>1. /\ DOMAIN s \subseteq DOMAIN t
      /\ DOMAIN t \subseteq DOMAIN s \cup {"Anthropic-Version"}
      /\ \A h \in DOMAIN t : \/ h \in DOMAIN s /\ t[h] = s[h]
                             \/ h = "Anthropic-Version" /\ t[h] = <<<<"2023-06-01">>>>
      /\ "Anthropic-Version" \in DOMAIN t /\ First(t, "Anthropic-Version") # <<>>
  BY ONLY t = WithVersion(s), VersionProperties
<1>2. "Anthropic-Version" \notin Credentials
  BY DEF Credentials
<1>3. Sourced(t, c, p)
  BY <1>1 DEF Sourced, Origin
<1> QED
  BY <1>1, <1>2, <1>3

LEMMA ProtocolHeadersProperties ==
    ASSUME NEW c, NEW p, NEW path, NEW s, s = ProtocolHeaders(c, p, path)
    PROVE  /\ Sourced(s, c, p)
           /\ Keyed(p) => \E h \in Credentials : h \in DOMAIN s
           /\ ~Keyed(p) =>
                 /\ "X-Api-Key" \in DOMAIN c => "X-Api-Key" \in DOMAIN s
                 /\ Protocol(path) # Anthropic /\ "Authorization" \in DOMAIN c =>
                       "Authorization" \in DOMAIN s
           /\ Protocol(path) = Anthropic =>
                 /\ "Authorization" \notin DOMAIN s
                 /\ "Anthropic-Version" \in DOMAIN s
                 /\ First(s, "Anthropic-Version") # <<>>
<1>1. Sourced(c, c, p)
  BY DEF Sourced, Origin
<1>2. OpenAI # Anthropic /\ "Authorization" \in Credentials /\ "X-Api-Key" \in Credentials
  BY DEF OpenAI, Anthropic, Credentials
<1>3. ASSUME NEW t, Keyed(p), t = WithBearer(c, p.apiKey)
      PROVE  "Authorization" \in DOMAIN t /\ Sourced(t, c, p)
  <2>1. PICK h, v : h = "Authorization" /\ v = <<"Bearer", p.apiKey>> /\ t = Set(c, h, v)
    BY <1>3 DEF WithBearer
  <2>2. /\ t = Set(c, h, v) /\ Keyed(p) /\ h \in Credentials
        /\ v = <<p.apiKey>> \/ v = <<"Bearer", p.apiKey>>
    BY <1>2, <1>3, <2>1
  <2>3. h \in DOMAIN t /\ Sourced(t, c, p)
    BY ONLY <1>1, <2>2, SetOrigins
  <2> QED
    BY <2>1, <2>3
<1>4. ASSUME NEW t, t = AnthropicHeaders(c, p)
      PROVE  /\ Sourced(t, c, p)
             /\ Keyed(p) => "X-Api-Key" \in DOMAIN t
             /\ ~Keyed(p) /\ "X-Api-Key" \in DOMAIN c => "X-Api-Key" \in DOMAIN t
             /\ "Authorization" \notin DOMAIN t
             /\ "Anthropic-Version" \in DOMAIN t
             /\ First(t, "Anthropic-Version") # <<>>
  <2>1. PICK d : d = Without(c, "Authorization")
    OBVIOUS
  <2>2. /\ DOMAIN d = DOMAIN c \ {"Authorization"}
        /\ \A k \in DOMAIN d : k \in DOMAIN c /\ d[k] = c[k]
    BY <2>1 DEF Without
  <2>7. Sourced(d, c, p)
    BY <2>2 DEF Sourced, Origin
  <2>3. PICK e : e = IF Keyed(p) THEN WithApiKey(d, p.apiKey) ELSE d
    OBVIOUS
  <2>4. /\ Sourced(e, c, p)
        /\ Keyed(p) => "X-Api-Key" \in DOMAIN e
        /\ ~Keyed(p) /\ "X-Api-Key" \in DOMAIN c => "X-Api-Key" \in DOMAIN e
        /\ "Authorization" \notin DOMAIN e
    <3>1. CASE ~Keyed(p)
      BY <2>2, <2>7, <2>3, <3>1
    <3>2. CASE Keyed(p)
      <4>1. PICK h, v : h = "X-Api-Key" /\ v = <<p.apiKey>> /\ e = Set(d, h, v)
        BY <2>3, <3>2 DEF WithApiKey
      <4>2. /\ h \in DOMAIN e
            /\ DOMAIN e = DOMAIN d \cup {h}
            /\ Sourced(e, c, p)
        BY <1>2, <2>7, <3>2, <4>1, SetOrigins
      <4> QED
        BY <2>2, <3>2, <4>1, <4>2
    <3> QED
      BY <3>1, <3>2
  <2>5. t = WithVersion(e)
    BY <1>4, <2>1, <2>3 DEF AnthropicHeaders, Keyed
  <2>6. /\ Sourced(t, c, p)
        /\ \A h \in Credentials : h \in DOMAIN t <=> h \in DOMAIN e
        /\ "Anthropic-Version" \in DOMAIN t /\ First(t, "Anthropic-Version") # <<>>
    BY <2>4, <2>5, VersionOrigins
  <2> QED
    BY <1>2, <2>4, <2>6
<1>5. CASE Protocol(path) = OpenAI
  <2>1. s = OpenAIHeaders(c, p) /\ Protocol(path) # Anthropic
    BY <1>2, <1>5 DEF ProtocolHeaders
  <2>2. CASE ~Keyed(p)
    BY <1>1, <2>1, <2>2 DEF OpenAIHeaders, Keyed
  <2>3. CASE Keyed(p)
    <3>1. s = WithBearer(c, p.apiKey)
      BY <2>1, <2>3 DEF OpenAIHeaders, Keyed
    <3> QED
      BY <1>2, <1>3, <2>1, <2>3, <3>1
  <2> QED
    BY <2>2, <2>3
<1>6. CASE Protocol(path) = Anthropic
  <2>1. s = AnthropicHeaders(c, p)
    BY <1>2, <1>6 DEF ProtocolHeaders
  <2> QED
    BY <1>2, <1>4, <1>6, <2>1
<1>7. CASE Protocol(path) \notin {OpenAI, Anthropic}
  <2>1. s = OtherHeaders(c, p, path) /\ Protocol(path) # Anthropic
    BY <1>7 DEF ProtocolHeaders
  <2>2. CASE ~Keyed(p)
    BY <1>1, <2>1, <2>2 DEF OtherHeaders, Keyed
  <2>3. CASE Keyed(p) /\ (IsAnthropicPath(path) \/ p.capabilities = {Anthropic})
    <3>1. s = AnthropicHeaders(c, p)
      BY <2>1, <2>3 DEF OtherHeaders, Keyed
    <3> QED
      BY <1>2, <1>4, <2>1, <2>3, <3>1
  <2>4. CASE /\ Keyed(p) /\ ~(IsAnthropicPath(path) \/ p.capabilities = {Anthropic})
             /\ Anthropic \notin p.capabilities
    <3>1. s = WithBearer(c, p.apiKey)
      BY <2>1, <2>4 DEF OtherHeaders, Keyed
    <3> QED
      BY <1>2, <1>3, <2>1, <2>4, <3>1
  <2>5. CASE /\ Keyed(p) /\ ~(IsAnthropicPath(path) \/ p.capabilities = {Anthropic})
             /\ Anthropic \in p.capabilities
    <3>1. PICK d, e : d = WithBearer(c, p.apiKey) /\ e = WithApiKey(d, p.apiKey)
      OBVIOUS
    <3>2. s = WithVersion(e)
      BY <2>1, <2>5, <3>1 DEF OtherHeaders, Keyed
    <3>3. Sourced(d, c, p)
      BY <1>3, <2>5, <3>1
    <3>4. PICK h, v : h = "X-Api-Key" /\ v = <<p.apiKey>> /\ e = Set(d, h, v)
      BY <3>1 DEF WithApiKey
    <3>5. h \in DOMAIN e /\ Sourced(e, c, p)
      BY <1>2, <2>5, <3>3, <3>4, SetOrigins
    <3>6. /\ Sourced(s, c, p)
          /\ \A k \in Credentials : k \in DOMAIN s <=> k \in DOMAIN e
      BY <3>2, <3>5, VersionOrigins
    <3> QED
      BY <1>2, <2>1, <2>5, <3>4, <3>5, <3>6
  <2> QED
    BY <2>2, <2>3, <2>4, <2>5
<1> QED
  BY <1>5, <1>6, <1>7

\* The values of a header, none if it is not there.
Held(headers, h) == IF Present(headers, h) THEN headers[h] ELSE <<>>

\* What CredentialsFit says of one attempt, part by part.
TokenStays(sent) ==
    file.auth.enable =>
        \A h \in DOMAIN sent :
            ~AnyValue(sent[h], <<Token>>) /\ ~AnyValue(sent[h], <<"Bearer", Token>>)
CustomSent(sent, p) == \A h \in DOMAIN p.headers : sent[h] = <<<<p.headers[h]>>>>
OwnKey(sent, p) ==
    Keyed(p) =>
        /\ \A h \in Credentials \ DOMAIN p.headers :
              Held(sent, h) \in {<<>>, <<<<p.apiKey>>>>, <<<<"Bearer", p.apiKey>>>>}
        /\ \E h \in Credentials : Present(sent, h)
ClientKey(sent, came, p) ==
    ~Keyed(p) /\ "X-Api-Key" \notin DOMAIN p.headers =>
        \/ Held(sent, "X-Api-Key") = Held(came, "X-Api-Key")
        \/ file.auth.enable /\ AnyValue(Held(came, "X-Api-Key"), <<Token>>)
ClientAuthorization(sent, came, p, path) ==
    /\ ~Keyed(p) /\ "Authorization" \notin DOMAIN p.headers
    /\ ~file.auth.enable /\ Protocol(path) # Anthropic
    => Held(sent, "Authorization") = Held(came, "Authorization")
AnthropicSent(sent, p, path) ==
    Protocol(path) = Anthropic =>
        /\ First(sent, "Anthropic-Version") # <<>>
        /\ "Authorization" \in DOMAIN p.headers \/ Held(sent, "Authorization") = <<>>
Fit(sent, came, p, path) ==
    /\ TokenStays(sent) /\ CustomSent(sent, p) /\ OwnKey(sent, p)
    /\ ClientKey(sent, came, p) /\ ClientAuthorization(sent, came, p, path)
    /\ AnthropicSent(sent, p, path)

\* The headers that forwardUpstream sends.
LEMMA SentHeaders ==
    ASSUME file \in Files, Configured, NEW name \in DOMAIN providers, NEW r \in Requests
    PROVE  Fit(Forward(r, name).headers, r.headers, providers[name], Remaining(r.path))
<1>1. PICK p, path, c, s, sent :
         /\ p = providers[name] /\ path = Remaining(r.path)
         /\ c = CopiedHeaders(r.headers, p) /\ s = ProtocolHeaders(c, p, path)
         /\ sent = Forward(r, name).headers
  OBVIOUS
<1>2. /\ DOMAIN sent = DOMAIN s \cup DOMAIN p.headers
      /\ \A h \in DOMAIN p.headers : sent[h] = <<<<p.headers[h]>>>>
      /\ \A h \in DOMAIN s \ DOMAIN p.headers : sent[h] = s[h]
  <2>1. sent = ProviderHeaders(c, p, path)
    BY <1>1 DEF Forward
  <2>2. sent = [h \in DOMAIN s \cup DOMAIN p.headers |->
                  IF h \in DOMAIN p.headers THEN <<<<p.headers[h]>>>> ELSE s[h]]
    BY <1>1, <2>1 DEF ProviderHeaders, ProtocolHeaders
  <2> QED
    BY <2>2
<1>3. /\ \A h \in DOMAIN c : h \in DOMAIN r.headers /\ c[h] = r.headers[h]
      /\ \A h \in DOMAIN c : Keyed(p) => h \notin Credentials
      /\ file.auth.enable =>
            /\ "Authorization" \notin DOMAIN c
            /\ \A h \in DOMAIN c : /\ ~AnyValue(c[h], <<Token>>)
                                   /\ ~AnyValue(c[h], <<"Bearer", Token>>)
      /\ ~file.auth.enable /\ ~Keyed(p) =>
            \A h \in Credentials \ DOMAIN p.headers : h \in DOMAIN r.headers => h \in DOMAIN c
      /\ file.auth.enable /\ ~Keyed(p) /\ "X-Api-Key" \notin DOMAIN p.headers =>
            \/ "X-Api-Key" \in DOMAIN r.headers => "X-Api-Key" \in DOMAIN c
            \/ AnyValue(r.headers["X-Api-Key"], <<Token>>)
  BY <1>1, CopiedProperties
<1>4. /\ Sourced(s, c, p)
      /\ Keyed(p) => \E h \in Credentials : h \in DOMAIN s
      /\ ~Keyed(p) =>
            /\ "X-Api-Key" \in DOMAIN c => "X-Api-Key" \in DOMAIN s
            /\ Protocol(path) # Anthropic /\ "Authorization" \in DOMAIN c =>
                  "Authorization" \in DOMAIN s
      /\ Protocol(path) = Anthropic =>
            /\ "Authorization" \notin DOMAIN s
            /\ "Anthropic-Version" \in DOMAIN s
            /\ First(s, "Anthropic-Version") # <<>>
  BY <1>1, ProtocolHeadersProperties
<1>5. /\ "Authorization" \in Credentials /\ "X-Api-Key" \in Credentials
      /\ "Anthropic-Version" \notin Credentials
  BY DEF Credentials
<1>6. \A h \in Credentials \cap DOMAIN s : ~Keyed(p) => h \in DOMAIN c /\ s[h] = c[h]
  BY <1>4, <1>5 DEF Sourced, Origin
<1>7. TokenStays(sent)
  <2> SUFFICES ASSUME file.auth.enable, NEW h \in DOMAIN sent
               PROVE  ~AnyValue(sent[h], <<Token>>) /\ ~AnyValue(sent[h], <<"Bearer", Token>>)
    BY DEF TokenStays
  <2>1. /\ Token # "2023-06-01" /\ p.apiKey # Token
        /\ \A k \in DOMAIN p.headers : p.headers[k] # Token
    BY <1>1, Secrets
  <2>2. ASSUME NEW v, v # Token
        PROVE  ~AnyValue(<<<<v>>>>, <<Token>>) /\ ~AnyValue(<<<<v>>>>, <<"Bearer", Token>>)
    <3>1. <<v>> # <<Token>> /\ <<v>> # <<"Bearer", Token>>
      BY <2>2, HeaderValues
    <3> QED
      BY <3>1, HeaderValues DEF AnyValue
  <2>3. ~AnyValue(<<<<"Bearer", p.apiKey>>>>, <<Token>>)
    <3>1. <<"Bearer", p.apiKey>> # <<Token>>
      BY HeaderValues
    <3> QED
      BY <3>1, HeaderValues DEF AnyValue
  <2>4. ~AnyValue(<<<<"Bearer", p.apiKey>>>>, <<"Bearer", Token>>)
    <3>1. <<"Bearer", p.apiKey>> # <<"Bearer", Token>>
      BY <2>1, HeaderValues
    <3> QED
      BY <3>1, HeaderValues DEF AnyValue
  <2>5. CASE h \in DOMAIN p.headers
    <3>1. sent[h] = <<<<p.headers[h]>>>> /\ p.headers[h] # Token
      BY <1>2, <2>1, <2>5
    <3> QED
      BY <2>2, <3>1
  <2>6. CASE h \notin DOMAIN p.headers
    <3>1. h \in DOMAIN s /\ sent[h] = s[h] /\ Origin(s, c, p, h)
      BY <1>2, <1>4, <2>6 DEF Sourced
    <3>2. CASE h \in DOMAIN c /\ s[h] = c[h]
      BY <1>3, <3>1, <3>2
    <3>3. CASE s[h] = <<<<p.apiKey>>>>
      BY <2>1, <2>2, <3>1, <3>3
    <3>4. CASE s[h] = <<<<"Bearer", p.apiKey>>>>
      BY <2>3, <2>4, <3>1, <3>4
    <3>5. CASE s[h] = <<<<"2023-06-01">>>>
      BY <2>1, <2>2, <3>1, <3>5
    <3> QED
      BY <3>1, <3>2, <3>3, <3>4, <3>5 DEF Origin
  <2> QED
    BY <2>5, <2>6
<1>8. CustomSent(sent, p)
  BY <1>2 DEF CustomSent
<1>9. OwnKey(sent, p)
  <2> SUFFICES ASSUME Keyed(p)
               PROVE  /\ \A h \in Credentials \ DOMAIN p.headers :
                           Held(sent, h) \in {<<>>, <<<<p.apiKey>>>>, <<<<"Bearer", p.apiKey>>>>}
                      /\ \E h \in Credentials : Present(sent, h)
    BY DEF OwnKey
  <2>1. ASSUME NEW h \in Credentials \ DOMAIN p.headers, h \in DOMAIN sent
        PROVE  sent[h] \in {<<<<p.apiKey>>>>, <<<<"Bearer", p.apiKey>>>>}
    <3>1. h \in DOMAIN s /\ sent[h] = s[h] /\ Origin(s, c, p, h)
      BY <1>2, <1>4, <2>1 DEF Sourced
    <3>2. h \notin DOMAIN c /\ h # "Anthropic-Version"
      BY <1>3, <1>5
    <3> QED
      BY <3>1, <3>2 DEF Origin
  <2>2. \E h \in Credentials : h \in DOMAIN sent
    BY <1>2, <1>4
  <2> QED
    BY <2>1, <2>2 DEF Held, Present
<1>10. ClientKey(sent, r.headers, p)
  <2> SUFFICES ASSUME ~Keyed(p), "X-Api-Key" \notin DOMAIN p.headers
               PROVE  \/ Held(sent, "X-Api-Key") = Held(r.headers, "X-Api-Key")
                      \/ file.auth.enable /\ AnyValue(Held(r.headers, "X-Api-Key"), <<Token>>)
    BY DEF ClientKey
  <2>1. CASE "X-Api-Key" \in DOMAIN sent
    <3>1. /\ "X-Api-Key" \in DOMAIN s /\ sent["X-Api-Key"] = s["X-Api-Key"]
      BY <1>2, <2>1
    <3>2. /\ "X-Api-Key" \in DOMAIN r.headers
          /\ s["X-Api-Key"] = r.headers["X-Api-Key"]
      BY <1>3, <1>5, <1>6, <3>1
    <3> QED
      BY <2>1, <3>1, <3>2 DEF Held, Present
  <2>2. CASE "X-Api-Key" \notin DOMAIN sent
    <3>1. "X-Api-Key" \notin DOMAIN c
      BY <1>2, <1>4, <2>2
    <3>2. \/ "X-Api-Key" \notin DOMAIN r.headers
          \/ file.auth.enable /\ AnyValue(r.headers["X-Api-Key"], <<Token>>)
      BY <1>3, <1>5, <3>1
    <3> QED
      BY <2>2, <3>2 DEF Held, Present
  <2> QED
    BY <2>1, <2>2
<1>11. ClientAuthorization(sent, r.headers, p, path)
  <2> SUFFICES ASSUME ~Keyed(p), "Authorization" \notin DOMAIN p.headers,
                      ~file.auth.enable, Protocol(path) # Anthropic
               PROVE  Held(sent, "Authorization") = Held(r.headers, "Authorization")
    BY DEF ClientAuthorization
  <2>1. CASE "Authorization" \in DOMAIN sent
    <3>1. "Authorization" \in DOMAIN s /\ sent["Authorization"] = s["Authorization"]
      BY <1>2, <2>1
    <3>2. /\ "Authorization" \in DOMAIN r.headers
          /\ s["Authorization"] = r.headers["Authorization"]
      BY <1>3, <1>5, <1>6, <3>1
    <3> QED
      BY <2>1, <3>1, <3>2 DEF Held, Present
  <2>2. CASE "Authorization" \notin DOMAIN sent
    <3>1. "Authorization" \notin DOMAIN r.headers
      BY <1>2, <1>3, <1>4, <1>5, <2>2
    <3> QED
      BY <2>2, <3>1 DEF Held, Present
  <2> QED
    BY <2>1, <2>2
<1>12. AnthropicSent(sent, p, path)
  <2> SUFFICES ASSUME Protocol(path) = Anthropic
               PROVE  /\ First(sent, "Anthropic-Version") # <<>>
                      /\ "Authorization" \in DOMAIN p.headers \/ Held(sent, "Authorization") = <<>>
    BY DEF AnthropicSent
  <2>1. First(sent, "Anthropic-Version") # <<>>
    <3>1. CASE "Anthropic-Version" \in DOMAIN p.headers
      <4>1. /\ "Anthropic-Version" \in DOMAIN sent
            /\ sent["Anthropic-Version"] = <<<<p.headers["Anthropic-Version"]>>>>
        BY <1>2, <3>1
      <4>2. First(sent, "Anthropic-Version") = <<p.headers["Anthropic-Version"]>>
        BY <4>1, HeaderValues DEF First, Present
      <4> QED
        BY <4>2, HeaderValues
    <3>2. CASE "Anthropic-Version" \notin DOMAIN p.headers
      <4>1. /\ "Anthropic-Version" \in DOMAIN sent /\ "Anthropic-Version" \in DOMAIN s
            /\ sent["Anthropic-Version"] = s["Anthropic-Version"]
        BY <1>2, <1>4, <3>2
      <4> QED
        BY <1>4, <4>1 DEF First, Present
    <3> QED
      BY <3>1, <3>2
  <2>2. "Authorization" \notin DOMAIN p.headers => "Authorization" \notin DOMAIN sent
    BY <1>2, <1>4
  <2> QED
    BY <2>1, <2>2 DEF Held, Present
<1> QED
  BY <1>1, <1>7, <1>8, <1>9, <1>10, <1>11, <1>12 DEF Fit

\* The gateway's own token does not leave it, a provider with a key sees that key and
\* never the client's, one without sees the client's as it came, custom headers win,
\* and an Anthropic path has a version and no Authorization of the client: for every
\* configuration that is accepted and every request, on each of the attempts.
THEOREM CredentialsAreKept == Spec => []CredentialsFit
<1>1. DispatchInv => CredentialsFit
  <2> SUFFICES ASSUME DispatchInv PROVE CredentialsFit
    OBVIOUS
  <2>1. ASSUME NEW i \in 1 .. Len(attempts)
        PROVE  Fit(attempts[i].headers, request.headers, providers[attempts[i].provider],
                   Remaining(request.path))
    <3>1. Configured /\ file \in Files /\ request \in Requests
      BY AttemptTarget DEF DispatchInv
    <3>2. PICK name \in DOMAIN providers : attempts[i] = Forward(request, name)
      BY AttemptTarget
    <3>3. attempts[i].provider = name
      BY <3>2, ForwardProvider
    <3> QED
      BY <3>1, <3>2, <3>3, SentHeaders
  <2> QED
    BY <2>1, Zenon DEF CredentialsFit, Fit, TokenStays, CustomSent, OwnKey, ClientKey,
                       ClientAuthorization, AnthropicSent, Held, Keyed
<1> QED
  BY <1>1, DispatchInvariance, PTL
-----------------------------------------------------------------------------
(* Paths.                                                                  *)

\* What a path consists of: a slash is a string, which the provers cannot tell.
Symbols == STRING \cup {"/"}

LEMMA SymbolSequences ==
    ASSUME NEW s, s \in Seq(STRING)
    PROVE  s \in Seq(Symbols)
<1>1. Len(s) \in Nat /\ s \in [1 .. Len(s) -> STRING]
  BY LenProperties
<1>2. s \in [1 .. Len(s) -> Symbols]
  BY <1>1 DEF Symbols
<1> QED
  BY <1>1, <1>2, SeqDef

\* Part takes two paths one after the other, and one symbol.
LEMMA PartOfConcat ==
    ASSUME NEW s, s \in Seq(Symbols), NEW t, t \in Seq(Symbols), NEW c, c = s \o t
    PROVE  Part(c) = Part(s) \o Part(t) /\ c \in Seq(Symbols)
<1>1. PICK T, S : T = Symbols /\ S = STRING \ {"/"}
  OBVIOUS
<1>2. s \in Seq(T) /\ t \in Seq(T)
  BY <1>1
<1>3. Selected(s \o t, S) = Selected(s, S) \o Selected(t, S)
  BY ONLY <1>2, SelectedConcat
<1>4. s \o t \in Seq(Symbols)
  BY ConcatProperties
<1> QED
  BY <1>1, <1>3, <1>4 DEF Part

LEMMA PartOfOne ==
    ASSUME NEW e, e \in Symbols
    PROVE  /\ Part(<<e>>) = IF e = "/" THEN <<>> ELSE <<e>>
           /\ <<e>> \in Seq(Symbols)
<1>1. PICK T, S : T = Symbols /\ S = STRING \ {"/"}
  OBVIOUS
<1>2. e \in T
  BY <1>1
<1>3. Selected(<<e>>, S) = IF e \in S THEN <<e>> ELSE <<>>
  BY ONLY <1>2, SelectedSingle
<1>4. <<e>> \in Seq(T)
  BY <1>2
<1> QED
  BY <1>1, <1>3, <1>4 DEF Part, Symbols

LEMMA PartType ==
    ASSUME NEW s, s \in Seq(Symbols)
    PROVE  Part(s) \in Seq(Symbols)
<1>1. PICK T, S : T = Symbols /\ S = STRING \ {"/"}
  OBVIOUS
<1>2. s \in Seq(T)
  BY <1>1
<1>3. Selected(s, S) \in Seq(T)
  BY ONLY <1>2, SelectedMembers
<1> QED
  BY <1>1, <1>3 DEF Part

\* A sequence is its first member and then the others.
LEMMA FirstAndRest ==
    ASSUME NEW s, s \in Seq(Symbols), s # <<>>
    PROVE  /\ Len(s) \in Nat /\ Len(s) >= 1 /\ s[1] \in Symbols
           /\ Tail(s) \in Seq(Symbols) /\ Len(Tail(s)) = Len(s) - 1
           /\ \A i \in 1 .. Len(s) - 1 : Tail(s)[i] = s[i + 1]
           /\ s = <<s[1]>> \o Tail(s)
<1>1. /\ Tail(s) \in Seq(Symbols) /\ Len(Tail(s)) = Len(s) - 1
      /\ \A i \in 1 .. Len(s) - 1 : Tail(s)[i] = s[i + 1]
      /\ Len(s) \in Nat /\ Len(s) >= 1 /\ s[1] \in Symbols
  BY HeadTailProperties
<1>2. PICK a, r, c, n : a = <<s[1]>> /\ r = Tail(s) /\ c = a \o r /\ n = Len(s)
  OBVIOUS
<1>3. a \in Seq(Symbols) /\ Len(a) = 1 /\ a[1] = s[1]
  BY <1>1, <1>2
<1>4. /\ c \in Seq(Symbols) /\ Len(c) = 1 + (n - 1)
      /\ \A i \in 1 .. n : c[i] = IF i <= 1 THEN a[i] ELSE r[i - 1]
  <2>1. r \in Seq(Symbols) /\ Len(r) = n - 1 /\ n \in Nat /\ 1 + (n - 1) = n
    BY <1>1, <1>2
  <2>2. /\ c \in Seq(Symbols) /\ Len(c) = Len(a) + Len(r)
        /\ \A i \in 1 .. Len(a) + Len(r) : c[i] = IF i <= Len(a) THEN a[i] ELSE r[i - Len(a)]
    BY <1>2, <1>3, <2>1, ConcatProperties
  <2> QED
    BY <1>3, <2>1, <2>2
<1>5. ASSUME NEW i \in 1 .. n PROVE s[i] = c[i]
  <2>1. CASE i = 1
    BY <1>1, <1>2, <1>3, <1>4, <2>1
  <2>2. CASE i # 1
    <3>1. i - 1 \in 1 .. n - 1 /\ (i - 1) + 1 = i /\ ~(i <= 1)
      BY <1>1, <1>2, <2>2
    <3> QED
      BY <1>1, <1>2, <1>4, <3>1
  <2> QED
    BY <2>1, <2>2
<1>6. s = c
  <2>1. Len(s) = Len(c) /\ Len(s) = n
    BY <1>1, <1>2, <1>4
  <2> QED
    BY <1>4, <1>5, <2>1, SeqEqual
<1> QED
  BY <1>1, <1>2, <1>6

\* joinURLPath neither adds nor loses a part, and adds no second slash.
LEMMA JoinProperties ==
    ASSUME NEW base, base \in Seq(Symbols), NEW path, path \in Seq(Symbols),
           NEW url, url = Join(base, path)
    PROVE  /\ Part(url) = Part(base) \o Part(path)
           /\ DoubleSlash(url) => DoubleSlash(base) \/ DoubleSlash(path)
<1>1. /\ Part(base) \in Seq(Symbols) /\ Part(path) \in Seq(Symbols)
      /\ Part(<<>>) = <<>>
  <2>1. Part(<<>>) = <<>>
    <3>1. <<>> \in Seq(Symbols) /\ <<>> \o <<>> = <<>>
      BY EmptySeq
    <3>2. PICK e : e = <<>>
      OBVIOUS
    <3>3. Part(e) = Part(e) \o Part(e) /\ Part(e) \in Seq(Symbols)
      BY <3>1, <3>2, PartOfConcat, PartType
    <3>4. PICK q \in Seq(Symbols) : q = Part(e) /\ q = q \o q
      BY <3>3
    <3>5. Len(q) = Len(q) + Len(q) /\ Len(q) \in Nat
      BY <3>4, ConcatProperties
    <3> QED
      BY <3>2, <3>4, <3>5
  <2> QED
    BY <2>1, PartType
<1>2. CASE base = <<>>
  <2>1. url = path
    BY <1>2 DEF Join
  <2> QED
    BY <1>1, <1>2, <2>1, ConcatEmptySeq
<1>3. CASE base # <<>> /\ path = <<>>
  <2>1. url = base
    BY <1>3 DEF Join
  <2> QED
    BY <1>1, <1>3, <2>1, ConcatEmptySeq
<1>4. CASE base # <<>> /\ path # <<>>
  <2>1. PICK m, n : m = Len(base) /\ n = Len(path)
    OBVIOUS
  <2>2. /\ m \in Nat /\ m >= 1 /\ n \in Nat /\ n >= 1
        /\ base[m] \in Symbols /\ path[1] \in Symbols
    BY <1>4, <2>1
  <2>3. PICK rest : rest = Tail(path)
    OBVIOUS
  <2>4. /\ rest \in Seq(Symbols) /\ Len(rest) = n - 1
        /\ \A i \in 1 .. n - 1 : rest[i] = path[i + 1]
        /\ path = <<path[1]>> \o rest
    BY <1>4, <2>1, <2>3, FirstAndRest
  <2>5. CASE base[m] = "/" /\ path[1] = "/"
    <3>1. url = base \o rest
      BY <1>4, <2>1, <2>3, <2>5 DEF Join
    <3>2. Part(url) = Part(base) \o Part(rest) /\ Part(path) = Part(<<path[1]>>) \o Part(rest)
      BY <2>2, <2>4, <3>1, PartOfConcat, PartOfOne
    <3>3. Part(path) = Part(rest)
      BY <2>2, <2>4, <2>5, <3>2, PartOfOne, PartType, ConcatEmptySeq
    <3>4. ASSUME DoubleSlash(url) PROVE DoubleSlash(base) \/ DoubleSlash(path)
      <4>1. /\ Len(url) = m + (n - 1)
            /\ \A i \in 1 .. m + (n - 1) : url[i] = IF i <= m THEN base[i] ELSE rest[i - m]
        BY <2>1, <2>4, <3>1, ConcatProperties
      <4>2. PICK i \in 1 .. Len(url) - 1 : url[i] = "/" /\ url[i + 1] = "/"
        BY <3>4 DEF DoubleSlash
      <4>3. i \in 1 .. m + (n - 1) /\ i + 1 \in 1 .. m + (n - 1)
        BY <2>2, <4>1, <4>2
      <4>4. CASE i + 1 <= m
        <5>1. i \in 1 .. m - 1 /\ i <= m /\ base[i] = "/" /\ base[i + 1] = "/"
          BY <2>2, <4>1, <4>2, <4>3, <4>4
        <5> QED
          BY <2>1, <5>1 DEF DoubleSlash
      <4>5. CASE i = m
        <5>1. (i + 1) - m = 1 /\ ~(i + 1 <= m) /\ 1 \in 1 .. n - 1
          BY <2>2, <4>3, <4>5
        <5>2. path[1] = "/" /\ path[1 + 1] = "/"
          BY <2>4, <2>5, <4>1, <4>2, <4>3, <5>1
        <5> QED
          BY <2>1, <5>1, <5>2 DEF DoubleSlash
      <4>6. CASE i > m
        <5>1. PICK j : j = (i - m) + 1
          OBVIOUS
        <5>2. /\ i - m \in 1 .. n - 1 /\ (i + 1) - m \in 1 .. n - 1 /\ ~(i <= m) /\ ~(i + 1 <= m)
              /\ j \in 1 .. n - 1 /\ (i - m) + 1 = j /\ ((i + 1) - m) + 1 = j + 1
          BY <2>2, <4>3, <4>6, <5>1
        <5>3. path[j] = "/" /\ path[j + 1] = "/"
          BY <2>4, <4>1, <4>2, <4>3, <5>2
        <5> QED
          BY <2>1, <5>2, <5>3 DEF DoubleSlash
      <4> QED
        BY <2>2, <4>3, <4>4, <4>5, <4>6
    <3> QED
      BY <3>2, <3>3, <3>4
  <2>6. CASE (base[m] = "/" /\ path[1] # "/") \/ (base[m] # "/" /\ path[1] = "/")
    <3>1. url = base \o path
      BY <1>4, <2>1, <2>6 DEF Join
    <3>2. Part(url) = Part(base) \o Part(path)
      BY <3>1, PartOfConcat
    <3>3. ASSUME DoubleSlash(url) PROVE DoubleSlash(base) \/ DoubleSlash(path)
      <4>1. /\ Len(url) = m + n
            /\ \A i \in 1 .. m + n : url[i] = IF i <= m THEN base[i] ELSE path[i - m]
        BY <2>1, <3>1, ConcatProperties
      <4>2. PICK i \in 1 .. Len(url) - 1 : url[i] = "/" /\ url[i + 1] = "/"
        BY <3>3 DEF DoubleSlash
      <4>3. i \in 1 .. m + n /\ i + 1 \in 1 .. m + n
        BY <2>2, <4>1, <4>2
      <4>4. CASE i + 1 <= m
        <5>1. i \in 1 .. m - 1 /\ i <= m /\ base[i] = "/" /\ base[i + 1] = "/"
          BY <2>2, <4>1, <4>2, <4>3, <4>4
        <5> QED
          BY <2>1, <5>1 DEF DoubleSlash
      <4>5. CASE i = m
        <5>1. (i + 1) - m = 1 /\ ~(i + 1 <= m)
          BY <2>2, <4>3, <4>5
        <5>2. path[1] = "/" /\ base[m] = "/"
          BY <4>1, <4>2, <4>3, <4>5, <5>1
        <5> QED
          BY <2>6, <5>2
      <4>6. CASE i > m
        <5>1. PICK j : j = i - m
          OBVIOUS
        <5>2. j \in 1 .. n - 1 /\ (i + 1) - m = j + 1 /\ ~(i <= m) /\ ~(i + 1 <= m)
          BY <2>2, <4>3, <4>6, <5>1
        <5>3. path[j] = "/" /\ path[j + 1] = "/"
          BY <4>1, <4>2, <4>3, <5>1, <5>2
        <5> QED
          BY <2>1, <5>2, <5>3 DEF DoubleSlash
      <4> QED
        BY <2>2, <4>3, <4>4, <4>5, <4>6
    <3> QED
      BY <3>2, <3>3
  <2>7. CASE base[m] # "/" /\ path[1] # "/"
    <3>1. PICK slash, front : slash = <<"/">> /\ front = base \o slash
      OBVIOUS
    <3>2. url = front \o path
      BY <1>4, <2>1, <2>7, <3>1 DEF Join
    <3>3. /\ slash \in Seq(Symbols) /\ Part(slash) = <<>> /\ Len(slash) = 1 /\ slash[1] = "/"
      <4>1. "/" \in Symbols
        BY DEF Symbols
      <4> QED
        BY <3>1, <4>1, PartOfOne
    <3>4. Part(front) = Part(base) \o Part(slash) /\ front \in Seq(Symbols)
      BY <3>1, <3>3, PartOfConcat
    <3>5. Part(front) = Part(base)
      BY <1>1, <3>3, <3>4, ConcatEmptySeq
    <3>6. Part(url) = Part(front) \o Part(path)
      BY <3>2, <3>4, PartOfConcat
    <3>7. ASSUME DoubleSlash(url) PROVE DoubleSlash(base) \/ DoubleSlash(path)
      <4>1. /\ Len(front) = m + 1
            /\ \A i \in 1 .. m + 1 : front[i] = IF i <= m THEN base[i] ELSE slash[i - m]
        BY <2>1, <3>1, <3>3, ConcatProperties
      <4>2. /\ Len(url) = (m + 1) + n
            /\ \A i \in 1 .. (m + 1) + n : url[i] = IF i <= m + 1 THEN front[i] ELSE path[i - (m + 1)]
        <5>1. /\ Len(url) = Len(front) + Len(path)
              /\ \A i \in 1 .. Len(front) + Len(path) :
                    url[i] = IF i <= Len(front) THEN front[i] ELSE path[i - Len(front)]
          BY <3>2, <3>4, ConcatProperties
        <5> QED
          BY <2>1, <4>1, <5>1
      <4>3. PICK i \in 1 .. Len(url) - 1 : url[i] = "/" /\ url[i + 1] = "/"
        BY <3>7 DEF DoubleSlash
      <4>4. i \in 1 .. (m + 1) + n /\ i + 1 \in 1 .. (m + 1) + n
        BY <2>2, <4>2, <4>3
      <4>5. CASE i + 1 <= m
        <5>1. /\ i \in 1 .. m - 1 /\ i <= m + 1 /\ i + 1 <= m + 1 /\ i <= m
              /\ i \in 1 .. m + 1 /\ i + 1 \in 1 .. m + 1
          BY <2>2, <4>4, <4>5
        <5>2. base[i] = "/" /\ base[i + 1] = "/"
          BY <4>1, <4>2, <4>3, <4>4, <4>5, <5>1
        <5> QED
          BY <2>1, <5>1, <5>2 DEF DoubleSlash
      <4>6. CASE i = m
        <5>1. base[m] = "/"
          BY <2>2, <4>1, <4>2, <4>3, <4>4, <4>6
        <5> QED
          BY <2>7, <5>1
      <4>7. CASE i = m + 1
        <5>1. (i + 1) - (m + 1) = 1 /\ ~(i + 1 <= m + 1)
          BY <2>2, <4>7
        <5>2. path[1] = "/"
          BY <4>2, <4>3, <4>4, <5>1
        <5> QED
          BY <2>7, <5>2
      <4>8. CASE i > m + 1
        <5>1. PICK j : j = i - (m + 1)
          OBVIOUS
        <5>2. j \in 1 .. n - 1 /\ (i + 1) - (m + 1) = j + 1 /\ ~(i <= m + 1) /\ ~(i + 1 <= m + 1)
          BY <2>2, <4>4, <4>8, <5>1
        <5>3. path[j] = "/" /\ path[j + 1] = "/"
          BY <4>2, <4>3, <4>4, <5>1, <5>2
        <5> QED
          BY <2>1, <5>2, <5>3 DEF DoubleSlash
      <4> QED
        BY <2>2, <4>4, <4>5, <4>6, <4>7, <4>8
    <3> QED
      BY <3>5, <3>6, <3>7
  <2> QED
    BY <2>5, <2>6, <2>7
<1> QED
  BY <1>2, <1>3, <1>4

LEMMA PartOfJoined ==
    ASSUME NEW s, NEW t, NEW c, Joined(Symbols, s, t, c)
    PROVE  Part(c) = Part(s) \o Part(t)
BY PartOfConcat DEF Joined

LEMMA SuffixAfterTwo ==
    ASSUME NEW T, NEW u, NEW q, NEW c, Joined(T, u, q, c), Len(u) = 2
    PROVE  SubSeq(c, 3, Len(c)) = q
<1>1. PICK n : n = Len(q) /\ n \in Nat /\ q \in Seq(T)
  BY LenProperties DEF Joined
<1>2. /\ c \in Seq(T) /\ Len(c) = 2 + n
      /\ \A i \in 1 .. 2 + n : c[i] = IF i <= 2 THEN u[i] ELSE q[i - 2]
  <2>1. Values(T, c, u, Len(u), q, Len(q))
    BY ONLY Joined(T, u, q, c), JoinedValues
  <2>2. Values(T, c, u, 2, q, n)
    BY <1>1, <2>1, Zenon
  <2> QED
    BY ONLY <2>2 DEF Values
<1>3. PICK m, s : m = 2 /\ s = SubSeq(c, m + 1, Len(c))
  OBVIOUS
<1>4. /\ s \in Seq(T) /\ Len(s) = Len(c) - m
      /\ \A i \in 1 .. Len(c) - m : s[i] = c[m + i]
  <2>1. m \in Nat /\ m <= Len(c) /\ c \in Seq(T) /\ s = SubSeq(c, m + 1, Len(c))
    BY <1>1, <1>2, <1>3
  <2> QED
    BY ONLY <2>1, SuffixValues
<1>5. ASSUME NEW i \in 1 .. n PROVE s[i] = q[i]
  <2>1. 2 + i \in 1 .. 2 + n /\ ~(2 + i <= 2) /\ (2 + i) - 2 = i /\ i \in 1 .. Len(c) - m
    BY <1>1, <1>2, <1>3
  <2> QED
    BY <1>2, <1>3, <1>4, <2>1
<1>6. Len(s) = Len(q) /\ Len(s) = n
  BY <1>1, <1>2, <1>3, <1>4
<1>7. s = q
  <2>1. s \in Seq(T) /\ q \in Seq(T) /\ Len(s) = Len(q) /\ \A i \in 1 .. Len(s) : s[i] = q[i]
    BY <1>1, <1>4, <1>5, <1>6
  <2> QED
    BY ONLY <2>1, SeqEqual
<1> QED
  BY <1>3, <1>7

\* A path that pins a provider: its name, and what is sent upstream.
LEMMA PinnedPath ==
    ASSUME file \in Files, Configured, NEW path, path \in Seq(STRING),
           \A i \in 1 .. Len(path) - 1 : path[i] = "/" \/ path[i + 1] = "/",
           Pinned(path), PinOf(path) \in DOMAIN providers
    PROVE  /\ PinOf(path) = path[4]
           /\ Remaining(path) \in Seq(Symbols)
           /\ Part(Remaining(path)) = Asked(path)
           /\ DoubleSlash(Remaining(path)) => DoubleSlash(path)
<1>1. PinOf(path) # None /\ PinOf(path) # "/"
  <2>1. PICK i \in 1 .. Len(Names) : PinOf(path) = Names[i]
    BY LoadedProviders
  <2>2. Names[i] # "/" /\ Names[i] \in STRING
    BY DispatchAssumption
  <2> QED
    BY <2>1, <2>2, DispatchAssumption
<1>2. PICK n \in Nat : n = Len(path)
  OBVIOUS
<1>3. n >= 4 /\ PinOf(path) = path[4] /\ path[4] # "/"
  BY <1>1, <1>2 DEF PinOf
<1>4. path[1] = "/" /\ path[2] # "/" /\ path[3] = "/"
  <2>1. path # Root
    <3>1. Len(Root) = 2
      BY DEF Root
    <3>2. Len(path) # 2
      BY <1>2, <1>3
    <3> QED
      BY <3>1, <3>2, Zenon
  <2>2. PICK p : p = Append(Root, "/")
    OBVIOUS
  <2>3. Len(p) = 3 /\ p[1] = "/" /\ p[2] = "provider" /\ p[3] = "/"
    <3>1. PICK T, e, f : e = "/" /\ f = "provider" /\ e \in T /\ f \in T
      <4>1. "/" \in {"/", "provider"} /\ "provider" \in {"/", "provider"}
        OBVIOUS
      <4> QED
        BY <4>1
    <3>2. PICK root : root = <<e, f>>
      OBVIOUS
    <3>3. /\ root \in Seq(T) /\ Len(root) = 2 /\ root[1] = e /\ root[2] = f
          /\ p = Append(root, e)
      BY <2>2, <3>1, <3>2 DEF Root
    <3>4. /\ Len(p) = Len(root) + 1 /\ p[Len(root) + 1] = e
          /\ \A i \in 1 .. Len(root) : p[i] = root[i]
      <4>1. root \in Seq(T) /\ e \in T
        BY <3>1, <3>3
      <4>2. /\ Len(Append(root, e)) = Len(root) + 1 /\ Append(root, e)[Len(root) + 1] = e
            /\ \A i \in 1 .. Len(root) : Append(root, e)[i] = root[i]
        BY ONLY <4>1, AppendProperties
      <4> QED
        BY <3>3, <4>2
    <3>5. Len(root) + 1 = 3 /\ 1 \in 1 .. Len(root) /\ 2 \in 1 .. Len(root)
      BY <3>3
    <3> QED
      BY <3>1, <3>3, <3>4, <3>5
  <2>9. HasPrefix(path, p)
    BY <2>1, <2>2 DEF Pinned
  <2>4. SubSeq(path, 1, 3) = p
    BY <2>3, <2>9 DEF HasPrefix
  <2>5. PICK s : s = SubSeq(path, 1, 3)
    OBVIOUS
  <2>6. \A i \in 1 .. 3 : s[i] = path[i]
    BY <1>2, <1>3, <2>5
  <2>7. "provider" # "/"
    OBVIOUS
  <2> QED
    BY <2>3, <2>4, <2>5, <2>6, <2>7
<1>5. PICK rest : rest = SubSeq(path, 5, Len(path))
  OBVIOUS
<1>6. path \in Seq(Symbols) /\ \A i \in 1 .. 4 : path[i] \in Symbols
  <2>1. path \in Seq(Symbols)
    BY SymbolSequences
  <2> QED
    BY <1>2, <1>3, <2>1, ElementOfSeq
<1>7. /\ rest \in Seq(Symbols) /\ Len(rest) = n - 4
      /\ \A i \in 1 .. n - 4 : rest[i] = path[4 + i]
  <2>1. PICK m : m = 4
    OBVIOUS
  <2>2. m \in Nat /\ m <= Len(path) /\ path \in Seq(Symbols)
    BY <1>2, <1>3, <1>6, <2>1
  <2>3. /\ SubSeq(path, m + 1, Len(path)) \in Seq(Symbols)
        /\ Len(SubSeq(path, m + 1, Len(path))) = Len(path) - m
        /\ \A i \in 1 .. Len(path) - m : SubSeq(path, m + 1, Len(path))[i] = path[m + i]
    BY ONLY <2>2, SuffixValues
  <2>4. m + 1 = 5
    BY <2>1
  <2> QED
    BY <1>2, <1>5, <2>1, <2>3, <2>4
<1>8. PICK a, b, c, d : a = <<path[1]>> /\ b = <<path[2]>> /\ c = <<path[3]>> /\ d = <<path[4]>>
  OBVIOUS
<1>9. /\ a \in Seq(Symbols) /\ Len(a) = 1 /\ a[1] = path[1] /\ Part(a) = <<>>
      /\ b \in Seq(Symbols) /\ Len(b) = 1 /\ b[1] = path[2] /\ Part(b) = b
      /\ c \in Seq(Symbols) /\ Len(c) = 1 /\ c[1] = path[3] /\ Part(c) = <<>>
      /\ d \in Seq(Symbols) /\ Len(d) = 1 /\ d[1] = path[4] /\ Part(d) = d
  <2>1. 1 \in 1 .. 4 /\ 2 \in 1 .. 4 /\ 3 \in 1 .. 4 /\ 4 \in 1 .. 4
    OBVIOUS
  <2> QED
    BY <1>3, <1>4, <1>6, <1>8, <2>1, PartOfOne
<1>10. PICK ab, cd, abcd, whole : /\ ab = a \o b /\ cd = c \o d
                                 /\ abcd = ab \o cd /\ whole = abcd \o rest
  OBVIOUS
<1>21. Joined(Symbols, a, b, ab) /\ Joined(Symbols, c, d, cd)
  BY <1>9, <1>10 DEF Joined
<1>11. /\ ab \in Seq(Symbols) /\ Len(ab) = 2 /\ ab[1] = path[1] /\ ab[2] = path[2]
       /\ cd \in Seq(Symbols) /\ Len(cd) = 2 /\ cd[1] = path[3] /\ cd[2] = path[4]
  <2>1. /\ Values(Symbols, ab, a, Len(a), b, Len(b))
        /\ Values(Symbols, cd, c, Len(c), d, Len(d))
    BY ONLY <1>21, JoinedValues
  <2>2. Values(Symbols, ab, a, 1, b, 1) /\ Values(Symbols, cd, c, 1, d, 1)
    BY <1>9, <2>1, Zenon
  <2>3. /\ ab \in Seq(Symbols) /\ Len(ab) = 2 /\ ab[1] = a[1] /\ ab[2] = b[1]
        /\ cd \in Seq(Symbols) /\ Len(cd) = 2 /\ cd[1] = c[1] /\ cd[2] = d[1]
    BY ONLY <2>2 DEF Values
  <2> QED
    BY <1>9, <2>3
<1>22. Joined(Symbols, ab, cd, abcd)
  BY <1>10, <1>11 DEF Joined
<1>12. /\ abcd \in Seq(Symbols) /\ Len(abcd) = 4
       /\ \A i \in 1 .. 4 : abcd[i] = path[i]
  <2>1. Values(Symbols, abcd, ab, Len(ab), cd, Len(cd))
    BY ONLY <1>22, JoinedValues
  <2>2. Values(Symbols, abcd, ab, 2, cd, 2)
    BY <1>11, <2>1, Zenon
  <2>3. /\ abcd \in Seq(Symbols) /\ Len(abcd) = 4
        /\ abcd[1] = ab[1] /\ abcd[2] = ab[2] /\ abcd[3] = cd[1] /\ abcd[4] = cd[2]
    BY ONLY <2>2 DEF Values
  <2>4. ASSUME NEW i \in 1 .. 4 PROVE i = 1 \/ i = 2 \/ i = 3 \/ i = 4
    OBVIOUS
  <2> QED
    BY <1>11, <2>3, <2>4
<1>23. Joined(Symbols, abcd, rest, whole)
  BY <1>7, <1>10, <1>12 DEF Joined
<1>13. whole = path
  <2>1. /\ whole \in Seq(Symbols) /\ Len(whole) = n
        /\ \A i \in 1 .. n : whole[i] = IF i <= 4 THEN abcd[i] ELSE rest[i - 4]
    <3>1. Values(Symbols, whole, abcd, Len(abcd), rest, Len(rest))
      BY ONLY <1>23, JoinedValues
    <3>2. PICK m : m = n - 4 /\ m = Len(rest) /\ 4 + m = n
      BY <1>3, <1>7
    <3>3. Values(Symbols, whole, abcd, 4, rest, m)
      BY <1>12, <3>1, <3>2, Zenon
    <3> QED
      BY ONLY <3>2, <3>3 DEF Values
  <2>2. ASSUME NEW i \in 1 .. n PROVE whole[i] = path[i]
    <3>1. CASE i <= 4
      BY <1>12, <2>1, <3>1
    <3>2. CASE i > 4
      <4>1. i - 4 \in 1 .. n - 4 /\ 4 + (i - 4) = i /\ ~(i <= 4)
        BY <3>2
      <4> QED
        BY <1>7, <2>1, <4>1
    <3> QED
      BY <3>1, <3>2
  <2> QED
    BY <1>2, <1>6, <2>1, <2>2, SeqEqual
<1>14. PICK q : q = Part(rest) /\ q \in Seq(Symbols)
  BY <1>7, PartType
<1>15. PICK u : /\ u \in Seq(Symbols) /\ Len(u) = 2
                /\ Part(path) = u \o q
  <2>1. PICK bd : bd = b \o d /\ Joined(Symbols, b, d, bd)
    BY <1>9 DEF Joined
  <2>2. Part(ab) = b /\ Part(cd) = d
    <3>1. Part(ab) = Part(a) \o Part(b) /\ Part(cd) = Part(c) \o Part(d)
      BY ONLY <1>21, PartOfJoined
    <3> QED
      BY <1>9, <3>1, ConcatEmptySeq
  <2>3. Part(abcd) = bd
    <3>1. Part(abcd) = Part(ab) \o Part(cd)
      BY ONLY <1>22, PartOfJoined
    <3> QED
      BY <2>1, <2>2, <3>1
  <2>4. bd \in Seq(Symbols) /\ Len(bd) = 2
    <3>1. Values(Symbols, bd, b, Len(b), d, Len(d))
      BY ONLY <2>1, JoinedValues
    <3>2. Values(Symbols, bd, b, 1, d, 1)
      BY <1>9, <3>1, Zenon
    <3> QED
      BY ONLY <3>2 DEF Values
  <2>5. Part(whole) = Part(abcd) \o Part(rest)
    BY ONLY <1>23, PartOfJoined
  <2> QED
    BY <1>13, <1>14, <2>3, <2>4, <2>5
<1>16. Asked(path) = q
  <2>1. PICK w : w = Part(path) /\ Joined(Symbols, u, q, w)
    BY <1>14, <1>15 DEF Joined
  <2>2. SubSeq(w, 3, Len(w)) = q
    <3>1. Joined(Symbols, u, q, w) /\ Len(u) = 2
      BY <1>15, <2>1
    <3> QED
      BY ONLY <3>1, SuffixAfterTwo
  <2> QED
    BY <2>1, <2>2 DEF Asked
<1>17. PICK tail, slash : /\ tail = SubSeq(path, 6, Len(path)) /\ slash = <<"/">>
                          /\ Remaining(path) = slash \o tail
  BY DEF Remaining
<1>18. slash \in Seq(Symbols) /\ Len(slash) = 1 /\ slash[1] = "/" /\ Part(slash) = <<>>
  <2>1. "/" \in Symbols
    BY DEF Symbols
  <2> QED
    BY <1>17, <2>1, PartOfOne
<1>19. CASE n = 4
  <2>1. tail = <<>> /\ rest = <<>>
    BY <1>2, <1>5, <1>7, <1>17, <1>19
  <2>2. Remaining(path) = slash
    BY <1>17, <1>18, <2>1, ConcatEmptySeq
  <2>3. q = <<>>
    <3>1. PICK e : e = <<>> /\ e \in Seq(Symbols) /\ slash = slash \o e
      BY <1>17, <1>18, <2>1, <2>2, <1>7
    <3>2. Part(slash) = Part(slash) \o Part(e)
      BY <1>18, <3>1, PartOfConcat
    <3>3. Part(e) \in Seq(Symbols)
      BY <3>1, PartType
    <3>4. Part(e) = <<>>
      BY <1>18, <3>2, <3>3, ConcatEmptySeq
    <3> QED
      BY <1>14, <2>1, <3>1, <3>4
  <2>4. ~DoubleSlash(slash)
    BY <1>18 DEF DoubleSlash
  <2> QED
    BY <1>3, <1>16, <1>18, <2>2, <2>3, <2>4
<1>20. CASE n # 4
  <2>1. n >= 5 /\ path[5] = "/"
    <3>1. n >= 5 /\ 4 \in 1 .. Len(path) - 1 /\ 4 + 1 = 5
      BY <1>2, <1>3, <1>20
    <3> QED
      BY <1>3, <3>1
  <2>2. PICK r : r = Remaining(path)
    OBVIOUS
  <2>3. /\ tail \in Seq(Symbols) /\ Len(tail) = n - 5
        /\ \A i \in 1 .. n - 5 : tail[i] = path[5 + i]
    <3>1. PICK m : m = 5
      OBVIOUS
    <3>2. m \in Nat /\ m <= Len(path) /\ path \in Seq(Symbols)
      BY <1>2, <1>6, <2>1, <3>1
    <3>3. /\ SubSeq(path, m + 1, Len(path)) \in Seq(Symbols)
          /\ Len(SubSeq(path, m + 1, Len(path))) = Len(path) - m
          /\ \A i \in 1 .. Len(path) - m : SubSeq(path, m + 1, Len(path))[i] = path[m + i]
      BY ONLY <3>2, SuffixValues
    <3>4. m + 1 = 6
      BY <3>1
    <3> QED
      BY <1>2, <1>17, <3>1, <3>3, <3>4
  <2>4. /\ r \in Seq(Symbols) /\ Len(r) = n - 4
        /\ \A i \in 1 .. n - 4 : r[i] = IF i <= 1 THEN slash[i] ELSE tail[i - 1]
    <3>1. /\ r \in Seq(Symbols) /\ Len(r) = Len(slash) + Len(tail)
          /\ \A i \in 1 .. Len(slash) + Len(tail) :
                r[i] = IF i <= Len(slash) THEN slash[i] ELSE tail[i - Len(slash)]
      BY <1>17, <1>18, <2>2, <2>3, ConcatProperties
    <3>2. Len(slash) + Len(tail) = n - 4
      BY <1>18, <2>1, <2>3
    <3> QED
      BY <1>18, <3>1, <3>2
  <2>5. ASSUME NEW i \in 1 .. n - 4 PROVE r[i] = rest[i]
    <3>1. CASE i = 1
      BY <1>7, <1>18, <2>1, <2>4, <3>1
    <3>2. CASE i # 1
      <4>1. i - 1 \in 1 .. n - 5 /\ 5 + (i - 1) = 4 + i /\ ~(i <= 1)
        BY <2>1, <3>2
      <4> QED
        BY <1>7, <2>3, <2>4, <4>1
    <3> QED
      BY <3>1, <3>2
  <2>6. r = rest
    BY <1>7, <2>4, <2>5, SeqEqual
  <2>7. DoubleSlash(rest) => DoubleSlash(path)
    <3> SUFFICES ASSUME DoubleSlash(rest) PROVE DoubleSlash(path)
      OBVIOUS
    <3>1. PICK i \in 1 .. Len(rest) - 1 : rest[i] = "/" /\ rest[i + 1] = "/"
      BY DEF DoubleSlash
    <3>2. PICK j : j = 4 + i
      OBVIOUS
    <3>3. /\ i \in 1 .. n - 4 /\ i + 1 \in 1 .. n - 4 /\ j \in 1 .. Len(path) - 1
          /\ 4 + (i + 1) = j + 1
      BY <1>2, <1>3, <1>7, <3>1, <3>2
    <3>4. path[j] = "/" /\ path[j + 1] = "/"
      BY <1>7, <3>1, <3>2, <3>3
    <3> QED
      BY <3>3, <3>4 DEF DoubleSlash
  <2> QED
    BY <1>3, <1>7, <1>14, <1>16, <2>2, <2>6, <2>7
<1> QED
  BY <1>19, <1>20

\* A request goes to the provider that its path names, or else to an active one that
\* speaks its protocol; it is turned away only if there is none; and the URL has the
\* parts of the provider's and then those that the client asked for, with single
\* slashes: for every path and every table of providers.
THEOREM RequestsAreRouted == Spec => []RoutedRight
<1>1. DispatchInv => RoutedRight
  <2> SUFFICES ASSUME DispatchInv PROVE RoutedRight
    OBVIOUS
  <2>1. ASSUME NEW i \in 1 .. Len(attempts), NEW a, a = attempts[i],
               NEW protocol, protocol = Protocol(Remaining(request.path))
        PROVE  /\ protocol # None => HasCapability(a.provider, protocol)
               /\ IF Pinned(request.path)
                  THEN Len(attempts) = 1 /\ a.provider = request.path[4]
                  ELSE Weight(a.provider) > 0
               /\ Part(a.path) = Part(providers[a.provider].base) \o Asked(request.path)
               /\ DoubleSlash(a.path) => \/ DoubleSlash(request.path)
                                         \/ DoubleSlash(providers[a.provider].base)
    <3>1. PICK r, path : r = request /\ path = request.path
      OBVIOUS
    <3>2. Ordered /\ r \in Requests /\ file \in Files
      BY <3>1, AttemptTarget DEF DispatchInv
    <3>3. PICK name \in DOMAIN providers :
             /\ attempts[i] = Forward(r, name)
             /\ Pinned(path) => /\ Len(attempts) = 1
                                /\ name = PinOf(path)
                                /\ ~Incapable(r)
             /\ ~Pinned(path) => name \in Capable(Protocol(path))
      BY <3>1, AttemptTarget
    <3>4. /\ path \in Seq(STRING)
          /\ \A k \in 1 .. Len(path) - 1 : path[k] = "/" \/ path[k + 1] = "/"
      BY <3>1, <3>2, RequestsAssumption
    <3>5. PICK base, rest : /\ base = providers[name].base /\ base \in Seq(Symbols)
                            /\ rest = Remaining(path)
      BY <3>2, LoadedProviders, SymbolSequences DEF Ordered
    <3>6. a.provider = name /\ a.path = Join(base, rest)
      BY <2>1, <3>1, <3>3, <3>5 DEF Forward
    <3>7. CASE Pinned(path)
      <4>1. /\ name = path[4]
            /\ rest \in Seq(Symbols)
            /\ Part(rest) = Asked(path)
            /\ DoubleSlash(rest) => DoubleSlash(path)
        <5>1. Configured /\ PinOf(path) \in DOMAIN providers
          BY <3>2, <3>3, <3>7 DEF Ordered
        <5> QED
          BY <3>2, <3>3, <3>4, <3>5, <3>7, <5>1, PinnedPath
      <4>2. protocol # None => HasCapability(name, protocol)
        BY <2>1, <3>1, <3>3, <3>7 DEF Incapable
      <4>3. /\ Part(a.path) = Part(base) \o Part(rest)
            /\ DoubleSlash(a.path) => DoubleSlash(base) \/ DoubleSlash(rest)
        BY <3>5, <3>6, <4>1, JoinProperties
      <4> QED
        BY <3>1, <3>3, <3>5, <3>6, <3>7, <4>1, <4>2, <4>3
    <3>8. CASE ~Pinned(path)
      <4>1. rest = path /\ rest \in Seq(Symbols) /\ Asked(path) = Part(path)
        BY <3>4, <3>5, <3>8, SymbolSequences DEF Remaining, Asked
      <4>2. /\ protocol # None => HasCapability(name, protocol)
            /\ Weight(name) > 0
        BY <2>1, <3>1, <3>3, <3>5, <3>8, <4>1 DEF Capable, Active
      <4>3. /\ Part(a.path) = Part(base) \o Part(rest)
            /\ DoubleSlash(a.path) => DoubleSlash(base) \/ DoubleSlash(rest)
        BY <3>5, <3>6, <4>1, JoinProperties
      <4> QED
        BY <3>1, <3>3, <3>5, <3>6, <3>8, <4>1, <4>2, <4>3
    <3> QED
      BY <3>7, <3>8
  <2>2. answer # None => request # None /\ Served /\ Ordered /\ file \in Files
    BY DEF DispatchInv
  <2>3. None # 503 /\ None # 400
    BY DispatchAssumption
  <2>4. ASSUME answer = 503, NEW name \in DOMAIN providers, Weight(name) > 0
        PROVE  ~HasCapability(name, Protocol(request.path))
    <3>1. CapableOf(Protocol(request.path)) = <<>>
      BY <2>2, <2>3, <2>4 DEF Served
    <3>2. IsFiniteSet(DOMAIN providers) /\ active \in Sorted(Active)
      BY <2>2, <2>3, <2>4, LoadedProviders DEF Ordered
    <3>3. Lists(CapableOf(Protocol(request.path)), Capable(Protocol(request.path)), InOrder)
      BY <3>2, CapableOfProperties
    <3>4. Capable(Protocol(request.path)) = {}
      BY <3>1, <3>3 DEF Lists
    <3> QED
      BY <2>4, <3>4 DEF Capable, Active
  <2>5. ASSUME answer = 400
        PROVE  /\ Pinned(request.path)
               /\ \A name \in DOMAIN providers :
                     HasPrefix(request.path, <<"/", "provider", "/", name>>) =>
                         ~HasCapability(name, Protocol(Remaining(request.path)))
    <3>1. Pinned(request.path) /\ (Unresolved(request) \/ Incapable(request))
      BY <2>2, <2>3, <2>5 DEF Served
    <3>2. ASSUME NEW name \in DOMAIN providers,
                 HasPrefix(request.path, <<"/", "provider", "/", name>>)
          PROVE  ~HasCapability(name, Protocol(Remaining(request.path)))
      <4>1. PICK path, p : path = request.path /\ p = <<"/", "provider", "/", name>>
        OBVIOUS
      <4>2. Len(p) = 4 /\ p[4] = name
        BY <4>1
      <4>3. path \in Seq(STRING)
        BY <2>2, <2>3, <2>5, <4>1, RequestsAssumption DEF DispatchInv
      <4>4. Len(path) >= 4 /\ SubSeq(path, 1, 4) = p
        BY <3>2, <4>1, <4>2 DEF HasPrefix
      <4>5. path[4] = name
        <5>1. PICK s : s = SubSeq(path, 1, 4)
          OBVIOUS
        <5>2. s[4] = path[4]
          BY <4>3, <4>4, <5>1
        <5> QED
          BY <4>2, <4>4, <5>1, <5>2
      <4>6. name # "/"
        <5>1. PICK i \in 1 .. Len(Names) : name = Names[i]
          BY <2>2, <2>3, <2>5, LoadedProviders DEF Ordered
        <5> QED
          BY <5>1, DispatchAssumption
      <4>7. PinOf(path) = name
        BY <4>3, <4>4, <4>5, <4>6 DEF PinOf
      <4>8. ~Unresolved(request)
        BY <4>1, <4>7 DEF Unresolved
      <4> QED
        BY <3>1, <4>1, <4>7, <4>8 DEF Incapable
    <3> QED
      BY <3>1, <3>2
  <2> QED
    BY <2>1, <2>4, <2>5, Zenon DEF RoutedRight
<1> QED
  BY <1>1, DispatchInvariance, PTL
-----------------------------------------------------------------------------
(* The weighted choice.                                                    *)

\* U has the weights of the first members of s together.
Sums(s, n, U) ==
    /\ n \in Nat /\ n = Len(s) /\ U = Upto(s) /\ U \in [0 .. n -> Nat]
    /\ U[0] = 0 /\ Sum(s) = U[n]
    /\ \A i \in 1 .. n : Weight(s[i]) \in Nat /\ U[i] = U[i - 1] + Weight(s[i])

LEMMA SumsProperties ==
    ASSUME NEW T, NEW s, s \in Seq(T), \A t \in T : Weight(t) \in Nat
    PROVE  Sums(s, Len(s), Upto(s))
<1>1. /\ Upto(s) \in [0 .. Len(s) -> Nat]
      /\ Upto(s)[0] = 0
      /\ \A i \in 1 .. Len(s) : Upto(s)[i] = Upto(s)[i - 1] + Weight(s[i])
  BY UptoValues
<1>2. Len(s) \in Nat /\ \A i \in 1 .. Len(s) : Weight(s[i]) \in Nat
  BY LenProperties, ElementOfSeq
<1> QED
  BY <1>1, <1>2 DEF Sums, Sum

Weighed(T) == \A t \in T : Weight(t) \in Nat
Appended(T, s, e, r) == s \in Seq(T) /\ e \in T /\ r = Append(s, e)

\* One more member adds its weight.
LEMMA SumOfAppend ==
    ASSUME NEW T, Weighed(T), NEW s, NEW e, NEW r, Appended(T, s, e, r)
    PROVE  /\ r \in Seq(T)
           /\ Sum(s) \in Nat
           /\ Sum(r) = Sum(s) + Weight(e)
<1>1. PICK n, U : Sums(s, n, U)
  BY SumsProperties DEF Weighed, Appended
<1>2. /\ r \in Seq(T) /\ Len(r) = n + 1
      /\ \A i \in 1 .. n : r[i] = s[i]
      /\ r[n + 1] = e
  BY <1>1, AppendProperties DEF Sums, Appended
<1>3. PICK V : Sums(r, n + 1, V)
  BY <1>2, SumsProperties DEF Weighed
<1>4. \A i \in 0 .. n : V[i] = U[i]
  <2>1. PICK Y : Y = {i \in 0 .. n : V[i] = U[i]}
    OBVIOUS
  <2>2. 0 \in Y
    BY <1>1, <1>3, <2>1 DEF Sums
  <2>3. ASSUME NEW i \in 1 .. n, i - 1 \in Y PROVE i \in Y
    <3>1. /\ i \in 0 .. n /\ i \in 1 .. n + 1
          /\ V[i - 1] = U[i - 1] /\ r[i] = s[i]
      BY <1>1, <1>2, <2>1, <2>3 DEF Sums
    <3>2. V[i] = V[i - 1] + Weight(r[i]) /\ U[i] = U[i - 1] + Weight(s[i])
      BY <1>1, <1>3, <3>1 DEF Sums
    <3> QED
      BY <2>1, <3>1, <3>2
  <2>4. n \in Nat
    BY <1>1 DEF Sums
  <2>5. 0 .. n \subseteq Y
    BY ONLY <2>2, <2>3, <2>4, InductionUpto
  <2> QED
    BY <2>1, <2>5
<1>5. n \in Nat /\ n \in 0 .. n /\ n + 1 \in 1 .. n + 1 /\ (n + 1) - 1 = n
  BY <1>1 DEF Sums
<1>6. Sum(r) = V[n + 1] /\ V[n + 1] = V[n] + Weight(e)
  BY <1>2, <1>3, <1>5 DEF Sums
<1>7. Sum(s) = U[n] /\ U[n] \in Nat
  BY <1>1, <1>5 DEF Sums
<1> QED
  BY <1>2, <1>4, <1>5, <1>6, <1>7

\* A selection weighs at most what the whole weighs.
LEMMA SumOfSelected ==
    ASSUME NEW T, NEW s, s \in Seq(T), \A t \in T : Weight(t) \in Nat, NEW S
    PROVE  Sum(Selected(s, S)) <= Sum(s)
<1>1. PICK n, U : Sums(s, n, U)
  BY SumsProperties
<1>2. PICK H : H = SelectedUpto(s, S)
  OBVIOUS
<1>3. /\ H \in [0 .. n -> Seq(T)]
      /\ H[0] = <<>>
      /\ \A i \in 1 .. n : H[i] = IF s[i] \in S THEN Append(H[i - 1], s[i]) ELSE H[i - 1]
  <2>1. s \in Seq(T) /\ H = SelectedUpto(s, S) /\ n = Len(s)
    BY <1>1, <1>2 DEF Sums
  <2> QED
    BY ONLY <2>1, SelectionLoop
<1>4. PICK Y : Y = {i \in 0 .. n : Sum(H[i]) <= U[i]}
  OBVIOUS
<1>5. n \in Nat
  BY <1>1 DEF Sums
<1>6. 0 \in Y
  <2>1. PICK e : e = <<>> /\ e \in Seq(T) /\ Len(e) = 0
    BY EmptySeq
  <2>2. Sums(e, Len(e), Upto(e))
    BY <2>1, SumsProperties
  <2>3. Sum(e) = 0
    BY <2>1, <2>2 DEF Sums
  <2> QED
    BY <1>1, <1>3, <1>4, <1>5, <2>1, <2>3 DEF Sums
<1>7. ASSUME NEW i \in 1 .. n, i - 1 \in Y PROVE i \in Y
  <2>1. /\ i \in 0 .. n /\ i - 1 \in 0 .. n /\ Sum(H[i - 1]) <= U[i - 1]
        /\ U[i] = U[i - 1] + Weight(s[i]) /\ Weight(s[i]) \in Nat
        /\ U[i - 1] \in Nat /\ U[i] \in Nat
    <3>1. /\ U \in [0 .. n -> Nat]
          /\ U[i] = U[i - 1] + Weight(s[i]) /\ Weight(s[i]) \in Nat
      BY <1>1 DEF Sums
    <3>2. i \in 0 .. n /\ i - 1 \in 0 .. n
      BY <1>5
    <3>3. Sum(H[i - 1]) <= U[i - 1]
      BY <1>4, <1>7
    <3> QED
      BY ONLY <3>1, <3>2, <3>3
  <2>2. PICK q, e : q = H[i - 1] /\ e = s[i] /\ q \in Seq(T) /\ e \in T
    <3>1. H[i - 1] \in Seq(T)
      BY <1>3, <2>1
    <3>2. s[i] \in T
      BY <1>1, ElementOfSeq DEF Sums
    <3> QED
      BY <3>1, <3>2
  <2>3. PICK r : r = Append(q, e)
    OBVIOUS
  <2>4. Sum(q) \in Nat /\ Sum(r) = Sum(q) + Weight(e)
    <3>1. Weighed(T) /\ Appended(T, q, e, r)
      BY <2>2, <2>3 DEF Weighed, Appended
    <3> QED
      BY ONLY <3>1, SumOfAppend
  <2>5. H[i] = r \/ H[i] = q
    BY <1>3, <2>2, <2>3
  <2>6. Sum(H[i]) <= U[i]
    <3>1. Sum(q) <= U[i - 1] /\ U[i] = U[i - 1] + Weight(e) /\ Weight(e) \in Nat
      BY <2>1, <2>2
    <3>2. Sum(q) <= U[i] /\ Sum(r) <= U[i]
      BY <2>1, <2>4, <3>1
    <3> QED
      BY <2>5, <3>2
  <2> QED
    BY <1>4, <2>1, <2>6
<1>8. 0 .. n \subseteq Y
  BY ONLY <1>5, <1>6, <1>7, InductionUpto
<1>9. Sum(H[n]) <= U[n]
  BY <1>4, <1>5, <1>8
<1>10. Selected(s, S) = H[n] /\ Sum(s) = U[n]
  BY <1>1, <1>2 DEF Selected, Sums
<1> QED
  BY <1>9, <1>10

\* The numbers that pick the i-th of several candidates are those from the weights of
\* the candidates before it on: as many as its weight.
LEMMA PickRange ==
    ASSUME NEW c, NEW n, NEW U, Sums(c, n, U),
           \A i \in 1 .. n : Weight(c[i]) > 0,
           \A i, j \in 1 .. n : c[i] = c[j] => i = j,
           NEW i, i \in 1 .. n, NEW d, d \in 0 .. U[n] - 1
    PROVE  Pick(c, d) = c[i] <=> d \in U[i - 1] .. U[i] - 1
<1>1. /\ n \in Nat /\ n = Len(c) /\ U = Upto(c) /\ U \in [0 .. n -> Nat]
      /\ U[0] = 0
      /\ \A k \in 1 .. n : Weight(c[k]) \in Nat /\ U[k] = U[k - 1] + Weight(c[k])
  BY DEF Sums
<1>13. \A k \in 0 .. n : U[k] \in Nat
  BY <1>1
<1>2. \A k, l \in 0 .. n : k <= l => U[k] <= U[l]
  <2>1. \A k \in 1 .. n : U[k - 1] <= U[k]
    <3>1. ASSUME NEW k \in 1 .. n PROVE U[k - 1] <= U[k]
      <4>1. k - 1 \in 0 .. n
        BY <1>1
      <4>2. U[k - 1] \in Nat
        BY <1>1, <4>1
      <4> QED
        BY <1>1, <4>2
    <3> QED
      BY <3>1
  <2>2. n \in Nat /\ U \in [0 .. n -> Nat]
    BY <1>1
  <2> QED
    BY ONLY <2>1, <2>2, Monotone
<1>3. PICK covering : covering = {k \in 1 .. n : d < U[k]}
  OBVIOUS
<1>4. covering \subseteq Nat /\ covering # {}
  <2>1. n \in covering
    BY <1>1, <1>3
  <2> QED
    BY <1>3, <2>1
<1>5. PICK f : f = CHOOSE k \in covering : \A l \in covering : k <= l
  OBVIOUS
<1>6. f \in covering /\ \A l \in covering : f <= l
  <2>1. \E k \in covering : \A l \in covering : k <= l
    BY ONLY <1>4, LeastElement
  <2> QED
    BY <1>5, <2>1, Zenon
<1>7. Pick(c, d) = c[f]
  BY <1>1, <1>3, <1>4, <1>5 DEF Pick
<1>8. f \in 1 .. n /\ i \in 1 .. n /\ i \in Int /\ f \in Int
  BY <1>1, <1>3, <1>6
<1>9. Pick(c, d) = c[i] <=> f = i
  BY <1>7, <1>8
<1>10. d \in Int /\ d >= 0
  BY <1>1
<1>11. ASSUME f = i PROVE d \in U[i - 1] .. U[i] - 1
  <2>1. d < U[i] /\ U[i] \in Nat
    BY <1>1, <1>3, <1>6, <1>8, <1>11, SMTT(30)
  <2>2. U[i - 1] <= d
    <3>1. CASE i = 1
      BY <1>1, <1>10, <3>1
    <3>2. CASE i # 1
      <4>1. i - 1 \in 1 .. n /\ ~(f <= i - 1) /\ i - 1 \in 0 .. n
        BY <1>1, <1>8, <1>11, <3>2
      <4>2. ~(d < U[i - 1])
        BY <1>3, <1>6, <4>1
      <4>3. U[i - 1] \in Nat
        BY <1>13, <4>1
      <4> QED
        BY ONLY <1>10, <4>2, <4>3
    <3> QED
      BY <3>1, <3>2
  <2>3. U[i - 1] \in Nat
    <3>1. i - 1 \in 0 .. n
      BY <1>1
    <3> QED
      BY <1>13, <3>1
  <2> QED
    BY <1>10, <2>1, <2>2, <2>3
<1>12. ASSUME d \in U[i - 1] .. U[i] - 1 PROVE f = i
  <2>1. i - 1 \in 0 .. n /\ i \in 0 .. n /\ f \in 0 .. n
    BY <1>1, <1>8
  <2>2. U[i - 1] \in Nat /\ U[i] \in Nat /\ U[f] \in Nat
    BY <1>1, <2>1
  <2>3. d < U[i] /\ U[i - 1] <= d
    BY <1>10, <1>12, <2>2
  <2>4. f <= i
    BY <1>3, <1>6, <1>8, <2>3
  <2>5. CASE f < i
    <3>1. f <= i - 1
      BY <1>8, <2>5
    <3>2. U[f] <= U[i - 1]
      BY <1>2, <2>1, <3>1
    <3>3. d < U[f]
      BY <1>3, <1>6
    <3> QED
      BY <1>10, <2>2, <2>3, <3>2, <3>3
  <2> QED
    BY <1>8, <2>4, <2>5
<1> QED
  BY <1>9, <1>11, <1>12

\* The weighted choice among candidates whose weights fit an int.
LEMMA FairChoice ==
    ASSUME NEW T, Weighed(T), NEW c, c \in Seq(T), \A t \in T : Weight(t) > 0,
           \A i, j \in 1 .. Len(c) : c[i] = c[j] => i = j,
           Sum(c) <= MaxInt, NEW i, i \in 1 .. Len(c)
    PROVE  Cardinality({d \in Draws(c) : Pick(c, d) = c[i]}) * Sum(c)
             = Weight(c[i]) * Cardinality(Draws(c))
<1>1. PICK n, U : Sums(c, n, U)
  BY SumsProperties DEF Weighed
<1>2. /\ n \in Nat /\ n = Len(c) /\ U = Upto(c) /\ U \in [0 .. n -> Nat]
      /\ U[0] = 0 /\ Sum(c) = U[n]
      /\ \A k \in 1 .. n : Weight(c[k]) \in Nat /\ U[k] = U[k - 1] + Weight(c[k])
  BY <1>1 DEF Sums
<1>3. \A k \in 1 .. n : c[k] \in T /\ Weight(c[k]) > 0
  BY <1>2, ElementOfSeq
<1>4. TotalWeight(c) = Sum(c)
  BY TotalWeightType DEF Weighed
<1>5. \A k \in 0 .. n : U[k] \in Nat
  BY <1>2
<1>6. PICK chosen, w, s : /\ chosen = {d \in Draws(c) : Pick(c, d) = c[i]}
                          /\ w = Weight(c[i]) /\ s = U[n]
  OBVIOUS
<1>7. /\ w \in Nat /\ w > 0 /\ s \in Nat
      /\ i - 1 \in 0 .. n /\ i \in 0 .. n /\ U[i - 1] \in Nat /\ U[i] = U[i - 1] + w
  <2>1. i \in 1 .. n /\ i - 1 \in 0 .. n /\ i \in 0 .. n /\ n \in 0 .. n
    BY <1>2
  <2> QED
    BY <1>2, <1>3, <1>5, <1>6, <2>1
<1>8. U[i] <= s
  <2>1. \A k \in 1 .. n : U[k - 1] <= U[k]
    <3>1. ASSUME NEW k \in 1 .. n PROVE U[k - 1] <= U[k]
      <4>1. k - 1 \in 0 .. n
        BY <1>2
      <4>2. U[k - 1] \in Nat
        BY <1>5, <4>1
      <4> QED
        BY <1>2, <4>2
    <3> QED
      BY <3>1
  <2>2. n \in Nat /\ U \in [0 .. n -> Nat]
    BY <1>2
  <2>3. \A k, l \in 0 .. n : k <= l => U[k] <= U[l]
    BY ONLY <2>1, <2>2, Monotone
  <2>4. i \in 0 .. n /\ n \in 0 .. n /\ i <= n
    BY <1>2
  <2> QED
    BY <1>6, <2>3, <2>4
<1>9. s > 0
  <2>1. U[i] \in Nat /\ U[i] >= w
    BY ONLY <1>7
  <2> QED
    BY ONLY <1>7, <1>8, <2>1
<1>10. CASE n = 1
  <2>1. i = 1 /\ s = w
    BY <1>2, <1>6, <1>7, <1>10
  <2>2. Draws(c) = {0}
    BY <1>2, <1>10 DEF Draws
  <2>3. Pick(c, 0) = c[i]
    <3>1. c # <<>>
      <4>1. Len(<<>>) = 0
        OBVIOUS
      <4> QED
        BY <1>2, <1>10, <4>1, SMTT(30)
    <3>2. PICK k \in 1 .. Len(c) : Pick(c, 0) = c[k]
      BY <3>1, PickMember
    <3>3. k = 1
      BY <1>2, <1>10, <3>2
    <3> QED
      BY <2>1, <3>2, <3>3
  <2>4. chosen = {0} /\ Cardinality({0}) = 1
    BY <1>6, <2>2, <2>3, FS_Singleton
  <2>5. Cardinality(chosen) * s = w * Cardinality(Draws(c))
    <3>1. 1 * s = w * 1
      BY <1>7, <2>1
    <3> QED
      BY <2>2, <2>4, <3>1
  <2> QED
    BY <1>2, <1>6, <2>5
<1>11. CASE n # 1
  <2>1. Draws(c) = 0 .. s - 1
    BY <1>2, <1>4, <1>6, <1>9, <1>7, <1>11 DEF Draws
  <2>2. Cardinality(Draws(c)) = s
    <3>1. 0 \in Int /\ s - 1 \in Int /\ ~(0 > s - 1) /\ (s - 1) - 0 + 1 = s
      BY <1>7, <1>9
    <3>2. Cardinality(0 .. s - 1) = (s - 1) - 0 + 1
      BY ONLY <3>1, FS_Interval
    <3> QED
      BY <2>1, <3>1, <3>2
  <2>3. chosen = U[i - 1] .. U[i] - 1
    <3>1. ASSUME NEW d \in 0 .. s - 1 PROVE Pick(c, d) = c[i] <=> d \in U[i - 1] .. U[i] - 1
      <4>1. /\ \A k \in 1 .. n : Weight(c[k]) > 0
            /\ \A k, l \in 1 .. n : c[k] = c[l] => k = l
            /\ i \in 1 .. n /\ d \in 0 .. U[n] - 1
        BY <1>2, <1>3, <1>6
      <4> QED
        BY ONLY <1>1, <4>1, PickRange
    <3>2. U[i - 1] .. U[i] - 1 \subseteq 0 .. s - 1
      BY <1>7, <1>8
    <3> QED
      BY <1>6, <2>1, <3>1, <3>2
  <2>4. Cardinality(chosen) = w
    <3>1. PICK a, b : /\ a = U[i - 1] /\ b = U[i] - 1 /\ a \in Int /\ b \in Int
                      /\ ~(a > b) /\ b - a + 1 = w
      <4>1. U[i] \in Nat /\ U[i - 1] \in Int /\ U[i] - 1 \in Int
            /\ ~(U[i - 1] > U[i] - 1) /\ (U[i] - 1) - U[i - 1] + 1 = w
        BY ONLY <1>7
      <4> QED
        BY <4>1
    <3>2. Cardinality(a .. b) = b - a + 1
      BY ONLY <3>1, FS_Interval
    <3> QED
      BY <2>3, <3>1, <3>2
  <2>5. w * s = w * Cardinality(Draws(c))
    BY <2>2
  <2> QED
    BY <1>2, <1>6, <2>2, <2>4
<1> QED
  BY <1>10, <1>11

\* The gateway starts with every valid file whose weights fit an int, has a positive
\* number to draw from, and draws each candidate as often as its weight says, for a
\* passthrough as among those that speak a protocol: for all weights.
THEOREM DrawsAreFair == Spec => []WeightsHold
<1>1. DispatchInv => WeightsHold
  <2> SUFFICES ASSUME DispatchInv PROVE WeightsHold
    OBVIOUS
  <2>1. ASSUME Ordered
        PROVE  /\ Weighed(Active) /\ \A name \in Active : Weight(name) > 0
               /\ IsFiniteSet(DOMAIN providers) /\ IsFiniteSet(Active)
               /\ active \in Seq(Active)
               /\ {active[i] : i \in 1 .. Len(active)} = Active
    <3>1. /\ Configured /\ file \in Files /\ active \in Sorted(Active)
      BY <2>1 DEF Ordered, DispatchInv
    <3>2. IsFiniteSet(DOMAIN providers) /\ IsFiniteSet(Active)
      BY <3>1, LoadedProviders, FS_Subset DEF Active
    <3>3. /\ active \in Seq(Active)
          /\ {active[i] : i \in 1 .. Len(active)} = Active
      BY <3>1, <3>2, SortedProperties
    <3> QED
      BY <3>1, <3>2, <3>3, ActiveWeights DEF Weighed
  <2>2. ASSUME phase = "refused", Valid(file) PROVE Sum(active) > MaxInt
    <3>1. Ordered /\ (active = <<>> \/ TotalWeight(active) <= 0)
      BY <2>2 DEF DispatchInv
    <3>2. Configured /\ file \in Files
      BY <3>1 DEF Ordered, DispatchInv
    <3>3. PICK name \in DOMAIN file.providers : file.providers[name].weight > 0
      BY <2>2 DEF Valid
    <3>4. name \in DOMAIN providers /\ Weight(name) > 0
      <4>1. name \in DOMAIN providers /\ providers[name] = Loaded(file.providers[name])
        BY <3>2 DEF Configured
      <4> QED
        BY <3>3, <4>1 DEF Weight, Loaded
    <3>5. PICK i \in 1 .. Len(active) : active[i] = name
      BY <2>1, <3>1, <3>4 DEF Active
    <3>6. PICK n, U : Sums(active, n, U)
      BY <2>1, <3>1, SumsProperties DEF Weighed
    <3>7. Sum(active) > 0 /\ Sum(active) \in Nat
      <4>1. /\ n \in Nat /\ n = Len(active) /\ U \in [0 .. n -> Nat] /\ Sum(active) = U[n]
            /\ \A k \in 1 .. n : Weight(active[k]) \in Nat /\ U[k] = U[k - 1] + Weight(active[k])
        BY <3>6 DEF Sums
      <4>2. \A k \in 0 .. n : U[k] \in Nat
        BY <4>1
      <4>3. n \in 1 .. n /\ n - 1 \in 0 .. n /\ n \in 0 .. n
        BY <4>1, <3>5
      <4>4. Weight(active[n]) > 0 /\ Weight(active[n]) \in Nat
        <5>1. active[n] \in Active
          BY <2>1, <3>1, <4>1, <4>3, ElementOfSeq
        <5> QED
          BY <2>1, <3>1, <4>1, <4>3, <5>1
      <4>5. U[n] = U[n - 1] + Weight(active[n]) /\ U[n - 1] \in Nat /\ U[n] \in Nat
        BY <4>1, <4>2, <4>3
      <4> QED
        BY ONLY <4>1, <4>4, <4>5
    <3>8. active # <<>>
      <4>1. Len(<<>>) = 0
        OBVIOUS
      <4> QED
        BY <3>5, <4>1
    <3>9. Sum(active) <= MaxInt => TotalWeight(active) = Sum(active)
      BY <2>1, <3>1, TotalWeightType DEF Weighed
    <3> QED
      BY <3>1, <3>7, <3>8, <3>9, DispatchAssumption
  <2>3. phase = "serving" => TotalWeight(active) > 0
    BY DEF DispatchInv
  <2>4. ASSUME phase = "serving", Sum(active) <= MaxInt, NEW protocol,
               NEW c, c = CapableOf(protocol), NEW i \in 1 .. Len(c)
        PROVE  Cardinality({d \in Draws(c) : Pick(c, d) = c[i]}) * Sum(c)
                 = Weight(c[i]) * Cardinality(Draws(c))
    <3>1. Ordered
      BY <2>4 DEF DispatchInv
    <3>2. Lists(c, Capable(protocol), InOrder)
      BY <2>1, <2>4, <3>1, CapableOfProperties DEF Ordered
    <3>3. c \in Seq(Active) /\ \A k, l \in 1 .. Len(c) : k < l => c[k] # c[l]
      BY <3>2 DEF Lists, InOrder
    <3>4. ASSUME NEW k \in 1 .. Len(c), NEW l \in 1 .. Len(c), c[k] = c[l] PROVE k = l
      <4>1. k \in Int /\ l \in Int /\ (k < l \/ l < k \/ k = l)
        BY <3>3
      <4> QED
        BY <3>3, <3>4, <4>1
    <3>5. Sum(c) <= MaxInt
      <4>1. PICK S : c = Selected(active, S)
        BY <2>4 DEF CapableOf
      <4>2. Sum(c) <= Sum(active)
        BY <2>1, <3>1, <4>1, SumOfSelected DEF Weighed
      <4>3. Sum(c) \in Nat /\ Sum(active) \in Nat
        BY <2>1, <3>1, <3>3, TotalWeightType DEF Weighed
      <4> QED
        BY <2>4, <4>2, <4>3, DispatchAssumption
    <3>6. Weighed(Active) /\ \A name \in Active : Weight(name) > 0
      BY <2>1, <3>1
    <3> QED
      BY ONLY <3>3, <3>4, <3>5, <3>6, i \in 1 .. Len(c), FairChoice
  <2> QED
    BY <2>2, <2>3, <2>4, Zenon DEF WeightsHold
<1> QED
  BY <1>1, DispatchInvariance, PTL
=============================================================================
