-------------------------- MODULE HashRegistryProofs --------------------------
(***************************************************************************)
(* The registry forwards every listed hash to the latest text of its file, *)
(* for any files and texts and any order of registrations and              *)
(* invalidations.                                                          *)
(***************************************************************************)
EXTENDS HashRegistry, TLAPS

\* What makes ForwardsToLatest inductive: a forwarded hash is still listed
\* for some file, so a new text of a file nobody else shares has no forward.
ListedWereRegistered == \A f \in File : Listed(f) \subseteq ever[f]

LatestIsListed ==
    \A f \in File : Listed(f) # {} => latest[f] \in Listed(f)

ForwardedAreListed ==
    \A k \in Hash : forward[k] # None => \E g \in File : k \in Listed(g)

RegistryInv ==
    /\ TypeOKRegistry
    /\ ListedWereRegistered
    /\ LatestIsListed
    /\ ForwardedAreListed
    /\ ForwardsToLatest

\* The hashes a file lists after one of them, or a new one, is registered.
LEMMA ListedAfterRegister ==
    ASSUME TypeOKRegistry, NEW h \in Hash, NEW text \in Hash, NEW f \in File,
           Register(h, text, f)
    PROVE  /\ Listed(f)' = Listed(f) \cup {h}
           /\ \A g \in File \ {f} : Listed(g)' = Listed(g)
<1>1. bySource \in [File -> Seq(Hash)] BY DEF TypeOKRegistry
<1>2. \A g \in File \ {f} : Listed(g)' = Listed(g)
  BY <1>1 DEF Register, Listed
<1>3. Listed(f)' = Listed(f) \cup {h}
  <2>1. CASE h \in Listed(f)
    BY <1>1, <2>1 DEF Register, Listed
  <2>2. CASE h \notin Listed(f)
    <3>1. bySource'[f] = Append(bySource[f], h)
      BY <1>1, <2>2 DEF Register
    <3>2. bySource[f] \in Seq(Hash) BY <1>1
    <3>3. DOMAIN Append(bySource[f], h) = DOMAIN bySource[f] \cup {Len(bySource[f]) + 1}
      BY <3>2
    <3>4. \A i \in DOMAIN bySource[f] : Append(bySource[f], h)[i] = bySource[f][i]
      BY <3>2
    <3>5. Append(bySource[f], h)[Len(bySource[f]) + 1] = h
      BY <3>2
    <3> QED BY <3>1, <3>3, <3>4, <3>5 DEF Listed
  <2> QED BY <2>1, <2>2
<1> QED BY <1>2, <1>3

\* What a file lists after the source of one is invalidated.
LEMMA ListedAfterInvalidate ==
    ASSUME TypeOKRegistry, NEW f \in File, InvalidateSource(f)
    PROVE  /\ Listed(f)' = {}
           /\ \A g \in File \ {f} : Listed(g)' = Listed(g)
BY DEF TypeOKRegistry, InvalidateSource, Listed

LEMMA RegisterKeepsType ==
    ASSUME TypeOKRegistry, NEW h \in Hash, NEW text \in Hash, NEW f \in File,
           Register(h, text, f)
    PROVE  TypeOKRegistry'
<1>1. entries' \in [Hash -> Entry \cup {None}]
  BY DEF TypeOKRegistry, Register, Entry
<1>2. forward' \in [Hash -> Hash \cup {None}]
  BY DEF TypeOKRegistry, Register, ForwardsTo
<1>3. bySource' \in [File -> Seq(Hash)]
  BY DEF TypeOKRegistry, Register
<1>4. latest' \in [File -> Hash \cup {None}] /\ ever' \in [File -> SUBSET Hash]
  BY DEF TypeOKRegistry, Register
<1> QED BY <1>1, <1>2, <1>3, <1>4 DEF TypeOKRegistry

\* Registering a text makes it the latest, and every hash of its file and of
\* the others still leads to the latest of its file.
LEMMA RegisterForwards ==
    ASSUME RegistryInv, NEW h \in Hash, NEW text \in Hash, NEW f \in File,
           Register(h, text, f)
    PROVE  ForwardsToLatest'
<1> SUFFICES ASSUME NEW g \in File, OwnTexts(g)', NEW k \in Listed(g)'
             PROVE  \/ forward'[k] = latest'[g]
                    \/ forward'[k] = None /\ k = latest'[g]
  BY DEF ForwardsToLatest
<1>1. /\ Listed(f)' = Listed(f) \cup {h}
      /\ \A e \in File \ {f} : Listed(e)' = Listed(e)
  BY ListedAfterRegister DEF RegistryInv
<1>2. /\ forward \in [Hash -> Hash \cup {None}]
      /\ latest \in [File -> Hash \cup {None}]
      /\ ever \in [File -> SUBSET Hash]
  BY DEF RegistryInv, TypeOKRegistry
<1>3. /\ ever'[f] = ever[f] \cup {h}
      /\ \A e \in File \ {f} : ever'[e] = ever[e] /\ latest'[e] = latest[e]
      /\ latest'[f] = h
  BY <1>2 DEF Register
<1>4. \A e \in File : Listed(e) \subseteq ever[e]
  BY DEF RegistryInv, ListedWereRegistered
<1>5. forward' = ForwardsTo(h, f)
  BY DEF Register
<1>6. k \in Hash
  BY <1>1, <1>2, <1>4
<1>7. OwnTexts(g)
  BY <1>3 DEF OwnTexts
<1>8. CASE g = f
  <2>1. CASE k # h
    <3>1. k \in Listed(f) BY <1>1, <1>8, <2>1
    <3> QED BY <1>3, <1>5, <1>6, <1>8, <2>1, <3>1 DEF ForwardsTo
  <2>2. CASE k = h /\ h \in Listed(f)
    <3>1. forward[h] = latest[f] \/ forward[h] = None
      BY <1>7, <1>8, <2>2 DEF RegistryInv, ForwardsToLatest
    <3>2. latest[f] \in Listed(f)
      BY <2>2 DEF RegistryInv, LatestIsListed
    <3>3. None \notin Listed(f)
      BY <1>2, <1>4, NoneAssumption
    <3>4. forward'[h] = IF forward[h] \in Listed(f) THEN h ELSE forward[h]
      BY <1>5 DEF ForwardsTo
    <3> QED BY <1>3, <1>8, <2>2, <3>1, <3>2, <3>3, <3>4
  <2>3. CASE k = h /\ h \notin Listed(f)
    <3>1. \A e \in File : h \notin Listed(e)
      BY <1>3, <1>4, <1>8, <2>3 DEF OwnTexts
    <3>2. forward[h] = None
      BY <3>1 DEF RegistryInv, ForwardedAreListed
    <3>3. None \notin Listed(f)
      BY <1>2, <1>4, NoneAssumption
    <3>4. forward'[h] = None
      BY <1>5, <2>3, <3>2, <3>3 DEF ForwardsTo
    <3> QED BY <1>3, <1>8, <2>3, <3>4
  <2> QED BY <2>1, <2>2, <2>3
<1>9. CASE g # f
  <2>1. k \in Listed(g) /\ latest'[g] = latest[g]
    BY <1>1, <1>3, <1>9
  <2>2. forward[k] = latest[g] \/ (forward[k] = None /\ k = latest[g])
    <3>1. ForwardsToLatest BY DEF RegistryInv
    <3> QED BY <1>7, <2>1, <3>1 DEF ForwardsToLatest
  <2>3. latest[g] \in Listed(g)
    BY <2>1 DEF RegistryInv, LatestIsListed
  <2>4. k \notin Listed(f) /\ latest[g] \notin Listed(f)
    BY <1>4, <1>7, <1>9, <2>1, <2>3 DEF OwnTexts
  <2>5. None \notin Listed(f)
    BY <1>2, <1>4, NoneAssumption
  <2>6. forward'[k] = forward[k]
    BY <1>5, <1>6, <2>2, <2>4, <2>5 DEF ForwardsTo
  <2> QED BY <2>1, <2>2, <2>6
<1> QED BY <1>8, <1>9

LEMMA RegisterKeepsInv ==
    ASSUME RegistryInv, NEW h \in Hash, NEW text \in Hash, NEW f \in File,
           Register(h, text, f)
    PROVE  RegistryInv'
<1>1. /\ Listed(f)' = Listed(f) \cup {h}
      /\ \A e \in File \ {f} : Listed(e)' = Listed(e)
  BY ListedAfterRegister DEF RegistryInv
<1>2. TypeOKRegistry'
  BY RegisterKeepsType DEF RegistryInv
<1>3. /\ latest'[f] = h /\ ever'[f] = ever[f] \cup {h}
      /\ \A e \in File \ {f} : latest'[e] = latest[e] /\ ever'[e] = ever[e]
  BY DEF RegistryInv, TypeOKRegistry, Register
<1>4. ListedWereRegistered'
  BY <1>1, <1>3 DEF RegistryInv, ListedWereRegistered
<1>5. LatestIsListed'
  BY <1>1, <1>3 DEF RegistryInv, LatestIsListed
<1>6. ForwardedAreListed'
  <2> SUFFICES ASSUME NEW k \in Hash, forward'[k] # None
               PROVE  \E g \in File : k \in Listed(g)'
    BY DEF ForwardedAreListed
  <2>1. forward'[k] = IF (k \in Listed(f) /\ k # h) \/ forward[k] \in Listed(f)
                      THEN h ELSE forward[k]
    BY DEF Register, ForwardsTo
  <2>2. Listed(f) \subseteq Hash
    BY DEF RegistryInv, TypeOKRegistry, ListedWereRegistered
  <2>3. k \in Listed(f) \/ forward[k] # None
    BY <2>1, <2>2, NoneAssumption
  <2>4. \E g \in File : k \in Listed(g)
    BY <2>3 DEF RegistryInv, ForwardedAreListed
  <2> QED BY <1>1, <2>4
<1>7. ForwardsToLatest'
  BY RegisterForwards
<1> QED BY <1>2, <1>4, <1>5, <1>6, <1>7 DEF RegistryInv

LEMMA InvalidateKeepsInv ==
    ASSUME RegistryInv, NEW f \in File, InvalidateSource(f)
    PROVE  RegistryInv'
<1>1. /\ Listed(f)' = {}
      /\ \A e \in File \ {f} : Listed(e)' = Listed(e)
  BY ListedAfterInvalidate DEF RegistryInv
<1>2. TypeOKRegistry'
  BY DEF RegistryInv, TypeOKRegistry, InvalidateSource
<1>3. ever' = ever /\ \A e \in File \ {f} : latest'[e] = latest[e]
  BY DEF RegistryInv, TypeOKRegistry, InvalidateSource
<1>4. \A k \in Hash : forward'[k] =
          IF k \in Listed(f) \/ forward[k] \in Listed(f) THEN None ELSE forward[k]
  BY DEF InvalidateSource
<1>5. ListedWereRegistered'
  BY <1>1, <1>3 DEF RegistryInv, ListedWereRegistered
<1>6. LatestIsListed'
  BY <1>1, <1>3 DEF RegistryInv, LatestIsListed
<1>7. ForwardedAreListed'
  <2> SUFFICES ASSUME NEW k \in Hash, forward'[k] # None
               PROVE  \E g \in File : k \in Listed(g)'
    BY DEF ForwardedAreListed
  <2>1. k \notin Listed(f) /\ forward[k] # None
    BY <1>4
  <2>2. PICK g \in File : k \in Listed(g)
    BY <2>1 DEF RegistryInv, ForwardedAreListed
  <2> QED BY <1>1, <2>1, <2>2
<1>8. ForwardsToLatest'
  <2> SUFFICES ASSUME NEW g \in File, OwnTexts(g)', NEW k \in Listed(g)'
               PROVE  \/ forward'[k] = latest'[g]
                      \/ forward'[k] = None /\ k = latest'[g]
    BY DEF ForwardsToLatest
  <2>1. g # f /\ k \in Listed(g) /\ latest'[g] = latest[g] /\ OwnTexts(g)
    BY <1>1, <1>3 DEF OwnTexts
  <2>2. latest[g] \in Listed(g)
    BY <2>1 DEF RegistryInv, LatestIsListed
  <2>3. \A e \in File : Listed(e) \subseteq ever[e]
    BY DEF RegistryInv, ListedWereRegistered
  <2>4. k \notin Listed(f) /\ latest[g] \notin Listed(f)
    BY <2>1, <2>2, <2>3 DEF OwnTexts
  <2>5. k \in Hash
    BY <2>1, <2>3 DEF RegistryInv, TypeOKRegistry
  <2>6. forward[k] = latest[g] \/ (forward[k] = None /\ k = latest[g])
    <3>1. ForwardsToLatest BY DEF RegistryInv
    <3> QED BY <2>1, <3>1 DEF ForwardsToLatest
  <2>7. forward'[k] = forward[k]
    BY <1>4, <2>4, <2>5, <2>6
  <2> QED BY <2>1, <2>6, <2>7
<1> QED BY <1>2, <1>5, <1>6, <1>7, <1>8 DEF RegistryInv

LEMMA InitEstablishes == RegistryInit => RegistryInv
BY NoneAssumption DEF RegistryInit, RegistryInv, TypeOKRegistry, Listed,
   ListedWereRegistered, LatestIsListed, ForwardedAreListed, ForwardsToLatest

\* Every step of the registry, and every step that leaves it alone.
LEMMA StepKeepsInv == RegistryInv /\ [RegistryNext]_registry => RegistryInv'
<1> SUFFICES ASSUME RegistryInv, [RegistryNext]_registry PROVE RegistryInv'
  OBVIOUS
<1>1. CASE RegistryNext
  BY <1>1, RegisterKeepsInv, InvalidateKeepsInv DEF RegistryNext
<1>2. CASE UNCHANGED registry
  <2>1. /\ entries' = entries /\ forward' = forward /\ bySource' = bySource
        /\ latest' = latest /\ ever' = ever
    BY <1>2 DEF registry
  <2>2. \A f \in File : Listed(f)' = Listed(f) BY <2>1 DEF Listed
  <2>3. TypeOKRegistry' BY <2>1 DEF RegistryInv, TypeOKRegistry
  <2>4. ListedWereRegistered' /\ LatestIsListed' /\ ForwardedAreListed'
    BY <2>1, <2>2 DEF RegistryInv, ListedWereRegistered, LatestIsListed,
       ForwardedAreListed
  <2>5. ForwardsToLatest'
    <3>1. ForwardsToLatest BY DEF RegistryInv
    <3> QED BY <2>1, <2>2, <3>1 DEF ForwardsToLatest, OwnTexts
  <2> QED BY <2>3, <2>4, <2>5 DEF RegistryInv
<1> QED BY <1>1, <1>2

\* Whatever is registered and invalidated in whatever order, each listed hash
\* leads to the text registered last for its file (HashRegistry::register).
THEOREM RegistryForwards == RegistrySpec => []ForwardsToLatest
<1>1. RegistryInv => ForwardsToLatest BY DEF RegistryInv
<1> QED BY <1>1, InitEstablishes, StepKeepsInv, PTL DEF RegistrySpec
===============================================================================
