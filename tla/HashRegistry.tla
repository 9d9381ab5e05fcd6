----------------------------- MODULE HashRegistry -----------------------------
(***************************************************************************)
(* The registry of content hashes (hash_resolver.rs).  It keeps, for every *)
(* hash, the content registered under it and the file it came from; for    *)
(* every file, the hashes registered for it, oldest first; and a map that  *)
(* forwards old hashes, collapsed so that one hop leads to the target.     *)
(*                                                                         *)
(* A text is identified with its hash, and the short prefixes a hash can   *)
(* also be named by are left out.                                          *)
(***************************************************************************)
EXTENDS Naturals, Sequences

CONSTANTS
    File,        \* the source paths, normalised
    Hash,        \* the content hashes, and the texts they are computed from
    None         \* no hash, no text, no entry

ASSUME NoneAssumption == None \notin Hash

VARIABLES
    entries,     \* what is registered under a hash: its text and its source
    forward,     \* forward_map
    bySource,    \* source_index
    latest,      \* history: the hash last registered for a file since its
                 \* source was invalidated
    ever         \* history: all hashes registered for a file

registry == << entries, forward, bySource, latest, ever >>

Entry == [text : Hash, source : File]

TypeOKRegistry ==
    /\ entries \in [Hash -> Entry \cup {None}]
    /\ forward \in [Hash -> Hash \cup {None}]
    /\ bySource \in [File -> Seq(Hash)]
    /\ latest \in [File -> Hash \cup {None}]
    /\ ever \in [File -> SUBSET Hash]

RegistryInit ==
    /\ entries = [h \in Hash |-> None]
    /\ forward = [h \in Hash |-> None]
    /\ bySource = [f \in File |-> << >>]
    /\ latest = [f \in File |-> None]
    /\ ever = [f \in File |-> {}]

\* The hashes registered for a file.
Listed(f) == {bySource[f][i] : i \in DOMAIN bySource[f]}

\* Mutant: the forwards that led to an old hash are not collapsed, and the
\* registered hash keeps its own old forward.
ForwardsUncollapsed(h, f) ==
    [k \in Hash |-> IF k \in Listed(f) /\ k # h THEN h ELSE forward[k]]

\* The forwards after h is registered for f: all other hashes of the file
\* lead to h, and so does whatever led to one of the file's hashes.
ForwardsTo(h, f) ==
    [k \in Hash |->
        IF \/ k \in Listed(f) /\ k # h
           \/ forward[k] \in Listed(f)
        THEN h ELSE forward[k]]

Register(h, text, f) ==
    /\ entries' = [entries EXCEPT ![h] = [text |-> text, source |-> f]]
    /\ forward' = ForwardsTo(h, f)
    /\ bySource' = [bySource EXCEPT
           ![f] = IF h \in Listed(f) THEN @ ELSE Append(@, h)]
    /\ latest' = [latest EXCEPT ![f] = h]
    /\ ever' = [ever EXCEPT ![f] = @ \cup {h}]

\* The entries stay: a hash can be looked up long after its file changed.
InvalidateSource(f) ==
    /\ bySource' = [bySource EXCEPT ![f] = << >>]
    /\ forward' = [k \in Hash |->
           IF k \in Listed(f) \/ forward[k] \in Listed(f)
           THEN None ELSE forward[k]]
    /\ latest' = [latest EXCEPT ![f] = None]
    /\ UNCHANGED << entries, ever >>

RegistryNext ==
    \/ \E h, text \in Hash, f \in File : Register(h, text, f)
    \/ \E f \in File : InvalidateSource(f)

RegistrySpec == RegistryInit /\ [][RegistryNext]_registry

\* get_original: the entry registered under the hash itself.
GetOriginal(h) == entries[h]

(***************************************************************************)
(* A file whose texts no other file ever had.  Forwards are kept by hash   *)
(* and not by file, so equal texts of two files share them.                *)
(***************************************************************************)
OwnTexts(f) == \A g \in File \ {f} : ever[f] \cap ever[g] = {}

\* Every hash the registry lists for a file leads in one hop to the text
\* registered for it last, through any order of registrations, also back to
\* an older text (register, get).
ForwardsToLatest ==
    \A f \in File : OwnTexts(f) =>
        \A h \in Listed(f) :
            \/ forward[h] = latest[f]
            \/ forward[h] = None /\ h = latest[f]
===============================================================================
