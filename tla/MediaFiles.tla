------------------------------- MODULE MediaFiles -------------------------------
(***************************************************************************)
(* MediaStore: POST /v1/upload writes a file named by its hash, then its   *)
(* metadata, and keeps the metadata in a map; GET /v1/media serves a hash  *)
(* that has both.  Neither write is atomic on disk: a crash or a full disk *)
(* between or inside them leaves what had been written.                    *)
(***************************************************************************)
EXTENDS Integers

CONSTANTS
    Files,  \* contents, each with its hash
    Types   \* content types a client may claim

\* what meta and metaCache say of a file without readable metadata
ASSUME MediaAssumption == {"none", "torn"} \cap Types = {}

VARIABLES
    data,       \* data[f]: "none", "part" or "whole"
    meta,       \* meta[f]: "none", "torn" or a content type
    metaCache,  \* metaCache[f]: "none" or a content type
    stored,     \* uploads answered with their hash
    cut,        \* files one of whose uploads failed inside store
    uploads     \* uploads left

mediaVars == <<data, meta, metaCache, stored, cut, uploads>>

MediaTypeOK ==
    /\ data \in [Files -> {"none", "part", "whole"}]
    /\ meta \in [Files -> {"none", "torn"} \cup Types]
    /\ metaCache \in [Files -> {"none"} \cup Types]
    /\ stored \subseteq Files /\ cut \subseteq Files

MediaInit ==
    /\ data = [f \in Files |-> "none"] /\ meta = [f \in Files |-> "none"]
    /\ metaCache = [f \in Files |-> "none"]
    /\ stored = {} /\ cut = {} /\ uploads \in Nat

Receive == uploads > 0 /\ uploads' = uploads - 1

\* The file is there: its hash is the answer, its metadata is not looked at.
StoreKnown(f) ==
    /\ Receive /\ data[f] # "none"
    /\ stored' = stored \cup {f}
    /\ UNCHANGED <<data, meta, metaCache, cut>>

StoreNew(f, type) ==
    /\ Receive /\ data[f] = "none"
    /\ data' = [data EXCEPT ![f] = "whole"] /\ meta' = [meta EXCEPT ![f] = type]
    /\ metaCache' = [metaCache EXCEPT ![f] = type]
    /\ stored' = stored \cup {f}
    /\ UNCHANGED cut

\* Mutant: the metadata is written first.
RemainsMetaFirst(type) == {<<"none", "torn">>, <<"none", type>>, <<"part", type>>}

\* What the two writes may leave, in the order they are made.
Remains(type) == {<<"part", "none">>, <<"whole", "none">>, <<"whole", "torn">>}

StoreCut(f, type) ==
    /\ Receive /\ data[f] = "none"
    /\ \E left \in Remains(type) :
         data' = [data EXCEPT ![f] = left[1]] /\ meta' = [meta EXCEPT ![f] = left[2]]
    /\ cut' = cut \cup {f}
    /\ UNCHANGED <<metaCache, stored>>

\* retrieve fills the map from the disk; unreadable metadata is missing.
GetMeta(f) == IF metaCache[f] # "none" THEN metaCache[f] ELSE IF meta[f] = "torn" THEN "none" ELSE meta[f]

Retrieve(f) ==
    /\ metaCache[f] # GetMeta(f)
    /\ metaCache' = [metaCache EXCEPT ![f] = GetMeta(f)]
    /\ UNCHANGED <<data, meta, stored, cut, uploads>>

\* A restart; the disk stays.
MediaLost ==
    /\ metaCache' = [f \in Files |-> "none"]
    /\ UNCHANGED <<data, meta, stored, cut, uploads>>

MediaStep ==
    \E f \in Files :
        \/ StoreKnown(f) \/ Retrieve(f)
        \/ \E type \in Types : StoreNew(f, type) \/ StoreCut(f, type)

----------------------------------------------------------------------------
Served(f) == GetMeta(f) # "none" /\ data[f] # "none"

\* media-store.ts:26-52, upload.ts:36-66.  What is served under a hash has that
\* hash, through crashes and restarts; and an upload that was answered is served,
\* unless an earlier upload of the same bytes broke off and left the file alone.
MediaServed ==
    /\ \A f \in Files : Served(f) => data[f] = "whole"
    /\ \A f \in stored \ cut : Served(f)
=============================================================================
