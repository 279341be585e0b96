----------------------------- MODULE MapLibrary -----------------------------
(***************************************************************************)
(* Map bundles on disk (map_session.py, semantics.py).  A bundle is one    *)
(* directory; its core files come in two pairs, the pose graph written by  *)
(* slam_toolbox and the raster with its YAML written by the executor.  The *)
(* content of a file is the SLAM run it was produced by, which is also     *)
(* what its hash tells apart.  Readers see a directory only under its map  *)
(* name: staging and tombstone directories carry names no map can have.    *)
(***************************************************************************)
EXTENDS Naturals, FiniteSets, Sequences

CONSTANTS
    MapNames,     \* safe_basename accepts these
    BadName,      \* a name it rejects
    NoMap,        \* the empty string
    Found,        \* the maps on disk at first boot
    MaxStarts,    \* bound: starts of a mode unit
    SlowPaint     \* a manifest may be hashed long before it is written

ASSUME LibraryConstants ==
    /\ MaxStarts \in Nat /\ SlowPaint \in BOOLEAN /\ Found \subseteq MapNames
    /\ NoMap \notin MapNames /\ BadName \notin MapNames /\ BadName # NoMap

VARIABLES
    maps,         \* the directory of each map id
    staging,      \* the directory of the running save transaction
    painting      \* the map whose semantics.png is newer than its manifest
                  \* and, once hashed, the manifest it is to get

libraryVars == <<maps, staging, painting>>

Missing == 0                     \* no such file, or an empty one
Runs == 0 .. MaxStarts           \* run 0 recorded the maps found at first boot
Content == 0 .. MaxStarts + 1    \* of a file: Missing, or run r as r + 1
Of(run) == run + 1

NoManifest == [session |-> 0, posegraph |-> 0, raster |-> 0, semantics |-> 0]
Manifests == [session : Nat, posegraph : Content, raster : Content, semantics : 0 .. 1]

NotPainting == [map |-> NoMap, hashed |-> FALSE, manifest |-> NoManifest]
Paintings == [map : MapNames \cup {NoMap}, hashed : BOOLEAN, manifest : Manifests]

EmptyDirectory ==
    [posegraph |-> Missing, raster |-> Missing, semantics |-> Missing,
     manifest |-> NoManifest, listed |-> FALSE]
Directories ==
    [posegraph : Content, raster : Content, semantics : 0 .. 1,
     manifest : Manifests, listed : BOOLEAN]

(* The id is a single bounded path component. *)
safe_basename(name) == name \in MapNames

(* The manifest, where there is one, speaks of the core files found. *)
HashesMatch(directory) ==
    \/ directory.manifest = NoManifest
    \/ /\ directory.manifest.posegraph = directory.posegraph
       /\ directory.manifest.raster = directory.raster

(* The raster is there, its YAML parses and its header is plausible. *)
RasterReadable(directory) == directory.raster # Missing

Complete(directory) ==
    directory.posegraph # Missing /\ RasterReadable(directory) /\ HashesMatch(directory)

validate_bundle(name) ==
    safe_basename(name) /\ maps[name].listed /\ Complete(maps[name])

(* The names scan_catalog reports as selectable. *)
Catalog == {name \in MapNames : validate_bundle(name)}

build_manifest(session, directory) ==
    [session |-> session, posegraph |-> directory.posegraph,
     raster |-> directory.raster, semantics |-> directory.semantics]

LibraryInit ==
    /\ maps = [name \in MapNames |->
                 IF name \in Found
                 THEN [EmptyDirectory EXCEPT !.posegraph = Of(0), !.raster = Of(0),
                                             !.listed = TRUE]
                 ELSE EmptyDirectory]
    /\ staging = EmptyDirectory
    /\ painting = NotPainting

LibraryTypeOK ==
    /\ maps \in [MapNames -> Directories]
    /\ staging \in Directories
    /\ painting \in Paintings

-----------------------------------------------------------------------------
(* Storage steps.  Each is a single rename or a write nobody reads yet. *)

(* MapSaveTransaction.prepare: the name must be free; staging starts empty. *)
StagePrepare(name) ==
    ~maps[name].listed /\ staging' = EmptyDirectory /\ UNCHANGED <<maps, painting>>

StagePosegraph(run) ==
    staging' = [staging EXCEPT !.posegraph = Of(run)] /\ UNCHANGED <<maps, painting>>

StageRaster(run) ==
    staging' = [staging EXCEPT !.raster = Of(run)] /\ UNCHANGED <<maps, painting>>

(* MapSaveTransaction.publish: the manifest, then one rename that fails on  *)
(* a directory that is there.                                               *)
StagePublish(name, session) ==
    /\ ~maps[name].listed
    /\ maps' = [maps EXCEPT ![name] =
                  [staging EXCEPT !.manifest = build_manifest(session, staging),
                                  !.listed = TRUE]]
    /\ staging' = EmptyDirectory
    /\ UNCHANGED painting

(* delete_bundle: the directory is renamed away in one operation. *)
RemoveBundle(name) ==
    /\ maps' = [maps EXCEPT ![name] = EmptyDirectory]
    /\ UNCHANGED <<staging, painting>>

-----------------------------------------------------------------------------
(* write_semantics, run by the web process: the PNG first, then the files   *)
(* are hashed, then the manifest is written.  The web process may die in    *)
(* between, the map may be deleted, and another one saved under its name.   *)

PaintSemantics(name) ==
    /\ painting = NotPainting
    /\ validate_bundle(name)
    /\ maps' = [maps EXCEPT ![name].semantics = 1]
    /\ painting' = [NotPainting EXCEPT !.map = name]
    /\ UNCHANGED staging

HashManifest ==
    /\ painting.map # NoMap /\ ~painting.hashed
    /\ painting' =
         [painting EXCEPT !.hashed = TRUE, !.manifest =
            IF maps[painting.map].listed
            THEN build_manifest(maps[painting.map].manifest.session, maps[painting.map])
            ELSE NoManifest]
    /\ UNCHANGED <<maps, staging>>

PaintManifest ==
    /\ painting.hashed
    /\ maps' = IF maps[painting.map].listed
               THEN [maps EXCEPT ![painting.map].manifest = painting.manifest] ELSE maps
    /\ painting' = NotPainting
    /\ UNCHANGED staging

PaintingDies ==
    painting # NotPainting /\ painting' = NotPainting /\ UNCHANGED <<maps, staging>>

Painting == HashManifest \/ PaintManifest \/ PaintingDies

(* The time a save takes is long against that of hashing and writing. *)
MayPublish(name) == SlowPaint \/ ~(painting.hashed /\ painting.map = name)
=============================================================================
