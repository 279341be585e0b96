---------------------------- MODULE ClientStream ----------------------------
(***************************************************************************)
(* The fan-out of the state cache to the browsers (state_cache.py,         *)
(* client_stream.py).  ROS callbacks change the cache under its lock at    *)
(* any time; the event loop publishes, reading the cache several times in  *)
(* one publication, and only between two publications registers readers,   *)
(* changes their demand or sends.                                          *)
(*                                                                         *)
(* Two state sections and one large kind stand for all.  A frame is the    *)
(* keys (revision, freshness) of what it shows; of a value it matters only *)
(* whether there is one and whether it can be encoded.  The age and health *)
(* texts of a frame are left out.                                          *)
(***************************************************************************)
EXTENDS Integers, OperatorGateway, SequencesExt

VARIABLES
    cache,      \* each section: its revision and freshness; the large kind: its
                \* revision; and the kind of value each holds
    hub,        \* ClientHub: the publication under way and the frames it keeps
    clients,    \* each connection: its ClientConnection, or NoClient
    shown       \* history: the keys each browser has last been sent

streamVars == <<cache, hub, clients, shown>>

SectionOrder == <<"pose", "mode">>
Sections == Range(SectionOrder)

NoKey == [revision |-> 0, fresh |-> FALSE]
NoKeys == [s \in Sections |-> NoKey]
Nothing == <<>>

(* What an entry holds; a number that is not finite cannot be encoded. *)
Contents == {"none", "good", "bad"}

(* ClientConnection.  Unsent forces the next publication to send the large *)
(* kind, be it only to say that there is none.  misled is a history: the   *)
(* sections marked with a key the frame offered did not have.              *)
Unsent == -1
NoClient == [up |-> FALSE, sections |-> Nothing, pending |-> <<>>, demand |-> FALSE, large |-> 0,
             misled |-> {}]

StreamInit ==
    /\ cache = [sections |-> NoKeys, large |-> 0,
                values |-> [k \in Sections \cup {"large"} |-> "none"]]
    /\ hub = [phase |-> "idle", keys |-> NoKeys, next |-> 1,
              frame |-> Nothing, kept |-> NoKeys]
    /\ clients = [c \in Connections |-> NoClient]
    /\ shown = [c \in Connections |-> [sections |-> NoKeys, large |-> 0]]

-----------------------------------------------------------------------------
(* StateCache: update with a new or an equal value, expiry, invalidate. *)

CacheUpdate(s, changed, value) ==
    /\ value # "none"
    /\ ~changed => value = cache.values[s] /\ ~cache.sections[s].fresh
    /\ cache' = [cache EXCEPT !.values[s] = value, !.sections[s] =
                   [revision |-> IF changed THEN @.revision + 1 ELSE @.revision, fresh |-> TRUE]]
    /\ UNCHANGED <<hub, clients, shown>>

CacheExpire(s) ==
    /\ cache.sections[s].fresh
    /\ cache' = [cache EXCEPT !.sections[s].fresh = FALSE]
    /\ UNCHANGED <<hub, clients, shown>>

CacheInvalidate(s) ==
    /\ cache.values[s] # "none"
    /\ cache' = [cache EXCEPT !.values[s] = "none",
                   !.sections[s] = [revision |-> @.revision + 1, fresh |-> FALSE]]
    /\ UNCHANGED <<hub, clients, shown>>

CacheLarge(value) ==
    /\ value = "none" => cache.values["large"] # "none"
    /\ cache' = [cache EXCEPT !.values["large"] = value, !.large = @ + 1]
    /\ UNCHANGED <<hub, clients, shown>>

-----------------------------------------------------------------------------
(* ClientConnection: one pending frame of each kind, oldest kind first. *)

Frame(kind, keys) == [kind |-> kind, keys |-> keys]

Offer(pending, frame) ==
    IF \E i \in DOMAIN pending : pending[i].kind = frame.kind
    THEN [i \in DOMAIN pending |-> IF pending[i].kind = frame.kind THEN frame ELSE pending[i]]
    ELSE Append(pending, frame)

Register(c) ==
    /\ hub.phase = "idle" /\ ~clients[c].up
    /\ clients' = [clients EXCEPT ![c] = [NoClient EXCEPT !.up = TRUE]]
    /\ UNCHANGED <<cache, hub, shown>>

Unregister(c) ==
    /\ hub.phase = "idle"
    /\ clients' = [clients EXCEPT ![c] = NoClient]
    /\ UNCHANGED <<cache, hub, shown>>

(* set_visualization_demand: what is newly wanted counts as unsent. *)
SetDemand(c, wanted) ==
    /\ hub.phase = "idle" /\ clients[c].up
    /\ clients' = [clients EXCEPT ![c].demand = wanted,
                     ![c].large = IF wanted /\ ~clients[c].demand THEN Unsent ELSE @]
    /\ UNCHANGED <<cache, hub, shown>>

(* What a frame changes in the browser. *)
Show(view, frame) ==
    IF frame.kind = "state" THEN [view EXCEPT !.sections = frame.keys]
    ELSE IF frame.kind = "large" THEN [view EXCEPT !.large = frame.keys]
    ELSE [view EXCEPT !.sections[frame.kind] = frame.keys]

(* next_frame, and the frame is sent. *)
NextFrame(c) ==
    /\ hub.phase = "idle" /\ clients[c].up /\ clients[c].pending # <<>>
    /\ clients' = [clients EXCEPT ![c].pending = Tail(@)]
    /\ shown' = [shown EXCEPT ![c] = Show(@, Head(clients[c].pending))]
    /\ UNCHANGED <<cache, hub>>

-----------------------------------------------------------------------------
(* ClientHub.publish, one step for each time it takes the cache lock. *)

Up == {c \in Connections : clients[c].up}
Unsynchronized == {c \in Up : clients[c].sections = Nothing}

(* encode_message. *)
Encodes(kinds) == \A k \in kinds : cache.values[k] # "bad"

(* The whole state to those who have none, marked with the given keys. *)
Synchronized(frame, keys, misled) ==
    [c \in Connections |->
       IF c \in Unsynchronized
       THEN [clients[c] EXCEPT !.pending = Offer(@, Frame("state", frame)), !.sections = keys,
                               !.misled = misled]
       ELSE clients[c]]

(* state_section_keys; the kept frame serves while the keys are its own. *)
PublishKeys ==
    /\ hub.phase = "idle" /\ Up # {}
    /\ IF Unsynchronized # {} /\ cache.sections # hub.frame
       THEN hub' = [hub EXCEPT !.phase = "state", !.keys = cache.sections] /\ UNCHANGED clients
       ELSE /\ hub' = [hub EXCEPT !.phase = "section", !.keys = cache.sections, !.next = 1]
            /\ clients' = Synchronized(hub.frame, cache.sections, {})
    /\ UNCHANGED <<cache, shown>>

(* Mutant of SnapshotKeys: the keys read first are used to mark. *)
EarlierKeys == hub.keys

(* state_snapshot_with_keys: the snapshot's own keys replace the first. *)
SnapshotKeys == cache.sections

(* A state that cannot be encoded is passed over: the frame kept from      *)
(* earlier, if any, goes out, and the keys read first mark its readers.    *)
PublishState ==
    /\ hub.phase = "state"
    /\ \/ /\ Encodes(Sections)
          /\ clients' = Synchronized(cache.sections, SnapshotKeys, {})
          /\ hub' = [hub EXCEPT !.phase = "section", !.next = 1, !.keys = SnapshotKeys,
                                !.frame = cache.sections]
       \/ /\ ~Encodes(Sections)
          /\ clients' = IF hub.frame = Nothing THEN clients
                        ELSE Synchronized(hub.frame, hub.keys,
                               {s \in Sections : hub.frame[s] # hub.keys[s]})
          /\ hub' = [hub EXCEPT !.phase = "section", !.next = 1]
    /\ UNCHANGED <<cache, shown>>

(* The update of one section to those marked with another key: the frame   *)
(* kept for that key, or a new one under the key it is taken with, if it   *)
(* can be encoded.                                                         *)
PublishSection ==
    /\ hub.phase = "section"
    /\ LET s == SectionOrder[hub.next]
           kept == hub.kept[s] = hub.keys[s]
           wanting == {c \in Up : /\ clients[c].sections # Nothing
                                  /\ clients[c].sections[s] # hub.keys[s]
                                  /\ kept \/ Encodes({s})}
           key == IF kept THEN hub.keys[s] ELSE cache.sections[s]
       IN  /\ clients' = [c \in Connections |->
                 IF c \in wanting
                 THEN [clients[c] EXCEPT !.pending = Offer(@, Frame(s, key)),
                                         !.sections[s] = key, !.misled = @ \ {s}]
                 ELSE clients[c]]
           /\ hub' = [hub EXCEPT !.kept[s] = IF wanting = {} THEN @ ELSE key,
                        !.phase = IF hub.next = Len(SectionOrder) THEN "large" ELSE @,
                        !.next = IF hub.next = Len(SectionOrder) THEN 1 ELSE @ + 1]
    /\ UNCHANGED <<cache, shown>>

PublishLarge ==
    /\ hub.phase = "large"
    /\ clients' = [c \in Connections |->
          IF /\ clients[c].up /\ clients[c].demand /\ clients[c].large # cache.large
             /\ Encodes({"large"})
          THEN [clients[c] EXCEPT !.pending = Offer(@, Frame("large", cache.large)),
                                  !.large = cache.large]
          ELSE clients[c]]
    /\ hub' = [hub EXCEPT !.phase = "idle", !.keys = NoKeys]
    /\ UNCHANGED <<cache, shown>>

-----------------------------------------------------------------------------
(* A frame changes the section, or the large kind, of its name; the whole  *)
(* state changes every section.                                            *)
Concerns(frame, kind) == frame.kind = kind \/ (frame.kind = "state" /\ kind \in Sections)
KeyOf(frame, kind) == IF frame.kind = "state" THEN frame.keys[kind] ELSE frame.keys

(* A browser that shows the given key will show key once its pending       *)
(* frames are sent: the last of them about that kind does, or none is.     *)
WillShow(pending, now, kind, key) ==
    \/ /\ now = key
       /\ \A i \in DOMAIN pending : ~Concerns(pending[i], kind)
    \/ \E i \in DOMAIN pending :
         /\ Concerns(pending[i], kind) /\ KeyOf(pending[i], kind) = key
         /\ \A j \in DOMAIN pending : i < j => ~Concerns(pending[j], kind)

MarksAreShown(c, sections) ==
    clients[c].sections # Nothing =>
        \A s \in sections : WillShow(clients[c].pending, shown[c].sections[s], s,
                                     clients[c].sections[s])

(* A reader is marked with what it has been or is about to be sent: no     *)
(* section stays behind because a callback changed the cache in the middle *)
(* of a publication or a value could not be encoded, and no frame          *)
(* overtakes a newer one; but for the sections of a stale whole state,     *)
(* until their next update (ClientHub.publish).                            *)
MarkedIsSent ==
    \A c \in Up :
        /\ MarksAreShown(c, Sections \ clients[c].misled)
        /\ clients[c].large \notin {Unsent, 0} =>
             WillShow(clients[c].pending, shown[c].large, "large", clients[c].large)
=============
