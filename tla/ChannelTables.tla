----------------------------- MODULE ChannelTables -----------------------------
(***************************************************************************)
(* The channel and request tables of one server connection.  Its task adds *)
(* and removes channels and requests; the monitor registry, when a PV's    *)
(* stream ends, reaches into the same tables from another task to retract  *)
(* the channels that ran on it.                                            *)
(*                                                                         *)
(* Channel ids are the client's, server ids (sid) the server's; request    *)
(* ids (ioid) are the client's and may come back once released.            *)
(***************************************************************************)
EXTENDS Naturals

CONSTANTS
  Cids,        \* channel ids the client uses
  Ioids,       \* request ids the client uses
  PVs,         \* the PVs it opens channels on
  Dying,       \* bound: pumps of PVs whose streams have ended, at one time
  MaxSid,      \* bound on the sids handed out
  Discipline,  \* how the client picks an ioid: "fresh", "recycled", "overlapping"
  NoRequest    \* the connection task is between two messages

Sids == 1 .. MaxSid
Requests == [ioid : Ioids, sid : Sids, pv : PVs, monitor : BOOLEAN, pc : {"looked", "bound", "removing"}]

ASSUME TablesAssumption ==
  /\ Cids \subseteq Nat
  /\ MaxSid \in Nat
  /\ Discipline \in {"fresh", "recycled", "overlapping"}
  /\ NoRequest \notin Requests

VARIABLES
  cid_to_sid, sid_to_cid, sid_to_pv, ioid_to_sid, sid_to_ioids,   \* ChannelTables
  ioid_to_pv,   \* ConnState::ioid_to_pv and its sister maps
  request,      \* the request the connection task is in the middle of
  sid_counter,  \* ServerState::sid_counter
  subscribed,   \* the registry's subscriptions of this connection: [pv, ioid]
  condemned,    \* those each dying pump has taken to announce the end to
  unsent,       \* the DESTROY_CHANNEL each has decided on and not yet sent
  announced,    \* the DESTROY_CHANNELs sent: [cid, sid]
  opened,       \* history: every channel ever opened
  asked         \* history: the channel each ioid was last used on

channelVars == <<cid_to_sid, sid_to_cid, sid_to_pv>>
bindingVars == <<ioid_to_sid, sid_to_ioids>>
streamVars == <<subscribed, condemned, unsent, announced>>
historyVars == <<opened, asked>>
tablesVars == <<channelVars, bindingVars, ioid_to_pv, request, sid_counter, streamVars, historyVars>>

Empty == [x \in {} |-> x]
With(f, k, v) == [x \in DOMAIN f \union {k} |-> IF x = k THEN v ELSE f[x]]
Without(f, K) == [x \in DOMAIN f \ K |-> f[x]]

TablesInit ==
  /\ cid_to_sid = Empty /\ sid_to_cid = Empty /\ sid_to_pv = Empty
  /\ ioid_to_sid = Empty /\ sid_to_ioids = Empty
  /\ ioid_to_pv = Empty
  /\ request = NoRequest
  /\ sid_counter = 1
  /\ subscribed = {} /\ announced = {}
  /\ condemned = [p \in Dying |-> {}] /\ unsent = [p \in Dying |-> {}]
  /\ opened = {} /\ asked = Empty

-----------------------------------------------------------------------------
(* ChannelTables.                                                            *)

InsertChannel_Unnamed(cid, sid, pv) ==
  /\ cid_to_sid' = With(cid_to_sid, cid, sid)
  /\ sid_to_cid' = With(sid_to_cid, sid, cid)
  /\ UNCHANGED sid_to_pv

InsertChannel(cid, sid, pv) ==
  /\ cid_to_sid' = With(cid_to_sid, cid, sid)
  /\ sid_to_cid' = With(sid_to_cid, sid, cid)
  /\ sid_to_pv' = With(sid_to_pv, sid, pv)

IoidsForSid(sid) == IF sid \in DOMAIN sid_to_ioids THEN sid_to_ioids[sid] ELSE {}

\* Does cid still name sid, or has a newer channel taken the cid over?
Current(cid, sid) == cid \in DOMAIN cid_to_sid /\ cid_to_sid[cid] = sid

Stripped_Always(cid, sid) == {cid}
Stripped_Never(cid, sid) == {}

\* The cid row leaves with its own sid only.
Stripped(cid, sid) == IF Current(cid, sid) THEN {cid} ELSE {}

RemoveChannelIfCurrent(cid, sid) ==
  /\ cid_to_sid' = Without(cid_to_sid, Stripped(cid, sid))
  /\ sid_to_cid' = Without(sid_to_cid, {sid})
  /\ sid_to_pv' = Without(sid_to_pv, {sid})
  /\ ioid_to_sid' = Without(ioid_to_sid, IoidsForSid(sid))
  /\ sid_to_ioids' = Without(sid_to_ioids, {sid})

\* One ioid leaves a channel's set; an empty set leaves the map.
Detach(rows, sid, ioid) ==
  IF sid \notin DOMAIN rows THEN rows
  ELSE IF rows[sid] \ {ioid} = {} THEN Without(rows, {sid})
  ELSE [rows EXCEPT ![sid] = @ \ {ioid}]

Rebound_Ignored(ioid, sid) == sid_to_ioids

\* bind_monitor: the reverse rows once ioid has left the channel it was on.
Rebound(ioid, sid) ==
  IF ioid \in DOMAIN ioid_to_sid /\ ioid_to_sid[ioid] # sid
    THEN Detach(sid_to_ioids, ioid_to_sid[ioid], ioid)
    ELSE sid_to_ioids

BindMonitor(ioid, sid) ==
  LET rows == Rebound(ioid, sid) IN
  /\ ioid_to_sid' = With(ioid_to_sid, ioid, sid)
  /\ sid_to_ioids' = With(rows, sid, (IF sid \in DOMAIN rows THEN rows[sid] ELSE {}) \union {ioid})

UnbindMonitor(ioid) ==
  /\ ioid_to_sid' = Without(ioid_to_sid, {ioid})
  /\ sid_to_ioids' = IF ioid \in DOMAIN ioid_to_sid
                       THEN Detach(sid_to_ioids, ioid_to_sid[ioid], ioid)
                       ELSE sid_to_ioids

\* resolve_get_field_sid for a request that names no sid; 0 is never a sid.
ResolveGetFieldSid(cid) ==
  IF cid \in DOMAIN cid_to_sid THEN cid_to_sid[cid]
  ELSE IF cid \in DOMAIN sid_to_pv THEN cid
  ELSE IF cid = 0 /\ \E s \in Sids : DOMAIN sid_to_pv = {s} THEN CHOOSE s \in DOMAIN sid_to_pv : TRUE
  ELSE 0

-----------------------------------------------------------------------------
(* The connection task.                                                      *)

\* CREATE_CHANNEL on a PV that exists: sids are handed out once and for all.
CreateChannel(cid, pv) ==
  /\ request = NoRequest
  /\ sid_counter \in Sids
  /\ InsertChannel(cid, sid_counter, pv)
  /\ sid_counter' = sid_counter + 1
  /\ opened' = opened \union {[cid |-> cid, sid |-> sid_counter, pv |-> pv]}
  /\ UNCHANGED <<bindingVars, ioid_to_pv, request, streamVars, asked>>

\* The ioids the client's discipline allows it to use next.
Usable(ioid) ==
  CASE Discipline = "fresh"       -> ioid \notin DOMAIN asked
    [] Discipline = "recycled"    -> ioid \notin DOMAIN ioid_to_pv
    [] Discipline = "overlapping" -> TRUE

\* An INIT looks its channel up ...
LookUp(ioid, sid, monitor) ==
  /\ request = NoRequest
  /\ Usable(ioid)
  /\ sid \in DOMAIN sid_to_pv
  /\ request' = [ioid |-> ioid, sid |-> sid, pv |-> sid_to_pv[sid], monitor |-> monitor,
                 pc |-> "looked"]
  /\ asked' = With(asked, ioid, sid)
  /\ UNCHANGED <<channelVars, bindingVars, ioid_to_pv, sid_counter, streamVars, opened>>

\* ... asks the source for the descriptor, and binds the request.
Bind ==
  /\ request # NoRequest /\ request.pc = "looked"
  /\ ioid_to_pv' = With(ioid_to_pv, request.ioid, request.pv)
  /\ BindMonitor(request.ioid, request.sid)
  /\ request' = IF request.monitor THEN [request EXCEPT !.pc = "bound"] ELSE NoRequest
  /\ UNCHANGED <<channelVars, sid_counter, streamVars, historyVars>>

\* The descriptor is not there, or the access is denied: an error reply.
Refuse ==
  /\ request # NoRequest /\ request.pc = "looked"
  /\ request' = NoRequest
  /\ UNCHANGED <<channelVars, bindingVars, ioid_to_pv, sid_counter, streamVars, historyVars>>

\* A MONITOR is then listed in the registry, under its lock.
List ==
  /\ request # NoRequest /\ request.pc = "bound"
  /\ subscribed' = subscribed \union {[pv |-> request.pv, ioid |-> request.ioid]}
  /\ request' = NoRequest
  /\ UNCHANGED <<channelVars, bindingVars, ioid_to_pv, sid_counter, condemned, unsent, announced, historyVars>>

\* DESTROY_REQUEST, or a MONITOR destroy on the request's own channel: the
\* row and the subscription first, ...
DropRequest(ioid) ==
  /\ request = NoRequest
  /\ ioid \in DOMAIN ioid_to_pv
  /\ subscribed' = subscribed \ {[pv |-> ioid_to_pv[ioid], ioid |-> ioid]}
  /\ ioid_to_pv' = Without(ioid_to_pv, {ioid})
  /\ request' = [ioid |-> ioid, sid |-> asked[ioid], pv |-> ioid_to_pv[ioid],
                 monitor |-> TRUE, pc |-> "removing"]
  /\ UNCHANGED <<channelVars, bindingVars, sid_counter, condemned, unsent, announced, historyVars>>

\* ... the binding after the pump has been seen to.
Unbind ==
  /\ request # NoRequest /\ request.pc = "removing"
  /\ UnbindMonitor(request.ioid)
  /\ request' = NoRequest
  /\ UNCHANGED <<channelVars, ioid_to_pv, sid_counter, streamVars, historyVars>>

\* DESTROY_CHANNEL, for whatever cid and sid the client names.
DropChannel(cid, sid) ==
  /\ request = NoRequest
  /\ RemoveChannelIfCurrent(cid, sid)
  /\ ioid_to_pv' = Without(ioid_to_pv, IoidsForSid(sid))
  /\ UNCHANGED <<request, sid_counter, streamVars, historyVars>>

-----------------------------------------------------------------------------
(* The registry's side.                                                      *)

\* begin_pump_teardown: pv's stream has ended and its pump p takes the
\* subscriptions away.
TakeSubs(p, pv) ==
  /\ condemned[p] = {} /\ unsent[p] = {}
  /\ \E m \in subscribed : m.pv = pv
  /\ condemned' = [condemned EXCEPT ![p] = {m \in subscribed : m.pv = pv}]
  /\ subscribed' = {m \in subscribed : m.pv # pv}
  /\ UNCHANGED <<channelVars, bindingVars, ioid_to_pv, request, sid_counter, unsent, announced,
                 historyVars>>

\* The sid ioid is bound to, if the binding and the channel are both there.
ChannelForMonitor(ioid) ==
  {sid \in DOMAIN sid_to_cid : ioid \in DOMAIN ioid_to_sid /\ ioid_to_sid[ioid] = sid}

ToSend_Regardless(cid, sid) == {[cid |-> cid, sid |-> sid]}

\* The frame destroy_subs is going to send, if any.
ToSend(cid, sid) == IF Current(cid, sid) THEN {[cid |-> cid, sid |-> sid]} ELSE {}

\* destroy_subs, one subscription: the channel is resolved and retracted under
\* the tables' lock, and whether to announce it is decided there; ...
RetractCondemned(p, m) ==
  /\ unsent[p] = {}
  /\ m \in condemned[p]
  /\ condemned' = [condemned EXCEPT ![p] = @ \ {m}]
  /\ \/ \E sid \in ChannelForMonitor(m.ioid) :
          /\ RemoveChannelIfCurrent(sid_to_cid[sid], sid)
          /\ unsent' = [unsent EXCEPT ![p] = ToSend(sid_to_cid[sid], sid)]
     \/ /\ ChannelForMonitor(m.ioid) = {}
        /\ UNCHANGED <<channelVars, bindingVars, unsent>>
  /\ UNCHANGED <<ioid_to_pv, request, sid_counter, subscribed, announced, historyVars>>

\* ... the frame goes out when send_frame, awaited after it, has the writer.
SendFrame(p) ==
  /\ unsent[p] # {}
  /\ announced' = announced \union unsent[p]
  /\ unsent' = [unsent EXCEPT ![p] = {}]
  /\ UNCHANGED <<channelVars, bindingVars, ioid_to_pv, request, sid_counter, subscribed, condemned,
                 historyVars>>

TablesNext ==
  \/ \E cid \in Cids, pv \in PVs : CreateChannel(cid, pv)
  \/ \E ioid \in Ioids, sid \in Sids, monitor \in BOOLEAN : LookUp(ioid, sid, monitor)
  \/ Bind \/ Refuse \/ List \/ Unbind
  \/ \E ioid \in Ioids : DropRequest(ioid)
  \/ \E cid \in Cids, sid \in Sids : DropChannel(cid, sid)
  \/ \E p \in Dying :
       \/ \E pv \in PVs : TakeSubs(p, pv)
       \/ \E m \in condemned[p] : RetractCondemned(p, m)
       \/ SendFrame(p)

TablesSpec == TablesInit /\ [][TablesNext]_tablesVars

-----------------------------------------------------------------------------
(* Properties.                                                               *)

Subscriptions == [pv : PVs, ioid : Ioids]
Frames == [cid : Cids, sid : Sids]

\* Every map has the key and value types the code gives it.
TablesTypeOK ==
  /\ DOMAIN cid_to_sid \subseteq Cids /\ \A c \in DOMAIN cid_to_sid : cid_to_sid[c] \in Sids
  /\ DOMAIN sid_to_cid \subseteq Sids /\ \A s \in DOMAIN sid_to_cid : sid_to_cid[s] \in Cids
  /\ DOMAIN sid_to_pv = DOMAIN sid_to_cid /\ \A s \in DOMAIN sid_to_pv : sid_to_pv[s] \in PVs
  /\ DOMAIN ioid_to_sid \subseteq Ioids /\ \A i \in DOMAIN ioid_to_sid : ioid_to_sid[i] \in Sids
  /\ DOMAIN sid_to_ioids \subseteq Sids /\ \A s \in DOMAIN sid_to_ioids : sid_to_ioids[s] \subseteq Ioids
  /\ DOMAIN ioid_to_pv \subseteq Ioids /\ \A i \in DOMAIN ioid_to_pv : ioid_to_pv[i] \in PVs
  /\ request \in Requests \union {NoRequest}
  /\ sid_counter \in 1 .. MaxSid + 1
  /\ subscribed \subseteq Subscriptions /\ condemned \in [Dying -> SUBSET Subscriptions]
  /\ unsent \in [Dying -> SUBSET Frames] /\ announced \subseteq Frames
  /\ opened \subseteq [cid : Cids, sid : Sids, pv : PVs]
  /\ DOMAIN asked \subseteq Ioids /\ \A i \in DOMAIN asked : asked[i] \in Sids

(***************************************************************************)
(* ioid_to_sid and sid_to_ioids are each other's inverse and no empty set  *)
(* stays behind, whatever bind_monitor, unbind_monitor and remove_channel  *)
(* are called with and whichever task calls them.                          *)
(***************************************************************************)
IndexesAgree ==
  /\ \A i \in DOMAIN ioid_to_sid :
       ioid_to_sid[i] \in DOMAIN sid_to_ioids /\ i \in sid_to_ioids[ioid_to_sid[i]]
  /\ \A s \in DOMAIN sid_to_ioids :
       /\ sid_to_ioids[s] # {}
       /\ \A i \in sid_to_ioids[s] : i \in DOMAIN ioid_to_sid /\ ioid_to_sid[i] = s

\* No channel was opened on the same cid after sid.
Newest(cid, sid) == \A o \in opened : o.cid = cid => o.sid <= sid

(***************************************************************************)
(* Removing a stale channel never strips a newer one of its cid: an open   *)
(* channel that is the newest on its cid is the one the cid resolves to,   *)
(* for the registry and for a GET_FIELD that names only the cid.           *)
(***************************************************************************)
NewestKeepsItsCid ==
  \A s \in DOMAIN sid_to_cid :
    Newest(sid_to_cid[s], s) => ResolveGetFieldSid(sid_to_cid[s]) = s

\* The frames a step decides on name the newest channel of their cid.
PicksNewest == \A p \in Dying : \A t \in unsent'[p] \ unsent[p] : Newest(t.cid, t.sid)

(***************************************************************************)
(* destroy_subs never decides to announce a channel whose cid has, by      *)
(* then, been given to a newer one: "when the cid no longer points back at *)
(* our sid we send nothing".  Whatever the client re-creates afterwards is *)
(* the subject of AnnouncesNewest.                                         *)
(***************************************************************************)
DecidesOnNewest == [][PicksNewest]_tablesVars

\* The frames a step sends name the newest channel of their cid.
NamesNewest == \A t \in announced' \ announced : Newest(t.cid, t.sid)

(***************************************************************************)
(* A DESTROY_CHANNEL the server sends never makes the client drop a        *)
(* channel it has since re-created on the same cid: "Sending               *)
(* DESTROY_CHANNEL with that cid would tell the client to drop its new     *)
(* channel".  The code decides under the tables' lock and sends after it.  *)
(***************************************************************************)
AnnouncesNewest == [][NamesNewest]_tablesVars

(***************************************************************************)
(* A channel whose end is announced, or is about to be, is retracted and   *)
(* never comes back, whatever the client creates or destroys meanwhile.    *)
(***************************************************************************)
ToldIsGone ==
  \A t \in announced \union UNION {unsent[p] : p \in Dying} :
    t.sid \notin DOMAIN sid_to_cid /\ ~Current(t.cid, t.sid)

(***************************************************************************)
(* Upstream death of one PV closes channels on that PV only: "NEVER        *)
(* substitute a guessed sid".                                              *)
(***************************************************************************)
ClosesItsOwn ==
  [][\A p \in Dying : \A m \in condemned[p] \ condemned'[p] :
       \A s \in DOMAIN sid_to_pv \ DOMAIN sid_to_pv' : sid_to_pv[s] = m.pv]_tablesVars
=============================================================================
