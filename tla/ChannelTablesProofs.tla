-------------------------- MODULE ChannelTablesProofs --------------------------
(***************************************************************************)
(* Proofs about ChannelTables for any cids, request ids and PVs, whatever  *)
(* discipline the client follows in choosing its request ids.              *)
(***************************************************************************)
EXTENDS ChannelTables, TLAPS

\* What the tables owe to the channels that were ever opened on them.
ChannelInv ==
  /\ \A o \in opened : o.sid < sid_counter
  /\ \A o, q \in opened : o.sid = q.sid => o.cid = q.cid
  /\ \A s \in DOMAIN sid_to_cid : \E o \in opened : o.cid = sid_to_cid[s] /\ o.sid = s
  /\ \A c \in DOMAIN cid_to_sid :
       /\ \E o \in opened : o.cid = c /\ o.sid = cid_to_sid[c]
       /\ Newest(c, cid_to_sid[c])
  /\ \A s \in DOMAIN sid_to_cid : Newest(sid_to_cid[s], s) => Current(sid_to_cid[s], s)

\* A request that has a row was asked for on some channel.
AskedInv ==
  /\ DOMAIN ioid_to_pv \subseteq DOMAIN asked
  /\ request # NoRequest => request.ioid \in DOMAIN asked

(***************************************************************************)
(* bind_monitor leaves well-formed rows and, after it, the two indexes are *)
(* each other's inverse again.                                             *)
(***************************************************************************)
LEMMA BindKeeps ==
  ASSUME TablesTypeOK, NEW ioid \in Ioids, NEW sid \in Sids, BindMonitor(ioid, sid)
  PROVE  /\ DOMAIN ioid_to_sid' \subseteq Ioids
         /\ \A i \in DOMAIN ioid_to_sid' : ioid_to_sid'[i] \in Sids
         /\ DOMAIN sid_to_ioids' \subseteq Sids
         /\ \A s \in DOMAIN sid_to_ioids' : sid_to_ioids'[s] \subseteq Ioids
         /\ IndexesAgree => IndexesAgree'
<1> DEFINE rows == Rebound(ioid, sid)
           mine == IF sid \in DOMAIN rows THEN rows[sid] ELSE {}
<1>1. /\ ioid_to_sid' = With(ioid_to_sid, ioid, sid)
      /\ sid_to_ioids' = With(rows, sid, mine \union {ioid})
  BY DEF BindMonitor
<1>2. /\ DOMAIN rows \subseteq Sids
      /\ \A s \in DOMAIN rows : rows[s] \subseteq Ioids
  BY DEF TablesTypeOK, Rebound, Detach, Without
<1>3. ASSUME IndexesAgree
      PROVE  /\ \A i \in DOMAIN ioid_to_sid \ {ioid} :
                  ioid_to_sid[i] \in DOMAIN rows /\ i \in rows[ioid_to_sid[i]]
             /\ \A s \in DOMAIN rows : rows[s] # {}
             /\ \A s \in DOMAIN rows : \A i \in rows[s] \ {ioid} :
                  i \in DOMAIN ioid_to_sid /\ ioid_to_sid[i] = s
             /\ \A s \in DOMAIN rows : ioid \in rows[s] => s = sid
  <2>1. CASE ioid \in DOMAIN ioid_to_sid /\ ioid_to_sid[ioid] # sid
    <3> DEFINE old == ioid_to_sid[ioid]
    <3>1. old \in DOMAIN sid_to_ioids /\ rows = Detach(sid_to_ioids, old, ioid)
      BY <1>3, <2>1 DEF IndexesAgree, Rebound
    <3>2. CASE sid_to_ioids[old] \ {ioid} = {}
      <4>1. rows = Without(sid_to_ioids, {old})
        BY <3>1, <3>2 DEF Detach
      <4> HIDE DEF rows
      <4> QED
        BY <1>3, <3>1, <3>2, <4>1 DEF IndexesAgree, Without
    <3>3. CASE sid_to_ioids[old] \ {ioid} # {}
      <4>1. rows = [sid_to_ioids EXCEPT ![old] = @ \ {ioid}]
        BY <3>1, <3>3 DEF Detach
      <4> HIDE DEF rows
      <4> QED
        BY <1>3, <3>1, <3>3, <4>1 DEF IndexesAgree
    <3> QED
      BY <3>2, <3>3
  <2>2. CASE ~(ioid \in DOMAIN ioid_to_sid /\ ioid_to_sid[ioid] # sid)
    <3>1. rows = sid_to_ioids
      BY <2>2 DEF Rebound
    <3> QED
      BY <1>3, <2>2, <3>1 DEF IndexesAgree
  <2> QED
    BY <2>1, <2>2
<1> HIDE DEF rows
<1>4. IndexesAgree => IndexesAgree'
  BY <1>1, <1>3 DEF IndexesAgree, With
<1> QED
  BY <1>1, <1>2, <1>4 DEF TablesTypeOK, With

(***************************************************************************)
(* remove_channel_if_current keeps the indexes inverse, and never takes the *)
(* cid away from a newer channel.                                          *)
(***************************************************************************)
LEMMA RemoveKeeps ==
  ASSUME TablesTypeOK, NEW cid \in Cids, NEW sid \in Sids, RemoveChannelIfCurrent(cid, sid),
         UNCHANGED <<opened, sid_counter>>
  PROVE  /\ IndexesAgree => IndexesAgree'
         /\ ChannelInv => ChannelInv'
<1>1. IndexesAgree => IndexesAgree'
  BY DEF RemoveChannelIfCurrent, IoidsForSid, TablesTypeOK, IndexesAgree, Without
<1>2. ChannelInv => ChannelInv'
  BY DEF RemoveChannelIfCurrent, Stripped, TablesTypeOK, ChannelInv, Newest, Current, Without
<1> QED
  BY <1>1, <1>2

(***************************************************************************)
(* Every step keeps the types of the maps.                                 *)
(***************************************************************************)
LEMMA TypeStep ==
  ASSUME TablesTypeOK, AskedInv, [TablesNext]_tablesVars
  PROVE  TablesTypeOK'
<1> USE TablesAssumption DEF tablesVars, channelVars, bindingVars, streamVars, historyVars, Sids, TablesTypeOK, AskedInv, Subscriptions, Frames, Requests
<1>1. ASSUME NEW cid \in Cids, NEW pv \in PVs, CreateChannel(cid, pv) PROVE TablesTypeOK'
  BY <1>1 DEF CreateChannel, InsertChannel, With
<1>2. ASSUME NEW ioid \in Ioids, NEW sid \in Sids, NEW monitor \in BOOLEAN, LookUp(ioid, sid, monitor) PROVE TablesTypeOK'
  BY <1>2 DEF LookUp, With
<1>3. ASSUME Bind PROVE TablesTypeOK'
  <2>1. BindMonitor(request.ioid, request.sid) /\ request \in Requests
    BY <1>3 DEF Bind
  <2> QED
    BY <1>3, <2>1, BindKeeps DEF Bind, With
<1>4. ASSUME Refuse PROVE TablesTypeOK'
  BY <1>4 DEF Refuse
<1>5. ASSUME List PROVE TablesTypeOK'
  BY <1>5 DEF List
<1>6. ASSUME Unbind PROVE TablesTypeOK'
  BY <1>6 DEF Unbind, UnbindMonitor, Detach, Without
<1>7. ASSUME NEW ioid \in Ioids, DropRequest(ioid) PROVE TablesTypeOK'
  BY <1>7 DEF DropRequest, Without
<1>8. ASSUME NEW cid \in Cids, NEW sid \in Sids, DropChannel(cid, sid) PROVE TablesTypeOK'
  BY <1>8 DEF DropChannel, RemoveChannelIfCurrent, Stripped, Current, IoidsForSid, Without
<1>9. ASSUME NEW p \in Dying, NEW pv \in PVs, TakeSubs(p, pv) PROVE TablesTypeOK'
  BY <1>9 DEF TakeSubs
<1>10. ASSUME NEW p \in Dying, NEW m \in condemned[p], RetractCondemned(p, m) PROVE TablesTypeOK'
  <2>1. CASE ChannelForMonitor(m.ioid) = {}
    BY <1>10, <2>1 DEF RetractCondemned
  <2>2. CASE ChannelForMonitor(m.ioid) # {}
    <3>1. PICK sid \in ChannelForMonitor(m.ioid) :
            /\ RemoveChannelIfCurrent(sid_to_cid[sid], sid)
            /\ unsent' = [unsent EXCEPT ![p] = ToSend(sid_to_cid[sid], sid)]
      BY <1>10, <2>2 DEF RetractCondemned
    <3>2. sid \in Sids /\ sid_to_cid[sid] \in Cids
      BY <3>1 DEF ChannelForMonitor
    <3>3. unsent' \in [Dying -> SUBSET Frames]
      <4>1. ToSend(sid_to_cid[sid], sid) \in SUBSET Frames
        BY <3>2 DEF ToSend
      <4> QED
        BY <3>1, <4>1
    <3> QED
      BY <1>10, <3>1, <3>3 DEF RetractCondemned, RemoveChannelIfCurrent, Without
  <2> QED
    BY <2>1, <2>2
<1>11. ASSUME NEW p \in Dying, SendFrame(p) PROVE TablesTypeOK'
  BY <1>11 DEF SendFrame
<1>12. CASE UNCHANGED tablesVars
  BY <1>12
<1> HIDE DEF TablesTypeOK, AskedInv, Subscriptions, Frames, Requests
<1> QED
  BY <1>1, <1>2, <1>3, <1>4, <1>5, <1>6, <1>7, <1>8, <1>9, <1>10, <1>11, <1>12 DEF TablesNext

(***************************************************************************)
(* Every step keeps the two indexes each other's inverse.                  *)
(***************************************************************************)
LEMMA IndexStep ==
  ASSUME TablesTypeOK, IndexesAgree, [TablesNext]_tablesVars
  PROVE  IndexesAgree'
<1> USE TablesAssumption DEF tablesVars, channelVars, bindingVars, streamVars, historyVars, Sids, IndexesAgree
<1>1. ASSUME NEW cid \in Cids, NEW pv \in PVs, CreateChannel(cid, pv) PROVE IndexesAgree'
  BY <1>1 DEF CreateChannel, InsertChannel, With
<1>2. ASSUME NEW ioid \in Ioids, NEW sid \in Sids, NEW monitor \in BOOLEAN, LookUp(ioid, sid, monitor) PROVE IndexesAgree'
  BY <1>2 DEF LookUp, With
<1>3. ASSUME Bind PROVE IndexesAgree'
  <2>1. BindMonitor(request.ioid, request.sid) /\ request \in Requests
    BY <1>3 DEF Bind, TablesTypeOK
  <2>2. request.ioid \in Ioids /\ request.sid \in Sids
    BY <2>1 DEF Requests
  <2> QED
    BY <2>1, <2>2, BindKeeps
<1>4. ASSUME Refuse PROVE IndexesAgree'
  BY <1>4 DEF Refuse
<1>5. ASSUME List PROVE IndexesAgree'
  BY <1>5 DEF List
<1>6. ASSUME Unbind PROVE IndexesAgree'
  BY <1>6 DEF Unbind, UnbindMonitor, Detach, Without
<1>7. ASSUME NEW ioid \in Ioids, DropRequest(ioid) PROVE IndexesAgree'
  BY <1>7 DEF DropRequest, Without
<1>8. ASSUME NEW cid \in Cids, NEW sid \in Sids, DropChannel(cid, sid) PROVE IndexesAgree'
  BY <1>8, RemoveKeeps DEF DropChannel
<1>9. ASSUME NEW p \in Dying, NEW pv \in PVs, TakeSubs(p, pv) PROVE IndexesAgree'
  BY <1>9 DEF TakeSubs
<1>10. ASSUME NEW p \in Dying, NEW m \in condemned[p], RetractCondemned(p, m) PROVE IndexesAgree'
  <2>1. CASE ChannelForMonitor(m.ioid) = {}
    BY <1>10, <2>1 DEF RetractCondemned
  <2>2. CASE ChannelForMonitor(m.ioid) # {}
    <3>1. PICK sid \in ChannelForMonitor(m.ioid) :
            RemoveChannelIfCurrent(sid_to_cid[sid], sid)
      BY <1>10, <2>2 DEF RetractCondemned
    <3>2. sid \in Sids /\ sid_to_cid[sid] \in Cids
      BY <3>1 DEF ChannelForMonitor, TablesTypeOK
    <3> QED
      BY Zenon, <1>10, <3>1, <3>2, RemoveKeeps DEF RetractCondemned
  <2> QED
    BY <2>1, <2>2
<1>11. ASSUME NEW p \in Dying, SendFrame(p) PROVE IndexesAgree'
  BY <1>11 DEF SendFrame
<1>12. CASE UNCHANGED tablesVars
  BY <1>12
<1> HIDE DEF IndexesAgree
<1> QED
  BY <1>1, <1>2, <1>3, <1>4, <1>5, <1>6, <1>7, <1>8, <1>9, <1>10, <1>11, <1>12 DEF TablesNext

(***************************************************************************)
(* Every step keeps the cid rows those of the newest channels.             *)
(***************************************************************************)
LEMMA ChannelStep ==
  ASSUME TablesTypeOK, ChannelInv, [TablesNext]_tablesVars
  PROVE  ChannelInv'
<1> USE TablesAssumption DEF tablesVars, channelVars, bindingVars, streamVars, historyVars, Sids, ChannelInv, Newest, Current
<1>1. ASSUME NEW cid \in Cids, NEW pv \in PVs, CreateChannel(cid, pv) PROVE ChannelInv'
  <2> DEFINE new == [cid |-> cid, sid |-> sid_counter, pv |-> pv]
  <2>0. new.cid = cid /\ new.sid = sid_counter
    OBVIOUS
  <2>1. /\ cid_to_sid' = With(cid_to_sid, cid, sid_counter)
        /\ sid_to_cid' = With(sid_to_cid, sid_counter, cid)
        /\ sid_counter' = sid_counter + 1 /\ sid_counter \in Nat
        /\ opened' = opened \union {new}
    BY <1>1 DEF CreateChannel, InsertChannel, TablesTypeOK
  <2> HIDE DEF new
  <2>2. \A o \in opened : o.sid \in Nat /\ o.sid < sid_counter
    BY DEF TablesTypeOK
  <2>3. /\ \A o \in opened' : o.sid \in Nat /\ o.sid < sid_counter'
        /\ \A o, q \in opened' : o.sid = q.sid => o.cid = q.cid
    BY <2>0, <2>1, <2>2
  <2>4. \A s \in DOMAIN sid_to_cid' : \E o \in opened' : o.cid = sid_to_cid'[s] /\ o.sid = s
    <3> TAKE s \in DOMAIN sid_to_cid'
    <3>1. CASE s = sid_counter
      BY <2>0, <2>1, <3>1 DEF With
    <3>2. CASE s # sid_counter
      BY <2>1, <3>2 DEF With
    <3> QED
      BY <3>1, <3>2
  <2>5. \A c \in DOMAIN cid_to_sid' :
          /\ \E o \in opened' : o.cid = c /\ o.sid = cid_to_sid'[c]
          /\ \A o \in opened' : o.cid = c => o.sid <= cid_to_sid'[c]
    <3> TAKE c \in DOMAIN cid_to_sid'
    <3>1. CASE c = cid
      BY <2>0, <2>1, <2>2, <3>1 DEF With
    <3>2. CASE c # cid
      BY <2>0, <2>1, <3>2 DEF With
    <3> QED
      BY <3>1, <3>2
  <2>6. ASSUME NEW s \in DOMAIN sid_to_cid', \A o \in opened' : o.cid = sid_to_cid'[s] => o.sid <= s
        PROVE  Current(sid_to_cid[s], s)'
    <3>1. CASE s = sid_counter
      BY <2>1, <3>1 DEF With
    <3>2. CASE s # sid_counter
      <4>1. s \in DOMAIN sid_to_cid /\ sid_to_cid'[s] = sid_to_cid[s] /\ s \in Nat /\ s < sid_counter
        BY <2>1, <2>2, <2>6, <3>2 DEF With, TablesTypeOK
      <4>2. sid_to_cid[s] # cid
        BY <2>0, <2>1, <2>6, <4>1
      <4>3. Current(sid_to_cid[s], s)
        BY <2>1, <2>6, <4>1
      <4> QED
        BY <2>1, <4>1, <4>2, <4>3 DEF With
    <3> QED
      BY <3>1, <3>2
  <2> QED
    BY <2>3, <2>4, <2>5, <2>6
<1>2. ASSUME NEW ioid \in Ioids, NEW sid \in Sids, NEW monitor \in BOOLEAN, LookUp(ioid, sid, monitor) PROVE ChannelInv'
  BY <1>2 DEF LookUp, With
<1>3. ASSUME Bind PROVE ChannelInv'
  BY <1>3 DEF Bind
<1>4. ASSUME Refuse PROVE ChannelInv'
  BY <1>4 DEF Refuse
<1>5. ASSUME List PROVE ChannelInv'
  BY <1>5 DEF List
<1>6. ASSUME Unbind PROVE ChannelInv'
  BY <1>6 DEF Unbind
<1>7. ASSUME NEW ioid \in Ioids, DropRequest(ioid) PROVE ChannelInv'
  BY <1>7 DEF DropRequest, Without
<1>8. ASSUME NEW cid \in Cids, NEW sid \in Sids, DropChannel(cid, sid) PROVE ChannelInv'
  BY <1>8, RemoveKeeps DEF DropChannel
<1>9. ASSUME NEW p \in Dying, NEW pv \in PVs, TakeSubs(p, pv) PROVE ChannelInv'
  BY <1>9 DEF TakeSubs
<1>10. ASSUME NEW p \in Dying, NEW m \in condemned[p], RetractCondemned(p, m) PROVE ChannelInv'
  <2>1. CASE ChannelForMonitor(m.ioid) = {}
    BY <1>10, <2>1 DEF RetractCondemned
  <2>2. CASE ChannelForMonitor(m.ioid) # {}
    <3>1. PICK sid \in ChannelForMonitor(m.ioid) :
            RemoveChannelIfCurrent(sid_to_cid[sid], sid)
      BY <1>10, <2>2 DEF RetractCondemned
    <3>2. sid \in Sids /\ sid_to_cid[sid] \in Cids
      BY <3>1 DEF ChannelForMonitor, TablesTypeOK
    <3> QED
      BY Zenon, <1>10, <3>1, <3>2, RemoveKeeps DEF RetractCondemned
  <2> QED
    BY <2>1, <2>2
<1>11. ASSUME NEW p \in Dying, SendFrame(p) PROVE ChannelInv'
  BY <1>11 DEF SendFrame
<1>12. CASE UNCHANGED tablesVars
  BY <1>12
<1> HIDE DEF ChannelInv, Newest, Current
<1> QED
  BY <1>1, <1>2, <1>3, <1>4, <1>5, <1>6, <1>7, <1>8, <1>9, <1>10, <1>11, <1>12 DEF TablesNext


\* The empty tables satisfy every part.
LEMMA InitHolds == TablesInit => TablesTypeOK /\ AskedInv /\ IndexesAgree /\ ChannelInv
BY TablesAssumption DEF TablesInit, Empty, Sids, TablesTypeOK, AskedInv, IndexesAgree, ChannelInv

(***************************************************************************)
(* A row is made by a request, and every request is recorded.              *)
(***************************************************************************)
LEMMA AskedStep ==
  ASSUME TablesTypeOK, AskedInv, [TablesNext]_tablesVars
  PROVE  AskedInv'
<1> USE TablesAssumption DEF tablesVars, channelVars, bindingVars, streamVars, historyVars, Sids, TablesTypeOK, AskedInv, Requests
<1>1. ASSUME NEW cid \in Cids, NEW pv \in PVs, CreateChannel(cid, pv) PROVE AskedInv'
  BY <1>1 DEF CreateChannel, InsertChannel, With
<1>2. ASSUME NEW ioid \in Ioids, NEW sid \in Sids, NEW monitor \in BOOLEAN, LookUp(ioid, sid, monitor) PROVE AskedInv'
  BY <1>2 DEF LookUp, With
<1>3. ASSUME Bind PROVE AskedInv'
  BY <1>3 DEF Bind, With
<1>4. ASSUME Refuse PROVE AskedInv'
  BY <1>4 DEF Refuse
<1>5. ASSUME List PROVE AskedInv'
  BY <1>5 DEF List
<1>6. ASSUME Unbind PROVE AskedInv'
  BY <1>6 DEF Unbind
<1>7. ASSUME NEW ioid \in Ioids, DropRequest(ioid) PROVE AskedInv'
  BY <1>7 DEF DropRequest, Without
<1>8. ASSUME NEW cid \in Cids, NEW sid \in Sids, DropChannel(cid, sid) PROVE AskedInv'
  BY <1>8 DEF DropChannel, Without
<1>9. ASSUME NEW p \in Dying, NEW pv \in PVs, TakeSubs(p, pv) PROVE AskedInv'
  BY <1>9 DEF TakeSubs
<1>10. ASSUME NEW p \in Dying, NEW m \in condemned[p], RetractCondemned(p, m) PROVE AskedInv'
  BY <1>10 DEF RetractCondemned
<1>11. ASSUME NEW p \in Dying, SendFrame(p) PROVE AskedInv'
  BY <1>11 DEF SendFrame
<1>12. CASE UNCHANGED tablesVars
  BY <1>12
<1> HIDE DEF TablesTypeOK, AskedInv, Requests
<1> QED
  BY <1>1, <1>2, <1>3, <1>4, <1>5, <1>6, <1>7, <1>8, <1>9, <1>10, <1>11, <1>12 DEF TablesNext

(***************************************************************************)
(* The tables keep their types.                                            *)
(***************************************************************************)
THEOREM TablesTyping == TablesSpec => []TablesTypeOK
<1>1. TablesInit => TablesTypeOK /\ AskedInv
  BY InitHolds
<1> QED
  BY <1>1, TypeStep, AskedStep, PTL DEF TablesSpec

(***************************************************************************)
(* Whatever ioids the client chooses and however the registry intervenes,  *)
(* ioid_to_sid and sid_to_ioids stay each other's inverse.                 *)
(***************************************************************************)
THEOREM Inverse == TablesSpec => []IndexesAgree
<1> DEFINE Inv == TablesTypeOK /\ AskedInv /\ IndexesAgree
<1>1. TablesInit => Inv
  BY InitHolds
<1>2. Inv /\ [TablesNext]_tablesVars => Inv'
  BY TypeStep, AskedStep, IndexStep
<1> QED
  BY <1>1, <1>2, PTL DEF TablesSpec

(***************************************************************************)
(* A channel that is the newest on its cid is the one its cid resolves to. *)
(***************************************************************************)
THEOREM Ownership == TablesSpec => []NewestKeepsItsCid
<1> DEFINE Inv == TablesTypeOK /\ AskedInv /\ ChannelInv
<1>1. TablesInit => Inv
  BY InitHolds
<1>2. Inv /\ [TablesNext]_tablesVars => Inv'
  BY TypeStep, AskedStep, ChannelStep
<1>3. Inv => NewestKeepsItsCid
  BY DEF ChannelInv, NewestKeepsItsCid, ResolveGetFieldSid, Current
<1> QED
  BY <1>1, <1>2, <1>3, PTL DEF TablesSpec

\* The frames that are sent, or about to be.
Spoken == announced \union UNION {unsent[p] : p \in Dying}

\* What is announced was a channel, and its rows are gone.
SpokenInv ==
  \A t \in Spoken :
    t.sid < sid_counter /\ t.sid \notin DOMAIN sid_to_cid /\ ~Current(t.cid, t.sid)

(***************************************************************************)
(* No step brings a retracted channel back: the client can only add one    *)
(* with a sid that was never used.                                         *)
(***************************************************************************)
LEMMA SpokenStep ==
  ASSUME TablesTypeOK, ChannelInv, SpokenInv, [TablesNext]_tablesVars
  PROVE  SpokenInv'
<1> USE TablesAssumption DEF tablesVars, channelVars, bindingVars, streamVars, historyVars, Sids
<1>1. ASSUME NEW cid \in Cids, NEW pv \in PVs, CreateChannel(cid, pv) PROVE SpokenInv'
  <2>1. /\ cid_to_sid' = With(cid_to_sid, cid, sid_counter)
        /\ sid_to_cid' = With(sid_to_cid, sid_counter, cid)
        /\ sid_counter' = sid_counter + 1 /\ sid_counter \in Nat
        /\ Spoken' = Spoken
    BY <1>1 DEF CreateChannel, InsertChannel, TablesTypeOK, Spoken
  <2>2. \A t \in Spoken : t.sid \in Nat
    BY DEF Spoken, TablesTypeOK, Frames
  <2> QED
    BY <2>1, <2>2 DEF SpokenInv, Current, With
<1>2. ASSUME UNCHANGED <<cid_to_sid, sid_to_cid, sid_counter, Spoken>> PROVE SpokenInv'
  BY <1>2 DEF SpokenInv, Current
<1>3. ASSUME NEW cid, NEW sid, RemoveChannelIfCurrent(cid, sid), UNCHANGED sid_counter,
             \A t \in Spoken' : t \in Spoken \/ (t.sid < sid_counter /\ t.sid = sid /\ t.cid = cid)
      PROVE  SpokenInv'
  BY <1>3 DEF SpokenInv, RemoveChannelIfCurrent, Stripped, Current, Without
<1>4. ASSUME NEW cid \in Cids, NEW sid \in Sids, DropChannel(cid, sid) PROVE SpokenInv'
  BY <1>3, <1>4 DEF DropChannel, Spoken
<1>5. ASSUME NEW p \in Dying, NEW m \in condemned[p], RetractCondemned(p, m) PROVE SpokenInv'
  <2>1. CASE ChannelForMonitor(m.ioid) = {}
    BY <1>2, <1>5, <2>1 DEF RetractCondemned, Spoken
  <2>2. CASE ChannelForMonitor(m.ioid) # {}
    <3>1. PICK sid \in ChannelForMonitor(m.ioid) :
            /\ RemoveChannelIfCurrent(sid_to_cid[sid], sid)
            /\ unsent' = [unsent EXCEPT ![p] = ToSend(sid_to_cid[sid], sid)]
      BY <1>5, <2>2 DEF RetractCondemned
    <3>2. sid < sid_counter
      BY <3>1 DEF ChannelForMonitor, ChannelInv
    <3>3. UNCHANGED <<announced, sid_counter>>
      BY <1>5 DEF RetractCondemned
    <3>4. \A t \in Spoken' : t \in Spoken \/ t \in ToSend(sid_to_cid[sid], sid)
      BY <3>1, <3>3 DEF Spoken, TablesTypeOK
    <3>5. \A t \in ToSend(sid_to_cid[sid], sid) : t.sid = sid /\ t.cid = sid_to_cid[sid]
      BY DEF ToSend
    <3> QED
      BY <1>3, <3>1, <3>2, <3>3, <3>4, <3>5
  <2> QED
    BY <2>1, <2>2
<1>6. ASSUME NEW p \in Dying, SendFrame(p) PROVE SpokenInv'
  <2>1. /\ UNCHANGED <<cid_to_sid, sid_to_cid, sid_counter>>
        /\ announced' = announced \union unsent[p]
        /\ unsent' = [unsent EXCEPT ![p] = {}]
    BY <1>6 DEF SendFrame
  <2>2. \A t \in Spoken' : t \in Spoken
    BY <2>1 DEF Spoken, TablesTypeOK
  <2> QED
    BY <2>1, <2>2 DEF SpokenInv, Current
<1>7. CASE UNCHANGED tablesVars
  BY <1>2, <1>7 DEF Spoken
<1>8. ASSUME NEW ioid \in Ioids, NEW sid \in Sids, NEW monitor \in BOOLEAN, LookUp(ioid, sid, monitor)
      PROVE  SpokenInv'
  BY <1>2, <1>8 DEF LookUp, Spoken
<1>9. ASSUME Bind \/ Refuse \/ List \/ Unbind PROVE SpokenInv'
  BY <1>2, <1>9 DEF Bind, Refuse, List, Unbind, Spoken
<1>10. ASSUME NEW ioid \in Ioids, DropRequest(ioid) PROVE SpokenInv'
  BY <1>2, <1>10 DEF DropRequest, Spoken
<1>11. ASSUME NEW p \in Dying, NEW pv \in PVs, TakeSubs(p, pv) PROVE SpokenInv'
  BY <1>2, <1>11 DEF TakeSubs, Spoken
<1> QED
  BY Zenon, <1>1, <1>4, <1>5, <1>6, <1>7, <1>8, <1>9, <1>10, <1>11 DEF TablesNext

(***************************************************************************)
(* A channel whose end was announced, or is about to be, is never there    *)
(* again, whatever the client creates, destroys or names.                  *)
(***************************************************************************)
THEOREM Retraction == TablesSpec => []ToldIsGone
<1> DEFINE Inv == TablesTypeOK /\ AskedInv /\ ChannelInv /\ SpokenInv
<1>1. TablesInit => Inv
  <2>1. TablesInit => SpokenInv
    BY DEF TablesInit, SpokenInv, Spoken
  <2> QED
    BY <2>1, InitHolds
<1>2. Inv /\ [TablesNext]_tablesVars => Inv'
  BY TypeStep, AskedStep, ChannelStep, SpokenStep
<1>3. Inv => ToldIsGone
  BY DEF SpokenInv, Spoken, ToldIsGone
<1> QED
  BY <1>1, <1>2, <1>3, PTL DEF TablesSpec

(***************************************************************************)
(* destroy_subs only ever decides to announce a channel that is the newest *)
(* on its cid at that moment.                                              *)
(***************************************************************************)
THEOREM Announcement == TablesSpec => DecidesOnNewest
<1> DEFINE Inv == TablesTypeOK /\ AskedInv /\ ChannelInv
<1>1. TablesInit => Inv
  BY InitHolds
<1>2. Inv /\ [TablesNext]_tablesVars => Inv'
  BY TypeStep, AskedStep, ChannelStep
<1>3. Inv /\ [TablesNext]_tablesVars => [PicksNewest]_tablesVars
  <2> SUFFICES ASSUME Inv, [TablesNext]_tablesVars, NEW q \in Dying, NEW t \in unsent'[q] \ unsent[q]
               PROVE  Newest(t.cid, t.sid)
    BY DEF PicksNewest
  <2>0. unsent' # unsent
    OBVIOUS
  <2>1. \E p \in Dying : SendFrame(p) \/ \E m \in condemned[p] : RetractCondemned(p, m)
    BY Zenon, <2>0 DEF TablesNext, tablesVars, streamVars, CreateChannel, LookUp, Bind, Refuse, List,
           Unbind, DropRequest, DropChannel, TakeSubs
  <2>2. ASSUME NEW p \in Dying, SendFrame(p) PROVE FALSE
    BY <2>2 DEF SendFrame, TablesTypeOK
  <2> PICK p \in Dying : \E m \in condemned[p] : RetractCondemned(p, m)
    BY <2>1, <2>2
  <2>3. PICK m \in condemned[p] : RetractCondemned(p, m)
    OBVIOUS
  <2>4. PICK sid \in ChannelForMonitor(m.ioid) :
          unsent' = [unsent EXCEPT ![p] = ToSend(sid_to_cid[sid], sid)]
    BY <2>0, <2>3 DEF RetractCondemned
  <2>5. t \in ToSend(sid_to_cid[sid], sid)
    BY <2>4 DEF TablesTypeOK
  <2>6. t = [cid |-> sid_to_cid[sid], sid |-> sid] /\ Current(sid_to_cid[sid], sid)
    BY <2>5 DEF ToSend
  <2> QED
    BY <2>6 DEF ChannelInv, Current
<1> QED
  BY <1>1, <1>2, <1>3, PTL DEF TablesSpec, DecidesOnNewest
=============================================================================
