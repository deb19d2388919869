-------------------------------- MODULE Agents --------------------------------
(***************************************************************************)
(* The session table of a gate, framework/pkg/xagent/agentManager.go: the  *)
(* map from session ids to agents, the map from player ids to session ids, *)
(* and the player id each session carries.                                 *)
(*                                                                         *)
(* Every operation holds Agents.lock from its first access to its last, so *)
(* it is one action; connections, the handlers that bind a player and the  *)
(* agents that close call them in any order.  A session id is the agent's  *)
(* identity (net_parser.go:76 draws a new one for every connection).       *)
(* Calls that return an error, and Unbind of an unknown session, change    *)
(* nothing and are the steps where the action is not enabled.              *)
(***************************************************************************)
EXTENDS Naturals

CONSTANTS
  Sids,       \* session ids; the empty string is not one of them
  Uids,       \* player ids; 0 is not one of them
  NoSid,      \* no entry in uidMap
  NoUid       \* the player id 0 of a session nobody has bound

ASSUME Sentinels == NoSid \notin Sids /\ NoUid \notin Uids

VARIABLES
  sidAgentMap,  \* the sessions that have an entry in a.sidAgentMap
  uidMap,       \* a.uidMap
  uid,          \* session.Uid of every agent, also after it was unbound
  drawn,        \* session ids that have been given to a connection
  binders       \* history: the sessions that ever bound a player id

tableVars == <<sidAgentMap, uidMap, uid, drawn, binders>>

TableInit ==
  /\ sidAgentMap = {}
  /\ uidMap = [u \in Uids |-> NoSid]
  /\ uid = [s \in Sids |-> NoUid]
  /\ drawn = {}
  /\ binders = [u \in Uids |-> {}]

BindSID(s) ==
  /\ s \notin drawn
  /\ drawn' = drawn \cup {s}
  /\ sidAgentMap' = sidAgentMap \cup {s}
  /\ UNCHANGED <<uidMap, uid, binders>>

Claim(s, u) == binders' = [binders EXCEPT ![u] = @ \cup {s}]

\* Faulty variant: no check that the session is still in the table.
BindUID_Unregistered(s, u) ==
  /\ s # NoSid /\ u # NoUid
  /\ uid[s] # u
  /\ uid' = [uid EXCEPT ![s] = u]
  /\ uidMap' = [uidMap EXCEPT ![u] = s]
  /\ Claim(s, u)
  /\ UNCHANGED <<sidAgentMap, drawn>>

\* Faulty variant: the session's own player id is not set.
BindUID_MapOnly(s, u) ==
  /\ s # NoSid /\ u # NoUid
  /\ s \in sidAgentMap
  /\ uid[s] # u
  /\ uidMap' = [uidMap EXCEPT ![u] = s]
  /\ Claim(s, u)
  /\ UNCHANGED <<sidAgentMap, uid, drawn>>

\* Faulty variant: the map is written under the player id the session had before.
BindUID_OldKey(s, u) ==
  /\ s # NoSid /\ u # NoUid
  /\ s \in sidAgentMap
  /\ uid[s] # u
  /\ uid' = [uid EXCEPT ![s] = u]
  /\ uidMap' = [v \in Uids |-> IF v = uid[s] THEN s ELSE uidMap[v]]
  /\ Claim(s, u)
  /\ UNCHANGED <<sidAgentMap, drawn>>

(* Neither the entry of the session's previous player id nor a previous    *)
(* session of this player is looked at.                                    *)
BindUID(s, u) ==
  /\ s # NoSid /\ u # NoUid
  /\ s \in sidAgentMap
  /\ uid[s] # u
  /\ uid' = [uid EXCEPT ![s] = u]
  /\ uidMap' = [uidMap EXCEPT ![u] = s]
  /\ Claim(s, u)
  /\ UNCHANGED <<sidAgentMap, drawn>>

(* delete(a.uidMap, agent.UID()) whatever session the entry points to.     *)
Unbind(s) ==
  /\ s \in sidAgentMap
  /\ sidAgentMap' = sidAgentMap \ {s}
  /\ uidMap' = [u \in Uids |-> IF u = uid[s] THEN NoSid ELSE uidMap[u]]
  /\ UNCHANGED <<uid, drawn, binders>>

(* The result of GetAgentWithUID: the agent, or NoSid for "not found".     *)
GetAgentWithUID(u) ==
  IF u # NoUid /\ uidMap[u] \in sidAgentMap THEN uidMap[u] ELSE NoSid

(* A handler may ask for any session id and player id, the zero ones       *)
(* included; only the agent itself calls Unbind.                           *)
TableNext ==
  \/ \E s \in Sids : BindSID(s) \/ Unbind(s)
  \/ \E s \in Sids \cup {NoSid}, u \in Uids \cup {NoUid} : BindUID(s, u)

TableSpec == TableInit /\ [][TableNext]_tableVars

-------------------------------------------------------------------------------
(* Properties.                                                             *)

(* The session has carried two player ids. *)
Moved(s) == \E u, v \in Uids : u # v /\ s \in binders[u] /\ s \in binders[v]

TableTypeOK ==
  /\ sidAgentMap \in SUBSET drawn
  /\ drawn \in SUBSET Sids
  /\ uidMap \in [Uids -> Sids \cup {NoSid}]
  /\ uid \in [Sids -> Uids \cup {NoUid}]
  /\ binders \in [Uids -> SUBSET drawn]

(* agentManager.go:98-113: the agent found for a player is that player's,  *)
(* unless its session has since been bound to somebody else.               *)
LookupMatches ==
  \A u \in Uids : LET s == GetAgentWithUID(u)
                  IN  s # NoSid => uid[s] = u \/ Moved(s)

(* agentManager.go:44-88: a closed session leaves no entry in uidMap, even *)
(* when a handler binds it while it closes, unless it changed player ids.  *)
NoDanglingUid ==
  \A u \in Uids : uidMap[u] # NoSid => uidMap[u] \in sidAgentMap \/ Moved(uidMap[u])

(* agentManager.go:44-113: uidMap agrees with the sessions, before and     *)
(* after they close.                                                       *)
TableConsistent == LookupMatches /\ NoDanglingUid

(* agentManager.go:44-113: as long as one session alone has bound a player *)
(* and still carries him, nothing another session does makes him           *)
(* unreachable.                                                            *)
SoleSessionReachable ==
  \A u \in Uids, s \in sidAgentMap :
    uid[s] = u /\ binders[u] = {s} => GetAgentWithUID(u) = s

(* agentManager.go:19 (uidMap is "uid -> sid"), for a player who logs in a *)
(* second time: the sessions that carry him are never all unreachable.     *)
PlayerReachable ==
  \A u \in Uids, s \in sidAgentMap : uid[s] = u => GetAgentWithUID(u) # NoSid
===============================================================================
