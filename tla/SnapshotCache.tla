--------------------------- MODULE SnapshotCache ---------------------------
(***************************************************************************)
(* RedisSnapshotCache (services/danmaku/cache.go): at most one envelope a  *)
(* key, a copy of a snapshot without its access statistics.  An envelope   *)
(* whose JSON does not decode is reported as CacheCorrupted by Get; one    *)
(* that decodes is a hit even if the payload inside it is damaged.         *)
(***************************************************************************)
EXTENDS Snapshot

CONSTANTS BadEnvelope, BadPayload

ASSUME CacheAssumption ==
  /\ BadEnvelope # BadPayload
  /\ None \notin {BadEnvelope, BadPayload}
  /\ {BadEnvelope, BadPayload} \cap Snapshots = {}

VARIABLE cache

\* What Get reports for a reachable Redis.
CacheHit(k)  == cache[k] \notin {None, BadEnvelope}
Decodable(e) == e # BadPayload

Set(k, snapshot) == cache' = [cache EXCEPT ![k] = snapshot]
Delete(k)        == cache' = [cache EXCEPT ![k] = None]

\* The entry outlives REDIS_SNAPSHOT_TTL or is evicted by Redis.
Evict(k) == cache[k] # None /\ Delete(k)

\* The stored bytes no longer are what Set wrote.
Damage(k) ==
  /\ cache[k] # None
  /\ \E e \in {BadEnvelope, BadPayload} : cache' = [cache EXCEPT ![k] = e]
=============================================================================
