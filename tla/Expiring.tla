------------------------------ MODULE Expiring ------------------------------
(* The map behind both in-memory stores of common-oidc (store.rs,            *)
(* `Expiring<T>`): every entry carries the instant it was created, a read    *)
(* filters entries that reached max_age, and an insert sweeps them.          *)
(*                                                                           *)
(* A map is a total function whose absent keys hold None. Entries are        *)
(* records with a field `created`; the rest of an entry is opaque here.      *)
EXTENDS Naturals

CONSTANTS MaxAge,   \* store.rs max_age: 12 h for sessions, 10 min for flows
          None      \* an absent key

\* Mutant: an entry is kept at exactly max_age.
LiveInclusive(e, now) == now < e.created \/ now - e.created <= MaxAge

\* Mutant: unwrap_or(false), a clock behind `created` drops the entry.
LiveNoStepBack(e, now) == now >= e.created /\ now - e.created < MaxAge

\* store.rs `live`. SystemTime::duration_since fails when the clock stepped
\* back behind `created`, and unwrap_or(true) then keeps the entry.
Live(e, now) == now < e.created \/ now - e.created < MaxAge

\* store.rs `get`: a stored entry that is no longer live reads as absent.
Lookup(m, i, now) == IF m[i] # None /\ Live(m[i], now) THEN m[i] ELSE None

\* The retain of store.rs `put`.
Swept(m, now) == [i \in DOMAIN m |-> Lookup(m, i, now)]

\* store.rs `put`: sweep with the instant read before the lock, then insert.
\* The inserted entry itself is not subject to the sweep.
Inserted(m, i, e, now) == [Swept(m, now) EXCEPT ![i] = e]

\* store.rs `remove`.
Removed(m, i) == [m EXCEPT ![i] = None]
=============================================================================
