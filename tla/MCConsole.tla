----------------------------- MODULE MCConsole -----------------------------
(* The dashboard, with one operator per way of being let in: by role, by   *)
(* the permission of the overview, of one page, of none.                   *)
EXTENDS Console, TLC

CONSTANTS root, boss, auditor, nobody, a1, a2, l1, c1, d1

MCPermOf == (root :> {}) @@ (boss :> {"admin:access"})
              @@ (auditor :> {"audit:read"}) @@ (nobody :> {})
MCPageOf == (a1 :> 1) @@ (a2 :> 2)
MCTerm   == {{a1, a2, d1}, {a1}}
MCTypeOf == (c1 :> "document") @@ (d1 :> "video")

=============================================================================
