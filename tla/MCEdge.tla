-------------------------------- MODULE MCEdge --------------------------------
(* Requests for checking Edge: see MCEdge.cfg. *)
EXTENDS Edge, TLC

CONSTANTS a1, a2, ip1, ip2, u1, s1, s2

NoBody == [size |-> 0, sound |-> TRUE]
Body(size) == [size |-> size, sound |-> TRUE]
Anonymous(ep, ip, forwarded, body) ==
  [ep |-> ep, remote |-> ip, forwarded |-> forwarded, token |-> Null, body |-> body]
By(ep, actor, body) ==
  [ep |-> ep, remote |-> ip1, forwarded |-> Null, token |-> actor, body |-> body]

(* Three clients of the limiter, and an upload, which has no budget here. *)
Traffic ==
  {By("createTrade", a, NoBody) : a \in {a1, a2}}
    \cup {Anonymous("loginUser", ip1, ip2, [size |-> 1, sound |-> FALSE]),
          By("createProduct", u1, Body(3))}

Budgets == [register |-> 1, login |-> 1, message |-> 1, upload |-> 0, trade |-> 1]
EdgeSymmetry == Permutations(Slot) \cup Permutations({a1, a2})
=============================================================================
