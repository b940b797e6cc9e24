----------------------- MODULE OpenThreadReady_proofs -----------------------
(***************************************************************************)
(* Safety of the readiness handshake. Two facts are inductive together:    *)
(* that the callback's static is the role it was last told of, and that    *)
(* what it announced was so then.                                          *)
(***************************************************************************)

EXTENDS OpenThreadReady, TLAPS

Inv ==
  /\ TypeOK
  /\ RoleIsKnown
  /\ ReadyIsCurrent

\* The invariant holds of a station that starts.
LEMMA InitInv == Init => Inv
BY DEF Init, Inv, TypeOK, Flags, RoleIsKnown, ReadyIsCurrent

\* Main's own steps.
LEMMA MainInv == ASSUME Inv, Main PROVE Inv'
<1> USE DEF Inv, TypeOK, RoleIsKnown, ReadyIsCurrent, mesh
<1>1. CASE openthread_my_start
  BY <1>1 DEF openthread_my_start
<1>2. CASE openthread_wait_for_ready
  BY <1>2 DEF openthread_wait_for_ready
<1> QED BY <1>1, <1>2 DEF Main

\* What the callback computes is the role of the device.
LEMMA HasRoleIsRole == ASSUME Inv PROVE HasRole = attached
BY DEF Inv, TypeOK, RoleIsKnown, HasRole

\* The callback announces a network only with a role and a route.
LEMMA CallbackInv == ASSUME Inv, on_thread_state_changed PROVE Inv'
<1> USE HasRoleIsRole DEF Inv, TypeOK, on_thread_state_changed, mesh
<1>1. RoleIsKnown'
  BY DEF RoleIsKnown
<1>2. CASE Post
  BY <1>1, <1>2 DEF Post, IsReady, Good, ReadyIsCurrent
<1>3. CASE Withdraw
  BY <1>1, <1>3 DEF Withdraw, ReadyIsCurrent
<1> QED BY <1>2, <1>3

\* A change of the mesh raises its flag, and until that is signalled nothing is
\* claimed about what changed.
LEMMA MeshInv ==
  ASSUME Inv, \/ RoleChanges \/ NeighborsChange \/ RouteChanges
              \/ AddressAdded \/ OtherChange
  PROVE  Inv'
<1>1. CASE RoleChanges
  <2>1. TypeOK'
    BY <1>1, Zenon DEF Inv, TypeOK, Flags, RoleChanges, Changes, Good
  <2>2. "role" \in flags' /\ main' = main /\ ready' = ready
    BY <1>1 DEF RoleChanges, Changes
  <2>3. RoleIsKnown' /\ ReadyIsCurrent'
    BY <2>2 DEF RoleIsKnown, ReadyIsCurrent
  <2> QED BY <2>1, <2>3 DEF Inv
<1>2. CASE RouteChanges
  <2>1. TypeOK'
    BY <1>2, Zenon DEF Inv, TypeOK, Flags, RouteChanges, Changes, Good
  <2>2. /\ "netdata" \in flags'
        /\ "role" \in flags => "role" \in flags'
        /\ main' = main /\ ready' = ready
        /\ has_role' = has_role /\ attached' = attached
    BY <1>2 DEF RouteChanges, Changes
  <2>3. RoleIsKnown'
    BY <2>2 DEF Inv, RoleIsKnown
  <2>4. ReadyIsCurrent'
    BY <2>2 DEF Inv, ReadyIsCurrent
  <2> QED BY <2>1, <2>3, <2>4 DEF Inv
<1>3. CASE NeighborsChange \/ AddressAdded \/ OtherChange
  <2>1. TypeOK'
    BY <1>3, Zenon DEF Inv, TypeOK, Flags, NeighborsChange, AddressAdded,
                       OtherChange, Changes, Good, mesh
  <2>2. /\ flags \subseteq flags'
        /\ main' = main /\ ready' = ready
        /\ has_role' = has_role /\ attached' = attached /\ route' = route
    BY <1>3 DEF NeighborsChange, AddressAdded, OtherChange, Changes, mesh
  <2>3. RoleIsKnown'
    BY <2>2 DEF Inv, RoleIsKnown
  <2>4. ReadyIsCurrent'
    BY <2>2 DEF Inv, ReadyIsCurrent
  <2> QED BY <2>1, <2>3, <2>4 DEF Inv
<1> QED BY <1>1, <1>2, <1>3

\* A reset re-establishes the invariant.
LEMMA ResetInv == ASSUME Reset PROVE Inv'
BY DEF Reset, Inv, TypeOK, Flags, RoleIsKnown, ReadyIsCurrent

\* The inductive invariant holds in every reachable state of the handshake.
THEOREM Invariance == Spec => []Inv
<1>1. Inv /\ [Next]_vars => Inv'
  <2> SUFFICES ASSUME Inv, [Next]_vars PROVE Inv'
    OBVIOUS
  <2>1. CASE UNCHANGED vars
    BY <2>1 DEF vars, mesh, Inv, TypeOK, RoleIsKnown, ReadyIsCurrent
  <2> QED BY <2>1, MainInv, CallbackInv, MeshInv, ResetInv DEF Next
<1> QED BY <1>1, InitInv, PTL DEF Spec

\* The static has_role is the role, but for a change not signalled yet.
THEOREM RoleIsKnownAlways == Spec => []RoleIsKnown
<1>1. Inv => RoleIsKnown
  BY DEF Inv
<1> QED BY <1>1, Invariance, PTL

\* The event is never up over a network that was last signalled without a role
\* or without a route.
THEOREM ReadyIsCurrentAlways == Spec => []ReadyIsCurrent
<1>1. Inv => ReadyIsCurrent
  BY DEF Inv
<1> QED BY <1>1, Invariance, PTL

-----------------------------------------------------------------------------
(* What GoodNetworkEndsWait rests on, but for the fairness of the stack.   *)

\* An added address stays to be signalled until the callback runs; over a good
\* network, the callback that is told of one leaves nobody waiting; and main,
\* once through, is never sent back to wait by what the network does.
WaitEnds ==
  /\ "address" \in flags =>
       "address" \in flags' \/ on_thread_state_changed \/ Reset
  /\ Good /\ "address" \in flags /\ on_thread_state_changed => main' # "waiting"
  /\ main = "up" => main' = "up" \/ Reset

\* The callback judges the role by its own static, which by then is the role.
THEOREM AnAddressEndsTheWait == Spec => [][WaitEnds]_vars
<1>1. Inv /\ [Next]_vars => [WaitEnds]_vars
  <2> SUFFICES ASSUME Inv, Next PROVE WaitEnds
    OBVIOUS
  <2>1. CASE Main
    BY <2>1 DEF Main, openthread_my_start, openthread_wait_for_ready, WaitEnds,
                on_thread_state_changed
  <2>2. CASE on_thread_state_changed
    <3>1. Good /\ "address" \in flags => Post
      BY <2>2, HasRoleIsRole
         DEF on_thread_state_changed, Withdraw, IsReady, Good
    <3>2. main = "up" => main' = "up"
      BY <2>2 DEF on_thread_state_changed, Post, Withdraw
    <3> QED BY <2>2, <3>1, <3>2 DEF Post, WaitEnds
  <2>3. CASE RoleChanges \/ NeighborsChange \/ RouteChanges \/ AddressAdded
             \/ OtherChange
    <3>1. flags \subseteq flags' /\ main' = main
      BY <2>3 DEF RoleChanges, NeighborsChange, RouteChanges, AddressAdded,
                  OtherChange, Changes
    <3>2. "address" \in flags => flags' # {}
      BY <3>1
    <3> QED BY <3>1, <3>2 DEF WaitEnds, on_thread_state_changed
  <2>4. CASE Reset
    BY <2>4 DEF Reset, WaitEnds
  <2> QED BY <2>1, <2>2, <2>3, <2>4 DEF Next
<1> QED BY <1>1, Invariance, PTL DEF Spec

=============================================================================
