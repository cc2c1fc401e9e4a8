----------------------------- MODULE MemsRouter -----------------------------
(***************************************************************************)
(* The MEMS switch router of src/app/src/mems_switching.c, with the switch *)
(* and route tables of devices.c and the four handlers of command.c that   *)
(* use it (mems_get, mems_set, memsroute_get, memsroute_set), as the       *)
(* executor thread calls them.  The handlers run one at a time on the      *)
(* executor, so each is one atomic action; the only other event is a       *)
(* watchdog reset, which re-runs setup_mems_switches_and_routes.           *)
(*                                                                         *)
(* Two views of a switch are kept: its logical state (sw->state, 'A', 'B', *)
(* 'U' after mems_switch_init, NUL before it) and its physical position,   *)
(* which the latching MEMS switch keeps across a reset.                    *)
(***************************************************************************)
EXTENDS Integers, Sequences, FiniteSets

CONSTANTS
  Sides,          \* the halves of the fabric modelled, a subset of {"yj", "hk"}
  BadState,       \* a state character that is neither 'A' nor 'B'
  UnknownName,    \* a switch name no switch has
  UnknownPort,    \* a port name no route uses
  GpioCanFail,    \* TRUE when a gpio_pin_set on the I2C expander may fail
  NONE

ASSUME GpioCanFail \in BOOLEAN

MEMS_ROUTER_MAX_SWITCHES == 8
MEMS_ROUTER_MAX_ROUTES == 18
MEMS_ROUTER_MAX_ROUTE_PATH == 5
\* mems_get/mems_set parse the key into char[16] buffers with max 15.
KEY_PART_MAX == 15

-----------------------------------------------------------------------------
(* The tables of devices.c.                                                *)

SideSwitches == [yj |-> <<"yj_cal_laser", "yj_ao_fei", "yj_forward_retro", "yj_mm_sm">>,
                 hk |-> <<"hk_cal_laser", "hk_ao_fei", "hk_forward_retro", "hk_mm_sm">>]

Step(sw, st) == [sw |-> sw, st |-> st]
Route(in, out, steps) == [input |-> in, output |-> out, steps |-> steps]

\* Mutant: the yj_1430 -> yj_fei route is declared without its ao_fei step.
SideRoutesMissingStep(s) ==
  LET n(x) == IF s = "yj" THEN x[1] ELSE x[2] IN
  << Route(n(<<"yj_1430","hk_1430">>), n(<<"yj_ao","hk_ao">>),
       << Step(n(<<"yj_cal_laser","hk_cal_laser">>), "B"),
          Step(n(<<"yj_forward_retro","hk_forward_retro">>), "A"),
          Step(n(<<"yj_ao_fei","hk_ao_fei">>), "A") >>),
     Route(n(<<"yj_1430","hk_1430">>), n(<<"yj_fei","hk_fei">>),
       << Step(n(<<"yj_cal_laser","hk_cal_laser">>), "B"),
          Step(n(<<"yj_forward_retro","hk_forward_retro">>), "A") >>),
     Route(n(<<"yj_cal","hk_cal">>), n(<<"yj_ao","hk_ao">>),
       << Step(n(<<"yj_cal_laser","hk_cal_laser">>), "A"),
          Step(n(<<"yj_ao_fei","hk_ao_fei">>), "A") >>),
     Route(n(<<"yj_cal","hk_cal">>), n(<<"yj_fei","hk_fei">>),
       << Step(n(<<"yj_cal_laser","hk_cal_laser">>), "A"),
          Step(n(<<"yj_ao_fei","hk_ao_fei">>), "B") >>),
     Route(n(<<"yj_laser","hk_laser">>), n(<<"yj_ao","hk_ao">>),
       << Step(n(<<"yj_cal_laser","hk_cal_laser">>), "B"),
          Step(n(<<"yj_ao_fei","hk_ao_fei">>), "A") >>),
     Route(n(<<"yj_laser","hk_laser">>), n(<<"yj_fei","hk_fei">>),
       << Step(n(<<"yj_cal_laser","hk_cal_laser">>), "B"),
          Step(n(<<"yj_ao_fei","hk_ao_fei">>), "B") >>),
     Route(n(<<"yj_mm","hk_mm">>), n(<<"yj_pd","hk_pd">>),
       << Step(n(<<"yj_mm_sm","hk_mm_sm">>), "A") >>),
     Route(n(<<"yj_sm","hk_sm">>), n(<<"yj_pd","hk_pd">>),
       << Step(n(<<"yj_mm_sm","hk_mm_sm">>), "B") >>) >>

\* The routes of one side, in the order setup_mems_switches_and_routes
\* defines them; the hk routes are the yj routes with "hk" for "yj".
SideRoutes(s) ==
  LET n(x) == IF s = "yj" THEN x[1] ELSE x[2] IN
  << Route(n(<<"yj_1430","hk_1430">>), n(<<"yj_ao","hk_ao">>),
       << Step(n(<<"yj_cal_laser","hk_cal_laser">>), "B"),
          Step(n(<<"yj_forward_retro","hk_forward_retro">>), "A"),
          Step(n(<<"yj_ao_fei","hk_ao_fei">>), "A") >>),
     Route(n(<<"yj_1430","hk_1430">>), n(<<"yj_fei","hk_fei">>),
       << Step(n(<<"yj_cal_laser","hk_cal_laser">>), "B"),
          Step(n(<<"yj_forward_retro","hk_forward_retro">>), "A"),
          Step(n(<<"yj_ao_fei","hk_ao_fei">>), "B") >>),
     Route(n(<<"yj_cal","hk_cal">>), n(<<"yj_ao","hk_ao">>),
       << Step(n(<<"yj_cal_laser","hk_cal_laser">>), "A"),
          Step(n(<<"yj_ao_fei","hk_ao_fei">>), "A") >>),
     Route(n(<<"yj_cal","hk_cal">>), n(<<"yj_fei","hk_fei">>),
       << Step(n(<<"yj_cal_laser","hk_cal_laser">>), "A"),
          Step(n(<<"yj_ao_fei","hk_ao_fei">>), "B") >>),
     Route(n(<<"yj_laser","hk_laser">>), n(<<"yj_ao","hk_ao">>),
       << Step(n(<<"yj_cal_laser","hk_cal_laser">>), "B"),
          Step(n(<<"yj_ao_fei","hk_ao_fei">>), "A") >>),
     Route(n(<<"yj_laser","hk_laser">>), n(<<"yj_fei","hk_fei">>),
       << Step(n(<<"yj_cal_laser","hk_cal_laser">>), "B"),
          Step(n(<<"yj_ao_fei","hk_ao_fei">>), "B") >>),
     Route(n(<<"yj_mm","hk_mm">>), n(<<"yj_pd","hk_pd">>),
       << Step(n(<<"yj_mm_sm","hk_mm_sm">>), "A") >>),
     Route(n(<<"yj_sm","hk_sm">>), n(<<"yj_pd","hk_pd">>),
       << Step(n(<<"yj_mm_sm","hk_mm_sm">>), "B") >>) >>

SideOrder == SelectSeq(<<"yj", "hk">>, LAMBDA s : s \in Sides)
\* The routes of the given sides, in definition order.
RECURSIVE RoutesOf(_)
RoutesOf(ss) == IF ss = <<>> THEN <<>> ELSE SideRoutes(Head(ss)) \o RoutesOf(Tail(ss))

\* switch_names[] of devices.c, yj and hk interleaved, restricted to Sides.
switch_names == <<"yj_cal_laser", "hk_cal_laser", "yj_ao_fei", "hk_ao_fei",
                  "yj_forward_retro", "hk_forward_retro", "yj_mm_sm", "hk_mm_sm">>
SwitchNames ==
  SelectSeq(switch_names, LAMBDA n : \E s \in Sides, i \in 1..4 : SideSwitches[s][i] = n)
\* Mutant: a route block copied in the table without changing its output.
RouteDefsCopyPaste ==
  LET t == RoutesOf(SideOrder) IN [t EXCEPT ![2].output = t[1].output]

RouteDefs == RoutesOf(SideOrder)
Switches == {SwitchNames[i] : i \in DOMAIN SwitchNames}
RouteKeys == {<<RouteDefs[i].input, RouteDefs[i].output>> : i \in DOMAIN RouteDefs}
Ports == {k[1] : k \in RouteKeys} \cup {k[2] : k \in RouteKeys}

-----------------------------------------------------------------------------
(* mems_router_init and mems_router_define_route.                          *)

RouterInit(names) ==
  [switches |-> SubSeq(names, 1, IF Len(names) > MEMS_ROUTER_MAX_SWITCHES
                                 THEN MEMS_ROUTER_MAX_SWITCHES ELSE Len(names)),
   routes |-> <<>>]

DefineRoute(rt, r) ==
  IF \/ Len(rt.routes) >= MEMS_ROUTER_MAX_ROUTES
     \/ Len(r.steps) = 0 \/ Len(r.steps) > MEMS_ROUTER_MAX_ROUTE_PATH
  THEN rt
  ELSE [rt EXCEPT !.routes = Append(@, r)]

RECURSIVE DefineAll(_, _)
DefineAll(rt, rs) ==
  IF rs = <<>> THEN rt ELSE DefineAll(DefineRoute(rt, Head(rs)), Tail(rs))

\* The router after setup_mems_switches_and_routes: empty when the GPIO
\* expander is not ready (the function returns before any init).
SetupRouter(gpioReady) ==
  IF gpioReady THEN DefineAll(RouterInit(SwitchNames), RouteDefs)
               ELSE [switches |-> <<>>, routes |-> <<>>]

SetupState(gpioReady) == [s \in Switches |-> IF gpioReady THEN "U" ELSE "NUL"]

-----------------------------------------------------------------------------
(* Lookups: mems_router_find_switch, mems_router_get_route,               *)
(* mems_router_active_routes.                                              *)

FindSwitch(rt, name) ==
  IF \E i \in DOMAIN rt.switches : rt.switches[i] = name THEN name ELSE NONE

GetRoute(rt, in, out) ==
  LET hits == {i \in DOMAIN rt.routes :
                 rt.routes[i].input = in /\ rt.routes[i].output = out}
  IN IF hits = {} THEN NONE ELSE rt.routes[CHOOSE i \in hits : \A j \in hits : i <= j]

Matches(rt, st, r) ==
  \A j \in DOMAIN r.steps : /\ FindSwitch(rt, r.steps[j].sw) # NONE
                            /\ st[r.steps[j].sw] = r.steps[j].st

\* The (input, output) keys of the matching routes in declaration order,
\* at most maxKeys of them.
ActiveRoutes(rt, st, maxKeys) ==
  LET all == SelectSeq(rt.routes, LAMBDA r : Matches(rt, st, r))
      keys == [i \in DOMAIN all |-> <<all[i].input, all[i].output>>]
  IN SubSeq(keys, 1, IF Len(keys) > maxKeys THEN maxKeys ELSE Len(keys))

-----------------------------------------------------------------------------
(* mems_switch_set_state: pulse the pin of the target position, then      *)
(* commit.  The gpio_pin_set results are ignored, so when the expander    *)
(* fails (actuated = FALSE) the switch stays put but the state is still   *)
(* committed.                                                              *)

\* Mutant: pin_a and pin_b swapped in the pulse.
SetStateSwappedPins(st, ps, sw, c, actuated) ==
  IF c \notin {"A", "B"}
  THEN [rc |-> -1, state |-> st, pos |-> ps]
  ELSE [rc |-> 0, state |-> [st EXCEPT ![sw] = c],
        pos |-> IF actuated THEN [ps EXCEPT ![sw] = IF c = "A" THEN "B" ELSE "A"] ELSE ps]

\* Mutant: the 'A'/'B' check on the requested state is missing.
SetStateUnchecked(st, ps, sw, c, actuated) ==
  [rc |-> 0, state |-> [st EXCEPT ![sw] = c],
   pos |-> IF actuated /\ c \in {"A", "B"} THEN [ps EXCEPT ![sw] = c] ELSE ps]

SetState(st, ps, sw, c, actuated) ==
  IF c \notin {"A", "B"}
  THEN [rc |-> -1, state |-> st, pos |-> ps]
  ELSE [rc |-> 0, state |-> [st EXCEPT ![sw] = c],
        pos |-> IF actuated THEN [ps EXCEPT ![sw] = c] ELSE ps]

\* The step loop of memsroute_set: steps in order, stopping at the first
\* step whose switch is not registered (no rollback of earlier steps).
\* Mutant: the loop ends one step early (i < path_len - 1).
RECURSIVE ApplyStepsSkipLast(_, _, _, _, _, _)
ApplyStepsSkipLast(rt, steps, i, st, ps, act) ==
  IF i >= Len(steps) THEN [res |-> "OK", state |-> st, pos |-> ps]
  ELSE IF FindSwitch(rt, steps[i].sw) = NONE
  THEN [res |-> "internal_error", state |-> st, pos |-> ps]
  ELSE LET r == SetState(st, ps, steps[i].sw, steps[i].st, act[i]) IN
       IF r.rc # 0 THEN [res |-> "switch_failed", state |-> r.state, pos |-> r.pos]
       ELSE ApplyStepsSkipLast(rt, steps, i + 1, r.state, r.pos, act)

RECURSIVE ApplySteps(_, _, _, _, _, _)
ApplySteps(rt, steps, i, st, ps, act) ==
  IF i > Len(steps) THEN [res |-> "OK", state |-> st, pos |-> ps]
  ELSE IF FindSwitch(rt, steps[i].sw) = NONE
  THEN [res |-> "internal_error", state |-> st, pos |-> ps]
  ELSE LET r == SetState(st, ps, steps[i].sw, steps[i].st, act[i]) IN
       IF r.rc # 0 THEN [res |-> "switch_failed", state |-> r.state, pos |-> r.pos]
       ELSE ApplySteps(rt, steps, i + 1, r.state, r.pos, act)

\* parse_key_pair on "mems/<name>": the name part must be shorter than 15.
KeyPairOK(name) == Len(name) > 0 /\ Len(name) < KEY_PART_MAX

GpioOutcomes == IF GpioCanFail THEN BOOLEAN ELSE {TRUE}

-----------------------------------------------------------------------------
VARIABLES
  router,       \* the global struct mems_router
  state,        \* sw->state of every mems_switches[] entry
  pos,          \* the physical position of every switch
  lastApplied,  \* key of the route memsroute_set last reported OK, while no
                \* switch has been commanded since (history)
  reply         \* the result of the last handler run

vars == <<router, state, pos, lastApplied, reply>>

Reply(op, arg, res) == [op |-> op, arg |-> arg, res |-> res]

Init ==
  /\ \E ready \in BOOLEAN : router = SetupRouter(ready) /\ state = SetupState(ready)
  /\ pos \in [Switches -> {"A", "B"}]
  /\ lastApplied = NONE
  /\ reply = NONE

\* mems_get: "mems/<name>" -> {"value":"<state>"}.
MemsGet(name) ==
  /\ reply' = IF ~KeyPairOK(name) THEN Reply("mems_get", name, "parse_error")
              ELSE IF FindSwitch(router, name) = NONE
                   THEN Reply("mems_get", name, "invalid_switch")
                   ELSE Reply("mems_get", name, state[name])
  /\ UNCHANGED <<router, state, pos, lastApplied>>

\* mems_set: "mems/<name>" {"value":"<c>"}.
MemsSet(name, c) ==
  \/ /\ ~KeyPairOK(name) \/ FindSwitch(router, name) = NONE
     /\ reply' = Reply("mems_set", name,
                       IF ~KeyPairOK(name) THEN "parse_error" ELSE "invalid_switch")
     /\ UNCHANGED <<router, state, pos, lastApplied>>
  \/ /\ KeyPairOK(name) /\ FindSwitch(router, name) # NONE
     /\ \E act \in GpioOutcomes :
          LET r == SetState(state, pos, name, c, act) IN
          /\ state' = r.state
          /\ pos' = r.pos
          /\ reply' = Reply("mems_set", name, IF r.rc = 0 THEN "OK" ELSE "invalid_state")
          /\ lastApplied' = IF r.rc = 0 THEN NONE ELSE lastApplied
     /\ UNCHANGED router

\* memsroute_get: the active routes, as many as MEMS_ROUTER_MAX_ROUTES.
MemsrouteGet ==
  /\ reply' = Reply("memsroute_get", NONE,
                    ActiveRoutes(router, state, MEMS_ROUTER_MAX_ROUTES))
  /\ UNCHANGED <<router, state, pos, lastApplied>>

\* memsroute_set: {"input":..,"output":..}: look the route up, apply it.
MemsrouteSet(in, out) ==
  LET route == GetRoute(router, in, out) IN
  \/ /\ route = NONE
     /\ reply' = Reply("memsroute_set", <<in, out>>, "invalid_route")
     /\ UNCHANGED <<router, state, pos, lastApplied>>
  \/ /\ route # NONE
     /\ \E act \in [1..Len(route.steps) -> GpioOutcomes] :
          LET r == ApplySteps(router, route.steps, 1, state, pos, act) IN
          /\ state' = r.state
          /\ pos' = r.pos
          /\ reply' = Reply("memsroute_set", <<in, out>>, r.res)
          /\ lastApplied' = IF r.res = "OK" THEN <<in, out>> ELSE NONE
     /\ UNCHANGED router

\* A watchdog reset: RAM is cleared and main() runs setup again; the
\* latching switches keep their positions.
Reboot ==
  /\ \E ready \in BOOLEAN : router' = SetupRouter(ready) /\ state' = SetupState(ready)
  /\ lastApplied' = NONE
  /\ reply' = NONE
  /\ UNCHANGED pos

Next ==
  \/ \E n \in Switches \cup {UnknownName} : MemsGet(n)
  \/ \E n \in Switches \cup {UnknownName}, c \in {"A", "B", BadState} : MemsSet(n, c)
  \/ MemsrouteGet
  \/ \E in, out \in Ports \cup {UnknownPort} : MemsrouteSet(in, out)
  \/ Reboot

Spec == Init /\ [][Next]_vars

-----------------------------------------------------------------------------
(* Properties.                                                             *)

TypeOK ==
  /\ router \in [switches : Seq(Switches), routes : Seq([input : Ports, output : Ports,
                   steps : Seq([sw : Switches, st : {"A", "B"}])])]
  /\ state \in [Switches -> {"A", "B", "U", "NUL"}]
  /\ pos \in [Switches -> {"A", "B"}]
  /\ lastApplied \in RouteKeys \cup {NONE}

Reported == ActiveRoutes(router, state, MEMS_ROUTER_MAX_ROUTES)

\* memsroute_get only reports routes the light really takes: every switch
\* of a reported route is physically in the position the route needs.  It
\* rests on mems_switch_set_state committing sw->state only for the
\* position it pulsed, and on a reset clearing every state to 'U'.
ReportedRoutesEstablished ==
  \A i \in DOMAIN Reported :
    LET r == GetRoute(router, Reported[i][1], Reported[i][2]) IN
    \A j \in DOMAIN r.steps : pos[r.steps[j].sw] = r.steps[j].st

\* A route memsroute_set has applied with OK stays reported by
\* memsroute_get until some switch is commanded again or the board resets
\* (spec: after applying route R, active_routes includes R).
AppliedRouteReported ==
  lastApplied # NONE => \E i \in DOMAIN Reported : Reported[i] = lastApplied

\* memsroute_get writes the active routes as a JSON object keyed by input
\* port; no two active routes ever share an input, so no key repeats.
ActiveInputsUnique ==
  \A i, j \in DOMAIN Reported : i # j => Reported[i][1] # Reported[j][1]

\* mems_router_define_route checks neither that a route's (input, output)
\* key is new nor that its steps name switches of the router, so the
\* table setup_mems_switches_and_routes defines must: every key
\* memsroute_set can select has one route, and every step of it names a
\* registered switch (else apply_route fails half-way).
RouteTableWellFormed ==
  LET rs == router.routes IN
  /\ \A i, j \in DOMAIN rs :
        i # j => <<rs[i].input, rs[i].output>> # <<rs[j].input, rs[j].output>>
  /\ \A i \in DOMAIN rs : \A k \in DOMAIN rs[i].steps :
        FindSwitch(router, rs[i].steps[k].sw) # NONE

=============================================================================
