---------------------------- MODULE MC_BaseMode ----------------------------
(* Small instances of BaseMode. *)
EXTENDS BaseMode

Start(m, s, a) == [mode |-> m, site |-> s, act |-> a]
Put(m, s, v) == [mode |-> m, site |-> s, svin |-> v]

\* A survey-in over a site surveyed earlier, a fixed base with and without a
\* configured site, a fixed base with no site at all, a base that is off.
AllStarts ==
  {Start("svin", "-", "A"), Start("svin", "-", "-"), Start("fixed", "A", "-"),
   Start("fixed", "-", "B"), Start("fixed", "-", "-"), Start("off", "-", "A")}

AllBodies ==
  {Put("off", "-", FALSE), Put("svin", "-", FALSE), Put("svin", "-", TRUE),
   Put("fixed", "-", FALSE), Put("fixed", "B", FALSE)}
FewBodies == {Put("off", "-", FALSE), Put("fixed", "B", FALSE)}

Plan(starts, asks, requests, bodies, kinds, faults, drops, in) ==
  [starts |-> starts, asks |-> asks, requests |-> requests, bodies |-> bodies,
   kinds |-> kinds, faults |-> faults, drops |-> drops, inbox |-> in]

MCPlans ==
  { \* every start and request, and a fault or a reconnection
    Plan(AllStarts, AllRequests, 1, AllBodies, {"nak", "timeout", "factory_reset"}, 1, 0, 0),
    Plan(AllStarts, AllRequests, 1, AllBodies, {}, 0, 1, 0),
    \* a fault and a reconnection
    Plan({Start("svin", "-", "A")}, {"activate", "put"}, 1, FewBodies, {"nak", "timeout"}, 1, 1, 0),
    \* two requests that meet, and a reconnection
    Plan({Start("svin", "-", "A")}, {"activate", "put"}, 2, FewBodies, {}, 0, 1, 0),
    \* a site is deleted and made again under the same name
    Plan({Start("svin", "-", "B")}, {"cli_delete", "add", "activate", "cli_activate"}, 3, {}, {"nak"}, 1, 0, 0),
    \* two requests that meet, one of which loses the receiver's answer
    Plan({Start("svin", "-", "A")}, {"activate", "put", "restart", "cli_activate"}, 2, FewBodies, {"timeout"}, 1, 0, 0),
    \* two requests that meet while the base broadcasts
    Plan({Start("fixed", "A", "-")}, {"activate", "put", "cli_activate"}, 2, FewBodies, {}, 0, 0, 1) }
=============================================================================
