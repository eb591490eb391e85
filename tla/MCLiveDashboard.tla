--------------------------- MODULE MCLiveDashboard ---------------------------
(* A small instance of LiveDashboard: two calls of the past, one without a   *)
(* connection, one under way and one created later, which pushes the oldest  *)
(* out of the listing.                                                       *)
EXTENDS LiveDashboard

At(c, status, stage, ptp) ==
  [call |-> c, created |-> c, day |-> c, status |-> status, stage |-> stage,
   customer |-> c, loan |-> c, language |-> "English", ptp_day |-> ptp]

MCHistory ==
  <<<<At(1, "COMPLETED", "RNR", 0)>>,
    <<At(2, "COMPLETED", "PTP_TODAY", 2)>>,
    <<At(3, "INITIATED", NoStage, 0), At(3, "IN_PROGRESS", NoStage, 0),
      At(3, "COMPLETED", "CALLBACK_SCHEDULED", 0)>>,
    <<At(4, "INITIATED", NoStage, 0)>>>>

Blank == [k \in FilterField |-> NoFilter]
MCFilters ==
  {Blank, [Blank EXCEPT !.customer = {1, 3}, !.ptp_day = {0},
                        !.status = {"INITIATED", "COMPLETED"}]}
=============================================================================
