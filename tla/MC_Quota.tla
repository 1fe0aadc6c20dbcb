------------------------------ MODULE MC_Quota ------------------------------
(* The quota store over three hours, the last of them in a new day.  A     *)
(* report costs two tokens: an hour's budget covers two and a half, a      *)
(* day's three and a half, so that each limit is met between two costs, and *)
(* either one may be the one that is short.                                *)
EXTENDS Quota

CONSTANTS web, ios

MCRequest == {<<web, "report">>, <<web, "beyond">>, <<web, "realtime">>,
              <<ios, "realtime">>}
=============================================================================
