------------------------------ MODULE IdrState -------------------------------
(* The state of IdrControl, its parameters with what is assumed of them,   *)
(* and what is said about the state; IdrControl has the steps.             *)
EXTENDS Naturals

CONSTANTS Threshold,   \* distances up to this one are not shortened (30)
          Short,       \* the distance for a while (3)
          MaxPeriod,   \* H264_Idrframe_MAX (240)
          Gops,        \* max_frame is so many distances (16)
          Periods,     \* what the user may ask for
          Spaced,      \* requests wait until the distance is back
          MaxRequests  \* bound: requests of viewers and of the user

ASSUME ThresholdAssumption == Threshold \in Nat /\ Short \in 1 .. Threshold
ASSUME MaxPeriodAssumption == MaxPeriod \in Nat /\ MaxPeriod > Threshold
ASSUME GopsAssumption == Gops \in Nat \ {0}
ASSUME PeriodsAssumption == Periods \subseteq Nat /\ Periods # {}
ASSUME SpacedAssumption == Spaced \in BOOLEAN
ASSUME MaxRequestsAssumption == MaxRequests \in Nat

VARIABLES pic,       \* imgbuf.pic
          interval,  \* param.i_interval
          maxFrame,  \* param.max_frame
          connect,   \* gptMsgShare.Rtsp_connect
          saved,     \* gptMsgShare.Rtsp_idr
          avi,       \* avi_save is on
          frame,     \* the last picture: slice type, number, distance
          asked,     \* the distance the user asked for last
          requests   \* requests so far

request == <<asked, requests>>
encoder == <<pic, interval, maxFrame, connect, saved, avi, frame, request>>

Distances == 1 .. MaxPeriod

-----------------------------------------------------------------------------
(* A P picture is numbered one above the picture before it, also across a  *)
(* shortened distance and the wrap of pic, unless the user changed the     *)
(* distance in between: this is how the senders notice lost pictures.      *)
NumbersFollow ==
    [][pic' # pic /\ frame'.slice = "P" /\ frame'.gop = frame.gop
         => frame.slice # "none" /\ frame'.num = frame.num + 1]_encoder

(* The encoder works with another distance than the user asked for only    *)
(* while it still counts I pictures and Rtsp_idr holds what he asked for.  *)
BorrowedIsOwed ==
    interval # asked => interval = Short /\ connect \in 2 .. 4 /\ saved = asked

(* The distance the user asked for comes back, again and again.            *)
PeriodComesBack == []<>(interval = asked)
=============================================================================
