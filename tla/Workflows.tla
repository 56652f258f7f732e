----------------------------- MODULE Workflows -----------------------------
(***************************************************************************)
(* The TRANSITIONS tables of the services, each as the set of its pairs.   *)
(***************************************************************************)

QuotationTransitions ==
    { <<"Draft", "Sent">>, <<"Draft", "Cancelled">>,
      <<"Sent", "Approved">>, <<"Sent", "Rejected">>, <<"Sent", "Draft">>,
      <<"Rejected", "Draft">>,
      <<"Approved", "Cancelled">>, <<"Approved", "Converted">> }

RfqTransitions ==
    { <<"Draft", "Sent">>, <<"Sent", "Received">>, <<"Received", "Awarded">>,
      <<"Draft", "Cancelled">>, <<"Sent", "Cancelled">>, <<"Received", "Cancelled">> }

PermitTransitions ==
    { <<"Draft", "Approved">>, <<"Approved", "Released">>,
      <<"Draft", "Cancelled">>, <<"Approved", "Cancelled">> }
=============================================================================
