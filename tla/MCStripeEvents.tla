-------------------------- MODULE MCStripeEvents --------------------------
(***************************************************************************)
(* Instances of StripeEvents for TLC.                                      *)
(***************************************************************************)
EXTENDS StripeEvents, TLC

\* The first subscription is cancelled or expires unpaid, the second one falls behind.
MCCourses ==
  << {<<"active">>, <<"active", "canceled">>, <<"incomplete">>,
      <<"incomplete", "incomplete_expired">>},
     {<<"active">>, <<"active", "past_due">>} >>

\* Or it starts without a payment, which then comes.
MCLongerCourses ==
  << MCCourses[1], MCCourses[2] \cup {<<"incomplete">>, <<"incomplete", "active">>} >>

Symmetry == Permutations(Workers)
=============================================================================
