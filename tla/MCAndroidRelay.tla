---------------------------- MODULE MCAndroidRelay ----------------------------
(* Texts for the model-checked instances of AndroidRelay: a request and a    *)
(* remark that are spoken, one of each that is typed, what another app shows. *)
EXTENDS AndroidRelay

MCSpoken == {<<"delegate">>, <<"thanks">>}
TypedRequest == {<<"run", "thanks">>}
TypedRemark == {<<"thanks">>}
MCElsewhere == {<<"thanks">>}
=============================================================================
