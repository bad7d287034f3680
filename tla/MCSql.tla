------------------------------- MODULE MCSql --------------------------------
(***************************************************************************)
(* Scripts for TLC: every one of a few lines, compiled with and without    *)
(* --namespace and in a folder or not; two of the options are one's        *)
(* values.                                                                 *)
(***************************************************************************)
EXTENDS Sql

MCOptions    == {<<"no-cursor", "">>, <<"page-size", "12">>, <<"page-size", "40">>}
MCNamespaces == {<<"">>, <<"TestIceTray", "sql">>}
MCFolders    == {<<>>, <<"subdir", "a">>}
=============================================================================
