------------------------------ MODULE MCSignon ------------------------------
(* Maps whose lists have one name each, which still take a piece for the name *)
(* and one for the end, a change of map and one reconnect, missing file or    *)
(* change of the userinfo.                                                    *)
EXTENDS Signon
=============================================================================
