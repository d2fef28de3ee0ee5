---------------------------- MODULE MCCodeSession ----------------------------
(* Three calls of execute or destroy, of which one passes large code, one  *)
(* files and one another language.                                         *)
EXTENDS CodeSession

MCBackend == {"process", "wasm", "service"}
MCLanguage == {"python", "javascript"}
=============================================================================
