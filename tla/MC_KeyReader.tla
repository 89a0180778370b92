---------------------------- MODULE MC_KeyReader ----------------------------
(* Three function keys whose codes share prefixes the way terminfo codes  *)
(* do (ESC O P, ESC O Q, ESC [ 1 ~), kbs as ^H ("BS") registered under   *)
(* SK_Backspace while DEL is read as SK_Backspace too, and stray bytes     *)
(* that break a sequence.                                                  *)
EXTENDS KeyReader

MCBytes == {"ESC", "DEL", "BS", "O", "P", "Q", "[", "1", "~"}
MCSpecialKeys == (<<"ESC", "O", "P">> :> "F1") @@ (<<"ESC", "O", "Q">> :> "F2")
                 @@ (<<"ESC", "[", "1", "~">> :> "F5") @@ (<<"BS">> :> Backspace)
=============================================================================
