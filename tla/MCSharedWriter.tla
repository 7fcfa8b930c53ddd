-------------------------- MODULE MCSharedWriter --------------------------
(* Exporters that share outputs, for TLC. *)
EXTENDS SharedWriter, TLC

CONSTANTS c1, c2, c3, stdout, stderr, file

(* One client names an output twice, one opens in the opposite order. *)
MCPathsOf == c1 :> <<stdout, file, stderr>>
          @@ c2 :> <<stderr, stdout>>
          @@ c3 :> <<stdout, stdout>>
===========================================================================
