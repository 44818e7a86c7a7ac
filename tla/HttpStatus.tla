------------------------------- MODULE HttpStatus -------------------------------
(***************************************************************************)
(* The codes of net/http that internal/api answers with.                   *)
(***************************************************************************)
StatusOK == 200
StatusAccepted == 202
StatusNoContent == 204
StatusBadRequest == 400
StatusNotFound == 404
StatusConflict == 409
StatusInternalServerError == 500
================================================================================
