-------------------------- MODULE ExceptionFilter --------------------------
(***************************************************************************)
(* What a caller is told when Postgres refuses a statement: the part of    *)
(* AllExceptionsFilter that every write of the API ends in.                *)
(***************************************************************************)

\* Mutated form: the SQLSTATE itself is handed to the caller.
RawSqlState(state) == state

\* fromSqlState; a state it does not list falls through to the 500.
FromSqlState(state) ==
    CASE state = "23P01" -> "SLOT_TAKEN"
      [] state = "23505" -> "IDEMPOTENCY_CONFLICT"
      [] state = "23514" -> "VALIDATION_FAILED"
      [] state = "42501" -> "FORBIDDEN"
      [] OTHER -> "INTERNAL"

\* The codes it answers with.
RefusalCodes == {"SLOT_TAKEN", "IDEMPOTENCY_CONFLICT", "VALIDATION_FAILED",
                 "FORBIDDEN", "INTERNAL"}
=============================================================================
