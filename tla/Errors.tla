------------------------------- MODULE Errors -------------------------------
(***************************************************************************)
(* From what is thrown to what the client is told: Prisma's errors become  *)
(* domain exceptions (PrismaErrorMapper), a transaction wraps what its     *)
(* work throws (PrismaUnitOfWork), and AllExceptionsFilter answers with    *)
(* the status of the exception's category.                                 *)
(*                                                                         *)
(* An error is its class and, if it is a domain exception, its category.   *)
(* The errors of Prisma are named by their codes; texts are left out.      *)
(***************************************************************************)

Statuses == {"BAD_REQUEST", "UNAUTHORIZED", "FORBIDDEN", "NOT_FOUND", "CONFLICT",
             "TOO_MANY_REQUESTS", "SERVICE_UNAVAILABLE", "INTERNAL_SERVER_ERROR"}

mapDomainErrorToHttpStatus ==
  [VALIDATION |-> "BAD_REQUEST", AUTHENTICATION |-> "UNAUTHORIZED",
   AUTHORIZATION |-> "FORBIDDEN", NOT_FOUND |-> "NOT_FOUND", CONFLICT |-> "CONFLICT",
   RATE_LIMIT |-> "TOO_MANY_REQUESTS", SERVICE_UNAVAILABLE |-> "SERVICE_UNAVAILABLE",
   INTERNAL |-> "INTERNAL_SERVER_ERROR"]

DomainErrorCategory == DOMAIN mapDomainErrorToHttpStatus

Thrown(class, category) == [class |-> class, category |-> category]

IsDomainException(e) == e.category \in DomainErrorCategory

\* What the services throw themselves.
AppError(category) == Thrown("AppError", category)
badRequest == AppError("VALIDATION")
unauthorized == AppError("AUTHENTICATION")
forbidden == AppError("AUTHORIZATION")
notFound == AppError("NOT_FOUND")
conflict == AppError("CONFLICT")

\* What the database's client throws.
Prisma(code) == Thrown(code, "none")

mapKnownError ==
  [P2002 |-> Thrown("DuplicateEntityException", "CONFLICT"),
   P2025 |-> Thrown("EntityNotFoundException", "NOT_FOUND"),
   P2028 |-> Thrown("TransactionFailedException", "INTERNAL"),
   P2023 |-> Thrown("DomainException", "VALIDATION")]

toDomainException(e) ==
  IF IsDomainException(e) THEN e
  ELSE IF e.class \in DOMAIN mapKnownError THEN mapKnownError[e.class]
  ELSE Thrown("DomainException",
              IF e.class = "PrismaClientValidationError" THEN "VALIDATION" ELSE "INTERNAL")

\* What execute throws when its work has thrown e.
WrappedByTransaction(e) ==
  IF e.class = "TransactionFailedException" THEN e
  ELSE Thrown("TransactionFailedException", "INTERNAL")

\* Of errors that are not domain exceptions only those without a status of their
\* own reach the filter here.
StatusOf(e) ==
  IF IsDomainException(e) THEN mapDomainErrorToHttpStatus[e.category]
  ELSE "INTERNAL_SERVER_ERROR"
=============================================================================
