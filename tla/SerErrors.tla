------------------------------ MODULE SerErrors ------------------------------
(***************************************************************************)
(* The library's return codes (types.h), and the translation into them of  *)
(* errno values on POSIX systems (posix/comms.c, error_set) and of error   *)
(* codes on Windows (win/comms.c, werr).                                   *)
(***************************************************************************)
EXTENDS Integers

SER_EFAIL     == -1
SER_EINVAL    == -2
SER_EDISCONN  == -3
SER_ETIMEDOUT == -4
SER_ENODEV    == -5
SER_EBUSY     == -6
SER_ENOTSUP   == -7
SER_EEMPTY    == -8

\* What a library call may return: 0 or one of the eight error codes.
ReturnCodes == -8..0

(***************************************************************************)
(* error_set: the code of an errno value.  The values it does not name     *)
(* (EINTR, EBADF, EINVAL, ...) are a general failure.                      *)
(***************************************************************************)
ErrorSet(errno) ==
  CASE errno = "none"             -> 0
    [] errno = "ENOENT"           -> SER_ENODEV
    [] errno = "EBUSY"            -> SER_EBUSY
    [] errno \in {"EIO", "ENXIO"} -> SER_EDISCONN
    [] errno = "EAGAIN"           -> SER_EEMPTY
    [] OTHER                      -> SER_EFAIL

\* Mutant: a disconnection is not told from other failures, and their codes
\* are returned as they are.
Werr_Raw(code) ==
  CASE code = "ERROR_FILE_NOT_FOUND"    -> SER_ENODEV
    [] code = "ERROR_ACCESS_DENIED"     -> SER_EBUSY
    [] code = "ERROR_INVALID_PARAMETER" -> SER_EINVAL
    [] code = "WAIT_TIMEOUT"            -> SER_ETIMEDOUT
    [] OTHER                            -> 22

\* werr: the code of a Windows error; what it does not name is a general
\* failure.
Werr(code) ==
  CASE code = "ERROR_FILE_NOT_FOUND"    -> SER_ENODEV
    [] code = "ERROR_ACCESS_DENIED"     -> SER_EBUSY
    [] code = "ERROR_INVALID_PARAMETER" -> SER_EINVAL
    [] code \in {"ERROR_BAD_COMMAND", "ERROR_GEN_FAILURE",
                 "ERROR_OPERATION_ABORTED"} -> SER_EDISCONN
    [] code = "WAIT_TIMEOUT"            -> SER_ETIMEDOUT
    [] OTHER                            -> SER_EFAIL
=============================================================================
