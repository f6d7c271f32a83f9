---------------------------- MODULE NbdProtocol ----------------------------
(***************************************************************************)
(* What the handshake uses of the wire format (include/lwnbd/              *)
(* nbd-protocol.h): the packed structures, by the bytes they take, and the *)
(* numbers of options and flags.                                           *)
(***************************************************************************)
EXTENDS Integers, FiniteSetsExt

\* sizeof of a packed structure is the sum of its fields.
Packing(fields) == MapThenSumSet(LAMBDA f : fields[f], DOMAIN fields)

nbd_new_handshake == Packing([nbdmagic |-> 8, version |-> 8, gflags |-> 2])
nbd_new_option == Packing([version |-> 8, option |-> 4, optlen |-> 4])
nbd_fixed_new_option_reply == Packing([magic |-> 8, option |-> 4, reply |-> 4, replylen |-> 4])

NBD_FLAG_FIXED_NEWSTYLE == 1
NBD_FLAG_NO_ZEROES == 2

\* The reply to NBD_OPT_EXPORT_NAME ends before its zeroes when both sides say so.
nbd_export_name_option_reply(cflags) ==
    LET upto == [exportsize |-> 8, eflags |-> 2]
    IN Packing(upto) + (IF (cflags \div NBD_FLAG_NO_ZEROES) % 2 = 1 THEN 0 ELSE 124)

NBD_OPT_EXPORT_NAME == 1
NBD_OPT_ABORT == 2
NBD_OPT_LIST == 3

\* STARTTLS, INFO, GO, STRUCTURED_REPLY, LIST_META_CONTEXT, SET_META_CONTEXT, and
\* what other numbers a client may send.
NBD_OPT_UNSUPPORTED == 4 .. 10
=============================================================================
