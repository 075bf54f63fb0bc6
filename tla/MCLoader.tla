------------------------------ MODULE MCLoader -------------------------------
(* Instances of Loader: two pages to a table and four tables to a 1G, so   *)
(* that a program of a few pages crosses them; the files of a small initrd. *)
EXTENDS Loader

F(text, data, type, needs, exports, imports) ==
    [text |-> text, data |-> data, type |-> type, needs |-> needs,
     exports |-> exports, imports |-> imports]

MCFiles ==
    [driver |-> F(1, 1, "exec", <<"libc">>, {"d"}, {"c"}),
     fs     |-> F(1, 2, "exec", <<"libc">>, {"v"}, {"c"}),
     libc   |-> F(1, 1, "dyn", <<>>, {"c"}, {}),
     kbd    |-> F(1, 1, "dyn", <<"libc">>, {}, {"c", "d"}),
     usb    |-> F(2, 1, "dyn", <<"hub", "libc">>, {}, {"h"}),
     hub    |-> F(1, 1, "dyn", <<"libc">>, {"h"}, {"c"}),
     broken |-> F(1, 1, "dyn", <<"libc">>, {}, {"nowhere"}),
     text   |-> F(1, 1, "other", <<>>, {}, {}),
     fsz    |-> F(1, 1, "dyn", <<"libc">>, {}, {"c", "v"})]

MCNames == {"kbd", "usb", "broken", "text", "missing", "fb"}

MCFsDrivers == <<"fsz", "missing">>
MCDrvMem    == <<2, 4>>
Halves      == <<3, 2>>
None0       == <<>>
MCFrames == {1 .. 54, 1 .. 84}
MCTid    == 1 .. 3
MCMap    == {<<18, 2>>, <<21, 2>>}
MCFree   == {<<18, 2>>, <<21, 2>>, <<16, 8>>, <<24, 2>>}
MCFault  == {3, 17}
Across   == {<<19, 3>>}
Inside   == {<<18, 2>>, <<19, 2>>}
=============================================================================
