---------------------------- MODULE MCRecordText ----------------------------
(* Instance of RecordText: addresses of two bytes, the numbers at the limits *)
(* of the fields, a name of each sort, and lines a person may write: good    *)
(* ones, and one for each way a line can be bad.                             *)
EXTENDS RecordText

MCDevice(ieee, na, ep, n) == [ieee |-> ieee, na |-> na, ep |-> ep, name |-> n]

MCDevices ==
    {MCDevice(<<1, 2>>, 5, 255, "lamp"), MCDevice(<<3, 4>>, 65280, 1, "lamp"),
     MCDevice(<<1, 2>>, 65281, 1, "lamp"), MCDevice(<<1, 2>>, 5, 1, "feed"),
     MCDevice(<<1, 2>>, 5, 1, "quote")}

MCMember(na) == [na |-> na, ep |-> 1]

MCGroups ==
    {[id |-> 1, name |-> "lamp", members |-> <<MCMember(5), MCMember(6), MCMember(7), MCMember(65281)>>],
     [id |-> 65280, name |-> "", members |-> <<>>],
     [id |-> 65281, name |-> "lamp", members |-> <<MCMember(5)>>],
     [id |-> 1, name |-> "long", members |-> <<MCMember(65281)>>]}

MCGoodDevice == MCDevice(<<7, 7>>, 5, 2, "lamp")
MCGoodGroup == [id |-> 1, name |-> "lamp", members |-> <<MCMember(7)>>]

MCBadLines(huge, bad, good) ==
    {Line(huge, NoRec), Line(bad, NoRec), good,
     [Line(bad, NoRec) EXCEPT !.short = TRUE], [good EXCEPT !.whole = FALSE]}

MCHandLines ==
    [k \in {"device", "group"} |->
       IF k = "device"
         THEN MCBadLines(<<Num(ULongMax + 1), Comma, Num(5)>>, <<Num(1), Comma, Num(5)>>,
                         Head(DeviceLines(MCGoodDevice)))
         ELSE MCBadLines(<<Num(ULongMax + 1), Comma, Quoted("lamp")>>,
                         <<Num(1), Comma, Quoted("lamp"), Comma, Num(5)>>,
                         Head(GroupLines(MCGoodGroup)))]
=============================================================================
