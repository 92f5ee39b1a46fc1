-------------------------- MODULE MCNodeOwnership ---------------------------
(***************************************************************************)
(* Instances of NodeOwnership for TLC.                                     *)
(***************************************************************************)
EXTENDS NodeOwnership

CONSTANTS c1, c2

Flags(mock, enabled, max) ==
    [mock |-> mock,
     enabled |-> [t \in Types |-> t \in enabled],
     max |-> [t \in Types |-> IF t \in DOMAIN max THEN max[t] ELSE 0]]

Video(place, i, drivers, compat, card) ==
    [listed |-> place, index |-> i, drivers |-> drivers, compat |-> compat, card |-> card]

Board(v4l, accel, render) == [v4l |-> v4l, accel |-> accel, render |-> render]

\* Nodes of an RK3588 as their drivers name them: two of a block, listed in the
\* order of their file names, and an AV1 decoder whose card has the mark of the
\* H.264 decoder too. A driver is found in the uevent of the class entry, in that
\* of the device or behind the driver link.
Decoders ==
    Board({ Video(1, 10, <<"rkvdec", NoDriver, NoDriver>>, {}, {}),
            Video(2, 2, <<NoDriver, "rkvdec", NoDriver>>, {}, {}),
            Video(3, 4, <<"hantro-vpu", NoDriver, NoDriver>>, {"vpu121"}, {"vpu-dec"}) }, {}, {})
Hantro ==
    Board({ Video(1, 3, <<NoDriver, NoDriver, "hantro-vpu">>, {"av1"}, {"av1", "vpu-dec"}),
            Video(2, 4, <<"hantro-vpu", NoDriver, NoDriver>>, {"vpu121"}, {"vpu-dec"}),
            Video(3, 5, <<"hantro-vpu", NoDriver, NoDriver>>, {"vepu"}, {}) }, {}, {})

\* One device of each type, as in mock mode.
OneOfEach ==
    Board({ Video(1, 0, <<"rockchip-rga", NoDriver, NoDriver>>, {}, {}), Video(2, 2, <<"rkvdec", NoDriver, NoDriver>>, {}, {}) },
          { [listed |-> 1, index |-> 0, drivers |-> <<NoDriver, NoDriver, NoDriver>>, rknn |-> TRUE] },
          { [listed |-> 1, index |-> 128, drivers |-> <<"panthor", NoDriver, NoDriver>>] })

\* Entries that discovery passes over, listed before those that it takes.
Mixed ==
    Board({ Video(1, NotVideo, <<"rkvdec", NoDriver, NoDriver>>, {}, {}) },
          { [listed |-> 1, index |-> 0, drivers |-> <<"other", NoDriver, NoDriver>>, rknn |-> FALSE],
            [listed |-> 2, index |-> 1, drivers |-> <<NoDriver, "rocket", NoDriver>>, rknn |-> FALSE] },
          { [listed |-> 1, index |-> 128, drivers |-> <<"rockchip-drm", "panthor", NoDriver>>],
            [listed |-> 2, index |-> 129, drivers |-> <<NoDriver, "panthor", NoDriver>>] })

TwoOfABlock ==
    Board({ Video(1, 1, <<"rkvdec", NoDriver, NoDriver>>, {}, {}), Video(2, 2, <<"rkvdec", NoDriver, NoDriver>>, {}, {}) }, {},
          { [listed |-> 1, index |-> 128, drivers |-> <<"panthor", NoDriver, NoDriver>>] })

\* The default flags enable every type; all four disabled do so as well.
BoardSetups ==
    { [entries |-> Decoders, cores |-> {0}, flags |-> Flags(FALSE, Types, <<>>)],
      [entries |-> Hantro, cores |-> {0}, flags |-> Flags(FALSE, {"vpu"}, <<>>)],
      [entries |-> Mixed, cores |-> {0, 1, 3}, flags |-> Flags(FALSE, Types, <<>>)],
      [entries |-> OneOfEach, cores |-> {0, 3}, flags |-> Flags(FALSE, {}, <<>>)],
      [entries |-> OneOfEach, cores |-> {0, 3}, flags |-> Flags(FALSE, {"npu", "rga"}, [npu |-> 2])],
      [entries |-> OneOfEach, cores |-> {0, 3}, flags |-> Flags(TRUE, {"vpu", "gpu"}, [gpu |-> 1])] }

RenumberedSetups ==
    { [entries |-> TwoOfABlock, cores |-> {0}, flags |-> Flags(FALSE, Types, <<>>)] }

\* Claims differ only in their identity.
ClaimSymmetry == Permutations(Claims)
=============================================================================
