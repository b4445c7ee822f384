--------------------------- MODULE MCUmpTransfer ----------------------------
(***************************************************************************)
(* Transfers around every boundary: of one packet and of several, the last *)
(* one full or not, with 0xF0 and without, of a length that overflows a    *)
(* uint8_t, and a data set shorter than a payload.  Arguments at both ends *)
(* of their ranges, each different from the others.                        *)
(***************************************************************************)
EXTENDS UmpTransfer

CONSTANT Long         \* length of the longest message

Bytes(start, length) == [i \in 1 .. length |-> (start + i) % 128]

MCCall ==
  [ a |-> [kind |-> "sysex7", group |-> 0, memory |-> <<240>> \o Bytes(1, 13) \o <<247>>],
    b |-> [kind |-> "sysex7", group |-> 1, memory |-> Bytes(2, 6) \o <<247>>],
    c |-> [kind |-> "sysex8", group |-> 0, id |-> 1, length |-> Long, memory |-> Bytes(3, Long)],
    d |-> [kind |-> "mds", group |-> 0, id |-> 1, length |-> 20, memory |-> Bytes(5, 33)],
    e |-> [kind |-> "mds", group |-> 0, id |-> 2, length |-> 5, memory |-> Bytes(6, 5)] ]

MCArguments1 ==
  { [group |-> 0, channel |-> 15, status |-> 241, byte2 |-> 1, byte3 |-> 127, note |-> 60,
     velocity |-> 100, data |-> 3, index |-> 74, program |-> 5, bend |-> 8192, lsb |-> 6,
     msb |-> 7, time |-> <<1, 2>>],
    [group |-> 15, channel |-> 0, status |-> 255, byte2 |-> 127, byte3 |-> 0, note |-> 127,
     velocity |-> 0, data |-> 126, index |-> 1, program |-> 127, bend |-> 16383, lsb |-> 127,
     msb |-> 2, time |-> <<255, 0>>] }

MCArguments2 ==
  { [group |-> 0, channel |-> 15, note |-> 60, attribute_type |-> 3, velocity |-> <<1, 2>>,
     attribute_data |-> <<4, 5>>, data |-> <<6, 7, 8, 9>>, index |-> 74, controller |-> 200, options |-> 2,
     program_options |-> 0, program |-> 10, msb |-> 11, lsb |-> 12, bank_msb |-> 13, bank_lsb |-> 14],
    [group |-> 15, channel |-> 0, note |-> 127, attribute_type |-> 0, velocity |-> <<255, 254>>,
     attribute_data |-> <<0, 128>>, data |-> <<128, 0, 255, 127>>, index |-> 127, controller |-> 255, options |-> 3,
     program_options |-> 1, program |-> 126, msb |-> 127, lsb |-> 0, bank_msb |-> 255, bank_lsb |-> 1] }
=============================================================================
