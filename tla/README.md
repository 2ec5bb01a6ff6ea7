# TLA+ models of the tracker_fw host tools

This directory holds TLA+ models of the host-side Python tools that talk to the Chekr collar over BLE using the ChekrAppLink protocol. The BLE tools are under `src/chekr_app/tests/`; the MQTT client and the report scrub tool are under `src/aws_da_shell_cmds/` and `src/commercial_collar/`. It also holds the TLC configurations that check the models.

## The system

- **Checksum Engine.** `bluecent-main/mcrc16.py` `crc16` and `culvert/utils.py` `crc16_modbus` compute the Modbus CRC-16 (init 0xFFFF, reflected polynomial 0xA001). Every frame carries it, big-endian.
- **Frame Codec.** `bluecent-main/chekrapplink.py` holds:
  - `CommFrame.to_bytes` and `calculate_crc`, which build the request frame `01 len F1 cmd data crc`;
  - the builders (`get_mac_addr_frame` … `read_dashboard_data`), one per command;
  - `CommFrame.from_bytes`, which validates a response `02 len F2 cmd ack data crc`. It checks, in order, the minimum length, the length byte, the start byte, the CRC, the frame type and the ack (0x11). Any failure returns `None`.
  - Culvert's `utils.pack_command` builds the same layout. Its builders (`record.py`, `epochtime.py`, `misc_cmds.py`) take the length byte from `struct.calcsize` of a format string, `HEADER_FORMAT + payload + CRC_FORMAT`, rather than from the bytes they pack.
- **Session Retrieval.**
  - `culvert/record_session.py`, with `record.py`, `command.py`, `misc_cmds.py` and `epochtime.py`, scans for the collar. For each iteration it connects, sets and reads the clock, sets the position and size, and reads the dashboard. It then starts a recording session named by the current epoch milliseconds, sleeps, and stops it. Finally it reads the IMU and activity record counts and fetches every record.
  - `send_command` writes the frame without response, sleeps 100 ms and reads the read characteristic.
  - The bluecent scripts (`csv_file.py`, `Test_*.py`, `M1_Demo_*.py`, `act_data.py`) do the same with `chekrapplink` frames and `from_bytes`.
- **Collar firmware.** Not in this repository. It queues each written command, handles it, and leaves its reply in the read characteristic.
- **AWS MQTT client.** `aws_da_shell_cmds/PahoClient/paho_client.py` connects to AWS IoT, subscribes to a c2d topic in `on_connect`, and publishes a d2c message every 2 s while `is_connected` holds.
- **Report scrub tool.** `commercial_collar/scrub_static.py` filters a static-analysis report. A line naming a bad word is dropped with the 3 lines after it; a line naming an "other" skip is dropped with the next line.
- **Out of protocol.** The commercial-collar CBOR service test, plotting, video annotation and the log setup.

The parts interact at one point. The host's `send_command` writes into the collar's command queue, and later reads the collar's read characteristic. Nothing ties a read to the write before it, so the order in which the collar handles commands and the host reads replies is the central interleaving.

## Modules

| Module | Models | State ↔ code |
|---|---|---|
| `ModbusCrc` | Reference Modbus CRC-16 | Table-driven definition, independent of the bit loop (the firmware's algorithm); `ASSUME` pins it to the golden vector `01 07 F1 01 00` → `0xD748` of `bluecent.py`. |
| `Crc16` | `crc16` | A pure function, so no state: `Round` is one iteration of `for _ in range(8)` (xor 0xA001 when the low bit was set), `Rounds` the inner loop, `Bytes` the outer `for b in data` (`crc ^= b`, then 8 rounds), `crc16` the whole function, all `RECURSIVE`. Each loop's state (accumulator and what is left to run) is passed as one record, so TLC evaluates the accumulator at every step instead of building a chain of unevaluated arguments; `ModbusCrc`'s `Reflect8` and `CrcByTable` do the same. |
| `CommFrame` | `CommFrame` | `req` is the request built; `sent` and `wire` are the device's response and its bytes as received; `flips` counts link damage; `result` is what `from_bytes` returned. `FromBytes` is the chain of early returns in code order. |
| `Device` | collar (environment) | `inbox` (commands written, not yet handled), `rxChar` (read characteristic), `recording`, `known` sessions, `count[uid][kind]`, `position`. Actions `DeviceHandle` (one disjunct per command group, start/stop refusing what the lifecycle forbids), `DeviceRefuse` (NACK), `DeviceSample` (the session in progress stores a record). |
| `CulvertFrames` | culvert `pack_command` and the request builders | Pure operators: formats are sequences of struct codes and `calcsize` is a recursive operator with standard and native (aligned) sizes; `pack_command` and one operator per builder, named as in the code; `Catalog` is every frame they build. |
| `CulvertSession` | `record_session.py` and the modules it calls | `hpc` is the script's position; `bypass` is `--bypass`, fixed at `Init`. The other variables hold the loop variables of the code and history variables (`started`, `drained`). `Write` and the `Read*` actions are the two halves of `send_command`. Each `Read*` action includes the parse the caller does, and a parse that does not fit the value read goes to `crashed`, as the exception ends the script. |
| `BluecentFetch` | `csv_file.py` and `M1_Demo_record_Fetch.py` `test_data1`, against `Device` | `Script` is the script that runs (chosen in `Init` from `Scripts`). `hpc` is its step, `no` the count it parsed, `rec` the loop index `i`, `got` the records `imu_rec_unpack` wrote to the CSV. `Write` and `ReadStep`/`ReadDetails`/`ReadRecord` are the two halves of each write/sleep/read. `Outcomes`, `CountsOf` and `CountRaises` are the parses: `None` from `from_bytes` raises, csv_file takes `data[8]` (the high byte, `HighByte`), M1 takes the whole count of the *activity* details (`DetailsKind`). |
| `ScrubSpec` | what `scrub_static.py` is for (abstract) | `Kept` is the recursive filter: the positions of the lines that survive the skips. `Finish` writes them all; `Abort` also writes them all and ends with a traceback, since a StopIteration only comes while a skip swallows the last lines. |
| `ScrubStatic` | `scrub_static.py` | `bad_words` and `other_skips` are the code's phrase lists and a line is the set of phrases it contains; `pos` is the file iterator, `out` the lines written, `pc` loop/done/crashed. `Iterate` is one whole iteration of `for line in oldfile`, with its `next(oldfile)` calls; a `next` past the end is `crashed` (StopIteration). It refines `ScrubSpec` through `Abstract == INSTANCE ScrubSpec WITH …`. |
| `BluecentRequests` | the record request payloads of `csv_file.py` and `M1_Demo_record_Fetch.py` | Pure operators: `ByteArray` is `bytearray(n)`, `SliceAssign` is `a[lo:hi] = v` (which grows the array when `v` is longer), `ByteAssign` is `a[i] = v`; `M1RecordRequest` and `CsvRecordRequest` are the payloads of the fetch loops. |
| `ActData` | `act_data.py` `imu_rec_act_unpack` | `len` is `len(imu_rec)`, `pc` the length check and the two loops, `k` the block of `range(9,210,40)`, `js` the rest of the inner `range`, `temp_data` the cells filled, each as the slice `imu_rec[lo:hi]` it unpacks. `Timestamp`, `Value` and `InnerDone` are the loop bodies; `Row` is the regrouping in runs of 9. |
| `PahoClient` | `paho_client.py` | `pc`, `is_connected` and `elapsed` (clock ticks since `last`) are the script; `net`, `rc`, `connack` and `subscribed` are the broker and socket. `Connect` is `client.connect`; `Loop` is one whole iteration of `while run` (`client.loop()` with `on_connect`, then the publish; `on_message` is a print and changes nothing modelled). `BrokerConnack`, `Drop` and `Tick` are the environment. |

In `CulvertSession` and `BluecentFetch`, frames are abstracted to the fields the code parses: code, ack, uid, index and count. The byte layout is checked separately in `CommFrame`. `Timely` states the 100 ms assumption: when TRUE, a read waits until the collar has handled everything written.

## Runs

| Run | Config | Expect | What it shows |
|---|---|---|---|
| frame_codec_pass | MCCommFrame.cfg | pass | `crc16` equals the reference CRC on all 256 one-byte inputs, the empty input and three real frames. Request frames have the right length byte and trailer. `from_bytes` accepts a response iff it is undamaged with ack 0x11, and then returns the sent command and data. Every single-byte corruption at every position with every byte value is rejected. Every frame the culvert builders pack (two uids, record numbers 0, 255, 256, 65535) is byte for byte the `chekrapplink` frame of the same command and payload, so its `calcsize` length is right. The record requests both bluecent fetch scripts assemble in `bytearray(12)` are the same frames as culvert's `read_recording_session_imu_data`. |
| session_pass | MCCulvertSession.cfg | pass | With and without `--bypass`, a collar that may be recording at power-on, timely replies, NACKs and link loss, each completed fetch loop got exactly records 0..num-1 of its session and kind. Unless the session was live (`--bypass`), num is the device's count; otherwise the records are a consistent prefix. |
| session_live_pass | MCCulvertSessionLive.cfg | pass | Without failures, every started session is eventually stopped. |
| scrub_pass | MCScrubStatic.cfg | pass | For every report of up to 6 lines, `ScrubStatic` implements `ScrubSpec`: it writes exactly the kept lines, also when it stops on a StopIteration. |
| paho_pass | MCPahoClient.cfg | pass | With refusals and drops possible, on a connection the broker accepted and that stays up, d2c messages keep being published. |
| session_stale_violation | MCCulvertSessionStale.cfg | violation | A reply later than the sleep makes the count parse read the stop reply; records are silently missed. |
| session_orphan_violation | MCCulvertSessionOrphan.cfg | violation | A NACKed stop or a link loss leaves the collar recording when the script ends. |
| bluecent_fetch_violation | MCBluecentFetchCount.cfg | violation | `FetchComplete`: `csv_file.py` reads the count from `data[8]`, the high byte, and ends with none of a 1-record session in its CSV. |
| paho_loss_violation | MCPahoClientLoss.cfg | violation | `NoSilentLoss`: a refused CONNACK sets `is_connected` (rc is never read), and after a drop it stays True; every later QoS 0 publish is discarded; `loop()` does not reconnect. |
| scrub_stop_violation | MCScrubStaticStop.cfg | violation | `NoStopIteration`: a bad-word line with fewer than 3 lines after it (the trace: a one-line report naming a bad word), or an "other" skip on the last line, makes `next(oldfile)` raise StopIteration. The output file is complete (scrub_pass); the script ends with a traceback. |
| position_violation | MCCulvertSessionPosition.cfg | violation | `PositionKept`: `set_dog_size` packs its size 3 under `SET_DOG_COLLAR_POSITION` (4), not `SET_DOG_SIZE` (26), so the prelude overwrites the position 12 it has just set. |
| act_timestamp_violation | MCActData.cfg | violation | `RowReadsOwnBlock`: `imu_rec_act_unpack` unpacks every row's timestamp from `imu_rec[9:17]`, the first block's, so rows 2..6 of each activity record carry the wrong time. |

Further counterexamples are kept as configurations beside the listed runs; each is one property, violated as described in the hazards of `PROJECT.json`:

| Config | Module | Property | What TLC finds |
|---|---|---|---|
| MCCommFrameRoundTrip.cfg | MCCommFrame | RoundTrip | `from_bytes` takes the first payload byte as the ack. |
| MCPahoClientDrop.cfg | PahoClient | NoSilentLoss | The drop path alone: an accepted connection drops and publishes go nowhere. |
| MCBluecentFetchKind.cfg | MCBluecentFetch | FetchComplete | M1 counts activity records and fetches IMU records. |
| MCBluecentFetchNone.cfg | MCBluecentFetch | FetchComplete | A refused get-epoch: `tdata` is `None` and `tdata.data` raises. |
| MCBluecentFetchGap.cfg | MCBluecentFetch | FetchedInOrder | A refused record read is skipped; the CSV has a hole. |
| MCBluecentFetchStale.cfg | MCBluecentFetch | FetchedInOrder | A late record reply makes the next read return the previous record, written twice. |

Each property of a passing run has a mutant in `PROJECT.json`. The mutant is a plausible code bug that TLC must catch: a dropped polynomial xor, the CRC length without the CRC bytes, `from_bytes` without the CRC check, an unmasked byte split, a fetch loop one short, a stop frame carrying the start flag, the bad-word skip as `range(2)`, `on_connect` without `global is_connected`, the bluecent index bytes written where a 12-byte array ends, and `HEADER_FORMAT` without its `<` prefix (native alignment pads the `H` fields and every `calcsize` length grows).

## Bounds

- **Crc16.** Every byte value appears as a one-byte input, so each xor and shift path is exercised. Multi-byte inputs are real frames.
- **CommFrame.**
  - Two commands.
  - Request payloads of 1 and 2 bytes, one of which starts with 0x11, the case that separates the round trip.
  - Response data of 0 and 2 bytes.
  - Acks 0x11 and 0x22.
  - Culvert catalogue: two 8-byte uids, and record numbers at both ends of each byte of `struct.pack('>H')`. The length byte does not depend on the values, only on the formats, which are all enumerated.
  - One damaged byte per response, over all 256 values and every position. One flip is enough to show the CRC rejects single-byte damage. Two would multiply the state space by about 10⁴.
- **CulvertSession.**
  - Two iterations with two uids. This lets the second start find the first session unstopped.
  - `MaxRecords = 2`. A fetch loop then has a first and a later record, and a snapshot can be short of the device count.
  - `MaxInbox` is 1 when replies are timely and 2 when they are late. Two is enough for a reply to lag one command behind.
  - `BypassModes = {FALSE, TRUE}` and an initial recording of nothing or the bypass session `ub`, so one run covers both modes.
- **ScrubStatic.** Every report of up to 6 lines of the line kinds (no phrase, a bad word, an other skip, both): 6 lines is enough for a bad word's 3 skipped lines to be followed by a line that must be kept, and for every skip to meet the end of the file.
- **PahoClient.** `TicksPerSecond = 2` (3 in the passing run) makes "more than 2 s" a distinct state from "exactly 2 s". Refusal and drop are switched on separately in the violation runs so each counterexample has one cause.
- **BluecentFetch.** Two sessions: the stored one M1 fetches and the new one csv_file records. `MaxRecords = 2` and `MaxInbox = 2`, as in `CulvertSession`. With counts below 256, csv_file's high byte is always 0: the bug shows at the smallest count.

## Fairness

`CulvertSession` has weak fairness on the script's steps, excluding link loss. The script runs on one asyncio thread and never waits on anything but the collar. The collar's handling of queued commands is also weakly fair, since the firmware processes every command written to it. Recording samples are not fair: a session may record nothing. Every config sets `CHECK_DEADLOCK FALSE` because the script really terminates (`done` or `crashed`).

`PahoClient` has weak fairness on `Connect`, `Loop` (the script loops forever and `loop()` returns after its timeout), `Tick` (wall-clock time passes) and `BrokerConnack` (the broker answers a CONNECT). There is none on `Drop`. Its configs set `CHECK_DEADLOCK FALSE` because the script stops only when `client.connect` raises. `ScrubStatic` and `BluecentFetch` are checked for safety only; they too stop, at the end of the file or script.

## Refinement

`ScrubStatic` maps to `ScrubSpec` by hiding the loop's progress: while the loop runs, the abstract file is empty and the status `running`; once it ends, the written lines are `out` and the status is `pc`. `scrub_pass` checks `Abstract!Spec` as a property.

## Not modelled, and the plan

- **Bluecent one-shot scripts.** `Test_1..3.py`, `M1_Demo_record_Session.py`, `act_data.py`, `bluecent.py`, `test_fw_version.py` and `battery_monitor.py` are not modelled. They are fixed sequences of the exchanges `BluecentFetch` models, and no parse in them drives control.
- **Record payload decoders.** Only `imu_rec_act_unpack` is modelled (`ActData`). The others (`imu_rec_rec_unpack`, culvert's `parse_*`, the cloud and annotation parsers) unpack fixed formats after a length check, with no control to check; their value conversions (floats, timestamps) are presentation.
- **Other devices, presentation and I/O.** The commercial-collar CBOR test, plotting, video annotation and logging are out of scope.
- **Record request bytes.** The collar's parse of the 13-byte record request is not in the repository; the host side is checked (`RecordRequestsAgree`): the slice assignment grows the array and the index lands at bytes 11..12, where culvert puts it.
