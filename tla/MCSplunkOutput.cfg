\* Splunk output on the batcher: two workers, batches of two, four events
\* of one stream, so both workers can hold a full batch at once; up to two
\* failed sends (rejected, timed out with a late arrival or loss, stored but
\* unreadable answer) before the collector accepts.  The endpoint is a HEC
\* collector: every JSON answer has a code.
CONSTANTS
  w1 = w1
  w2 = w2
  Workers = {w1, w2}
  BatchSize = 2
  NumEvents = 4
  MaxFailures = 2
  UncodedAnswers = FALSE
SPECIFICATION FairSpec
INVARIANT TypeOK
PROPERTY ImplementsContract
PROPERTY EventuallyDelivered
