SPECIFICATION ScannerSpec
CONSTANT Documents <- Mixed
INVARIANT ProseForwarded
\* Nothing follows finish.
CHECK_DEADLOCK FALSE
